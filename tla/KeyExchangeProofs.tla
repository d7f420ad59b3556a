-------------------------- MODULE KeyExchangeProofs --------------------------
(***************************************************************************)
(* The two sides of a key exchange end with the same keys.                 *)
(*                                                                         *)
(* Without RSA three things have to come together: the powers that the two *)
(* sides compute commute (SecretsMeet); a number that is written in        *)
(* decimal and padded to its field is read back as it was (FieldIs), which *)
(* takes that no prime begins with a zero where the bank guesses the base  *)
(* (PrimeIs); and fields that are glued together come apart at the same    *)
(* place (SplitFields).                                                    *)
(*                                                                         *)
(* With RSA the strings come back if they fit under the modulus and the    *)
(* keys undo each other.  KeysInv says of the files, and of what was read  *)
(* from them, which draw of MakeKeys it comes from.  Keys of one draw undo *)
(* each other, by Fermat's theorem for either prime (KeyUndoes); so the    *)
(* HELLOs of one draw come back, and PointInv follows the numbers through  *)
(* the exchange between any two sides that undo each other.                *)
(***************************************************************************)
EXTENDS KeyExchange, SequenceTheorems, FiniteSetTheorems, NaturalsInduction,
        WellFoundedInduction, TLAPS
-----------------------------------------------------------------------------
(***************************************************************************)
(* Induction over the naturals, for a set instead of a formula, and what   *)
(* it says of functions that are defined step by step.                     *)
(***************************************************************************)
\* A set that has 0 and every successor of its elements has every natural.
LEMMA Induct ==
  ASSUME NEW S, 0 \in S, \A n \in Nat : n \in S => n + 1 \in S
  PROVE  Nat \subseteq S
<1> DEFINE Left == Nat \ S
           R == OpToRel(<, Nat)
<1> SUFFICES ASSUME Left # {} PROVE FALSE
  OBVIOUS
<1>1. PICK n \in Left : \A m \in Left : <<m, n>> \notin R
  <2>1. IsWellFoundedOn(R, Nat) /\ Left \subseteq Nat
    BY NatLessThanWellFounded
  <2> HIDE DEF Left, R
  <2> QED
    BY <2>1, WFMin
<1>2. \A m \in Left : ~(m < n)
  BY <1>1 DEF OpToRel
<1>3. n # 0 /\ n - 1 \in Nat /\ n - 1 < n
  OBVIOUS
<1>4. n - 1 \in S
  BY <1>2, <1>3
<1> QED
  BY <1>3, <1>4

\* f takes n steps of F, from b.
Iterates(f, b, F, n) == f[0] = b /\ \A i \in 1 .. n : f[i] = F[i][f[i - 1]]

\* There is such a function.
LEMMA Iteration ==
  ASSUME NEW V, NEW b \in V, NEW F \in [Nat -> [V -> V]], NEW n \in Nat
  PROVE  \E f \in [0 .. n -> V] : Iterates(f, b, F, n)
<1> DEFINE S == {k \in Nat : \E f \in [0 .. k -> V] : Iterates(f, b, F, k)}
<1>1. 0 \in S
  <2> DEFINE f == [i \in 0 .. 0 |-> b]
  <2>1. f \in [0 .. 0 -> V] /\ Iterates(f, b, F, 0)
    BY DEF Iterates
  <2> QED
    BY <2>1
<1>2. ASSUME NEW k \in Nat, k \in S PROVE k + 1 \in S
  <2>1. PICK f \in [0 .. k -> V] : Iterates(f, b, F, k)
    BY <1>2
  <2> DEFINE g == [i \in 0 .. k + 1 |-> IF i = k + 1 THEN F[k + 1][f[k]] ELSE f[i]]
  <2>2. k \in 0 .. k /\ f[k] \in V /\ F[k + 1] \in [V -> V] /\ F[k + 1][f[k]] \in V
    OBVIOUS
  <2>3. g \in [0 .. k + 1 -> V]
    BY <2>2
  <2>4. \A i \in 0 .. k : g[i] = f[i]
    OBVIOUS
  <2>5. g[k + 1] = F[k + 1][f[k]]
    OBVIOUS
  <2> HIDE DEF g
  <2>6. \A i \in 1 .. k : g[i] = F[i][g[i - 1]]
    BY <2>1, <2>4 DEF Iterates
  <2>7. Iterates(g, b, F, k + 1)
    <3>1. \A i \in 1 .. k + 1 : i \in 1 .. k \/ i = k + 1
      OBVIOUS
    <3> QED
      BY <2>1, <2>4, <2>5, <2>6, <3>1 DEF Iterates
  <2> QED
    BY <2>3, <2>7
<1>3. Nat \subseteq S
  <2> HIDE DEF S
  <2> QED
    BY <1>1, <1>2, Induct
<1> QED
  BY <1>3

\* Two functions that begin alike and take like steps are alike.
LEMMA InStepTo ==
  ASSUME NEW n \in Nat, NEW f, NEW g, f[0] = g[0],
         \A i \in 1 .. n : f[i - 1] = g[i - 1] => f[i] = g[i]
  PROVE  f[n] = g[n]
<1> DEFINE S == {k \in Nat : k <= n => f[k] = g[k]}
<1>1. 0 \in S
  OBVIOUS
<1>2. ASSUME NEW k \in Nat, k \in S PROVE k + 1 \in S
  <2> SUFFICES ASSUME k + 1 <= n PROVE f[k + 1] = g[k + 1]
    OBVIOUS
  <2>1. k + 1 \in 1 .. n /\ (k + 1) - 1 = k /\ f[k] = g[k]
    BY <1>2
  <2> QED
    BY <2>1
<1>3. Nat \subseteq S
  <2> HIDE DEF S
  <2> QED
    BY <1>1, <1>2, Induct
<1> QED
  BY <1>3
-----------------------------------------------------------------------------
(***************************************************************************)
(* The three functions of the model that are defined so.                   *)
(***************************************************************************)
\* B to the power of k, by any function that multiplies k times.
LEMMA PowerIs ==
  ASSUME NEW k \in Nat, NEW f \in [0 .. k -> Nat], f[0] = 1,
         \A i \in 1 .. k : f[i] = B * f[i - 1]
  PROVE  Power(k) = f[k]
<1> DEFINE D(p) == [i \in 0 .. k |-> IF i = 0 THEN 1 ELSE B * p[i - 1]]
           power == CHOOSE p : p = D(p)
<1>1. f = D(f)
  OBVIOUS
<1>2. power = D(power)
  BY <1>1
<1>3. Power(k) = power[k]
  BY DEF Power
<1> HIDE DEF power
<1>4. power[0] = 1 /\ \A i \in 1 .. k : power[i] = B * power[i - 1]
  BY <1>2
<1> HIDE DEF D
<1>5. \A i \in 1 .. k : power[i - 1] = f[i - 1] => power[i] = f[i]
  BY <1>4
<1>6. power[0] = f[0]
  BY <1>4
<1>7. power[k] = f[k]
  BY <1>5, <1>6, InStepTo
<1> QED
  BY <1>3, <1>7

\* The powers of B, one by one.
LEMMA Powers ==
  ASSUME NEW k \in Nat
  PROVE  Power(0) = 1 /\ Power(k) \in Nat \ {0} /\ Power(k + 1) = B * Power(k)
<1> DEFINE V == Nat \ {0}
           F == [i \in Nat |-> [n \in V |-> B * n]]
<1>0. B \in Nat /\ B > 1
  BY KeyExchangeAssumption
<1>1. F \in [Nat -> [V -> V]]
  <2>1. \A n \in V : B * n \in V
    BY <1>0
  <2> HIDE DEF V
  <2> QED
    BY <2>1
<1> HIDE DEF F, V
<1>2. PICK f \in [0 .. k + 1 -> V] : Iterates(f, 1, F, k + 1)
  <2>1. k + 1 \in Nat /\ 1 \in V
    BY DEF V
  <2> QED
    BY <1>1, <2>1, Iteration
<1>3. f[0] = 1 /\ \A i \in 1 .. k + 1 : f[i] = B * f[i - 1]
  <2>1. ASSUME NEW i \in 1 .. k + 1 PROVE i \in Nat /\ f[i - 1] \in V
    BY <1>2
  <2> QED
    BY <1>2, <2>1 DEF Iterates, F
<1>4. f \in [0 .. k + 1 -> Nat] /\ f[k] \in V /\ f[k + 1] = B * f[k]
  BY <1>2, <1>3 DEF V
<1>5. Power(k + 1) = f[k + 1]
  <2>1. k + 1 \in Nat
    OBVIOUS
  <2> QED
    BY <1>3, <1>4, <2>1, PowerIs
<1> DEFINE g == [i \in 0 .. k |-> f[i]]
<1>6. g \in [0 .. k -> Nat] /\ g[0] = 1 /\ g[k] = f[k] /\ \A i \in 1 .. k : g[i] = B * g[i - 1]
  BY <1>3, <1>4
<1>7. Power(k) = f[k]
  <2> HIDE DEF g
  <2> QED
    BY <1>6, PowerIs
<1>8. Power(0) = 1
  <2> DEFINE h == [i \in 0 .. 0 |-> 1]
  <2>1. h \in [0 .. 0 -> Nat] /\ h[0] = 1 /\ \A i \in 1 .. 0 : h[i] = B * h[i - 1]
    OBVIOUS
  <2> HIDE DEF h
  <2> QED
    BY <2>1, PowerIs
<1> QED
  BY <1>4, <1>5, <1>7, <1>8 DEF V

\* The value of a string, by any function that takes it digit by digit.
LEMMA NumberIs ==
  ASSUME NEW n \in Nat, NEW s \in [1 .. n -> Nat], NEW f \in [0 .. n -> Nat], f[0] = 0,
         \A i \in 1 .. n : f[i] = B * f[i - 1] + s[i]
  PROVE  Number(s) = f[n]
<1> DEFINE D(v) == [i \in 0 .. n |-> IF i = 0 THEN 0 ELSE B * v[i - 1] + s[i]]
           value == CHOOSE v : v = D(v)
<1>1. f = D(f)
  OBVIOUS
<1>2. value = D(value)
  BY <1>1
<1>3. Len(s) = n
  OBVIOUS
<1>4. Number(s) = value[n]
  BY <1>3 DEF Number, NumberIn
<1> HIDE DEF value
<1>5. value[0] = 0 /\ \A i \in 1 .. n : value[i] = B * value[i - 1] + s[i]
  BY <1>2
<1> HIDE DEF D
<1>6. \A i \in 1 .. n : value[i - 1] = f[i - 1] => value[i] = f[i]
  BY <1>5
<1>7. value[0] = f[0]
  BY <1>5
<1>8. value[n] = f[n]
  BY <1>6, <1>7, InStepTo
<1> QED
  BY <1>4, <1>8

\* x to the power of k modulo m, by any function that multiplies k times.
LEMMA PowModIs ==
  ASSUME NEW x \in Nat, NEW m \in Nat \ {0}, NEW k \in Nat, NEW f \in [0 .. k -> Nat],
         f[0] = 1 % m, \A i \in 1 .. k : f[i] = (f[i - 1] * x) % m
  PROVE  PowMod(x, k, m) = f[k]
<1> DEFINE D(p) == [i \in 0 .. k |-> IF i = 0 THEN 1 % m ELSE (p[i - 1] * x) % m]
           power == CHOOSE p : p = D(p)
<1>1. f = D(f)
  OBVIOUS
<1>2. power = D(power)
  BY <1>1
<1>3. PowMod(x, k, m) = power[k]
  BY DEF PowMod
<1> HIDE DEF power
<1>4. power[0] = 1 % m /\ \A i \in 1 .. k : power[i] = (power[i - 1] * x) % m
  BY <1>2
<1> HIDE DEF D
<1>5. \A i \in 1 .. k : power[i - 1] = f[i - 1] => power[i] = f[i]
  BY <1>4
<1>6. power[0] = f[0]
  BY <1>4
<1>7. power[k] = f[k]
  BY <1>5, <1>6, InStepTo
<1> QED
  BY <1>3, <1>7

\* The powers modulo m, one by one.
LEMMA PowModStep ==
  ASSUME NEW x \in Nat, NEW m \in Nat \ {0}, NEW k \in Nat
  PROVE  /\ PowMod(x, 0, m) = 1 % m
         /\ PowMod(x, k, m) \in 0 .. m - 1
         /\ PowMod(x, k + 1, m) = (PowMod(x, k, m) * x) % m
<1> DEFINE V == 0 .. m - 1
           F == [i \in Nat |-> [n \in V |-> (n * x) % m]]
<1>0. 1 % m \in V
  OBVIOUS
<1>1. F \in [Nat -> [V -> V]]
  <2>1. \A n \in V : (n * x) % m \in V
    <3>1. \A n \in V : n * x \in Nat
      OBVIOUS
    <3> QED
      BY <3>1
  <2> HIDE DEF V
  <2> QED
    BY <2>1
<1> HIDE DEF F, V
<1>2. PICK f \in [0 .. k + 1 -> V] : Iterates(f, 1 % m, F, k + 1)
  <2>1. k + 1 \in Nat
    OBVIOUS
  <2> QED
    BY <1>0, <1>1, <2>1, Iteration
<1>3. f[0] = 1 % m /\ \A i \in 1 .. k + 1 : f[i] = (f[i - 1] * x) % m
  <2>1. ASSUME NEW i \in 1 .. k + 1 PROVE i \in Nat /\ f[i - 1] \in V
    BY <1>2
  <2> QED
    BY <1>2, <2>1 DEF Iterates, F
<1>4. f \in [0 .. k + 1 -> Nat]
  BY <1>2 DEF V
<1>5. PowMod(x, k + 1, m) = f[k + 1]
  <2>1. k + 1 \in Nat
    OBVIOUS
  <2> QED
    BY <1>3, <1>4, <2>1, PowModIs
<1> DEFINE g == [i \in 0 .. k |-> f[i]]
<1>6. /\ g \in [0 .. k -> Nat] /\ g[0] = 1 % m /\ g[k] = f[k]
      /\ \A i \in 1 .. k : g[i] = (g[i - 1] * x) % m
  BY <1>3, <1>4
<1>7. PowMod(x, k, m) = f[k]
  <2> HIDE DEF g
  <2> QED
    BY <1>6, PowModIs
<1>8. PowMod(x, 0, m) = 1 % m
  <2> DEFINE h == [i \in 0 .. 0 |-> 1 % m]
  <2>1. /\ h \in [0 .. 0 -> Nat] /\ h[0] = 1 % m
        /\ \A i \in 1 .. 0 : h[i] = (h[i - 1] * x) % m
    BY <1>0
  <2> HIDE DEF h
  <2>2. 0 \in Nat
    OBVIOUS
  <2>3. PowMod(x, 0, m) = h[0]
    BY <2>1, <2>2, PowModIs
  <2> QED
    BY <2>1, <2>3
<1>9. f[k + 1] = (f[k] * x) % m /\ f[k] \in V
  BY <1>2, <1>3
<1> QED
  BY <1>5, <1>7, <1>8, <1>9 DEF V
-----------------------------------------------------------------------------
(***************************************************************************)
(* Quotients and remainders.                                               *)
(***************************************************************************)
\* Division with remainder, and that its result is the only one.
LEMMA Euclid ==
  ASSUME NEW x \in Nat, NEW m \in Nat \ {0}
  PROVE  /\ x \div m \in Nat /\ x % m \in 0 .. m - 1
         /\ x = m * (x \div m) + (x % m)
OBVIOUS

LEMMA Quotient ==
  ASSUME NEW m \in Nat \ {0}, NEW q \in Int, NEW r \in 0 .. m - 1, NEW x \in Int, x = m * q + r
  PROVE  x \div m = q /\ x % m = r
OBVIOUS

\* A factor may be reduced before it is multiplied.
LEMMA ModTimes ==
  ASSUME NEW m \in Nat \ {0}, NEW u \in Nat, NEW v \in Nat
  PROVE  ((u % m) * v) % m = (u * v) % m
<1> DEFINE q == u \div m
           r == u % m
<1>1. q \in Nat /\ r \in Nat /\ u = m * q + r
  BY Euclid
<1> HIDE DEF q, r
<1>2. r * v \in Nat
  BY <1>1
<1> DEFINE q2 == (r * v) \div m
           r2 == (r * v) % m
<1>3. q2 \in Nat /\ r2 \in 0 .. m - 1 /\ r * v = m * q2 + r2
  BY <1>2, Euclid
<1> HIDE DEF q2, r2
<1>4. u * v = (m * q) * v + r * v
  BY <1>1
<1>5. (m * q) * v = m * (q * v)
  BY <1>1
<1>6. m * (q * v + q2) = m * (q * v) + m * q2
  BY <1>1, <1>3
<1>7. u * v = m * (q * v + q2) + r2 /\ q * v + q2 \in Int /\ u * v \in Int
  BY <1>1, <1>3, <1>4, <1>5, <1>6
<1>8. (u * v) % m = r2
  BY <1>3, <1>7, Quotient
<1> QED
  BY <1>8 DEF r2, r

\* Dividing by a and then by b is dividing by their product.
LEMMA QuotientTwice ==
  ASSUME NEW n \in Nat, NEW a \in Nat \ {0}, NEW b \in Nat \ {0}
  PROVE  (n \div a) \div b = n \div (b * a)
<1> DEFINE q == n \div a
           r == n % a
           q2 == q \div b
           r2 == q % b
<1>1. q \in Nat /\ r \in 0 .. a - 1 /\ n = a * q + r
  BY Euclid
<1> HIDE DEF q, r
<1>2. q2 \in Nat /\ r2 \in 0 .. b - 1 /\ q = b * q2 + r2
  BY <1>1, Euclid
<1> HIDE DEF q2, r2
<1>3. b * a \in Nat \ {0}
  OBVIOUS
<1>4. n = (b * a) * q2 + (a * r2 + r)
  <2>1. a * q = a * (b * q2) + a * r2
    BY <1>2
  <2>2. a * (b * q2) = (b * a) * q2
    BY <1>2
  <2> QED
    BY <1>1, <1>2, <2>1, <2>2
<1>5. a * r2 + r \in 0 .. (b * a) - 1
  <2>1. a * r2 <= a * (b - 1)
    BY <1>2
  <2>2. a * (b - 1) = b * a - a
    OBVIOUS
  <2>3. a * r2 \in Nat
    BY <1>2
  <2> QED
    BY <1>1, <2>1, <2>2, <2>3
<1>6. n \div (b * a) = q2
  BY <1>2, <1>3, <1>4, <1>5, Quotient
<1> QED
  BY <1>6 DEF q2, q
-----------------------------------------------------------------------------
(***************************************************************************)
(* Powers, and why the two sides of an exchange meet.                      *)
(***************************************************************************)
\* Exponents add.
LEMMA PowAdd ==
  ASSUME NEW x \in Nat, NEW m \in Nat \ {0}, NEW a \in Nat, NEW b \in Nat
  PROVE  PowMod(x, a + b, m) = (PowMod(x, a, m) * PowMod(x, b, m)) % m
<1> DEFINE P(k) == PowMod(x, k, m)
           S == {k \in Nat : P(a + k) = (P(a) * P(k)) % m}
<1>1. \A k \in Nat : P(0) = 1 % m /\ P(k) \in 0 .. m - 1 /\ P(k + 1) = (P(k) * x) % m
  BY PowModStep
<1> HIDE DEF P
<1>2. 0 \in S
  <2>1. P(a) \in 0 .. m - 1 /\ P(a + 0) = P(a)
    BY <1>1
  <2>2. (P(a) * (1 % m)) % m = P(a)
    <3>1. CASE m = 1
      BY <2>1, <3>1
    <3>2. CASE m > 1
      <4>1. 1 % m = 1
        BY <3>2
      <4>2. P(a) * 1 = P(a) /\ P(a) % m = P(a)
        BY <2>1
      <4> QED
        BY <4>1, <4>2
    <3> QED
      BY <3>1, <3>2
  <2> QED
    BY <1>1, <2>1, <2>2
<1>3. ASSUME NEW k \in Nat, k \in S PROVE k + 1 \in S
  <2> DEFINE u == P(a)
             v == P(k)
  <2>1. u \in Nat /\ v \in Nat
    BY <1>1
  <2>2. P(a + (k + 1)) = (P(a + k) * x) % m
    <3>1. a + k \in Nat /\ a + (k + 1) = (a + k) + 1
      OBVIOUS
    <3> QED
      BY <1>1, <3>1
  <2>3. P(a + k) = (u * v) % m /\ P(k + 1) = (v * x) % m
    BY <1>1, <1>3
  <2> HIDE DEF u, v
  <2>4. (((u * v) % m) * x) % m = ((u * v) * x) % m
    <3>1. u * v \in Nat
      BY <2>1
    <3> QED
      BY <3>1, ModTimes
  <2>5. (((v * x) % m) * u) % m = ((v * x) * u) % m
    <3>1. v * x \in Nat
      BY <2>1
    <3> QED
      BY <2>1, <3>1, ModTimes
  <2>6. (u * v) * x = (v * x) * u
    BY <2>1
  <2>7. (v * x) % m \in Nat
    <3>1. v * x \in Nat
      BY <2>1
    <3> QED
      BY <3>1
  <2>8. u * ((v * x) % m) = ((v * x) % m) * u
    BY <2>1, <2>7
  <2>9. P(a + (k + 1)) = (u * P(k + 1)) % m
    BY <2>2, <2>3, <2>4, <2>5, <2>6, <2>8
  <2> QED
    BY <2>9 DEF u
<1>4. Nat \subseteq S
  <2> HIDE DEF S
  <2> QED
    BY <1>2, <1>3, Induct
<1>5. P(a + b) = (P(a) * P(b)) % m
  BY <1>4
<1> QED
  BY <1>5 DEF P

\* Exponents multiply.
LEMMA PowTimes ==
  ASSUME NEW x \in Nat, NEW m \in Nat \ {0}, NEW a \in Nat, NEW b \in Nat
  PROVE  PowMod(PowMod(x, a, m), b, m) = PowMod(x, a * b, m)
<1> DEFINE y == PowMod(x, a, m)
           S == {k \in Nat : PowMod(y, k, m) = PowMod(x, a * k, m)}
<1>1. y \in Nat
  BY PowModStep
<1> HIDE DEF y
<1>2. 0 \in S
  <2>1. a * 0 = 0
    OBVIOUS
  <2> QED
    BY <1>1, <2>1, PowModStep
<1>3. ASSUME NEW k \in Nat, k \in S PROVE k + 1 \in S
  <2>1. PowMod(y, k + 1, m) = (PowMod(y, k, m) * y) % m
    BY <1>1, PowModStep
  <2>2. a * k \in Nat /\ a * (k + 1) = a * k + a
    OBVIOUS
  <2>3. PowMod(x, a * k + a, m) = (PowMod(x, a * k, m) * y) % m
    BY <2>2, PowAdd DEF y
  <2> QED
    BY <1>3, <2>1, <2>2, <2>3
<1>4. Nat \subseteq S
  <2> HIDE DEF S
  <2> QED
    BY <1>2, <1>3, Induct
<1>5. PowMod(y, b, m) = PowMod(x, a * b, m)
  BY <1>4
<1> QED
  BY <1>5 DEF y

\* What Diffie and Hellman rest on: both sides compute the same secret.
LEMMA SecretsMeet ==
  ASSUME NEW g \in Nat, NEW p \in Nat \ {0}, NEW a \in Nat, NEW b \in Nat
  PROVE  PowMod(PowMod(g, a, p), b, p) = PowMod(PowMod(g, b, p), a, p)
<1>1. a * b = b * a
  OBVIOUS
<1>2. /\ PowMod(PowMod(g, a, p), b, p) = PowMod(g, a * b, p)
      /\ PowMod(PowMod(g, b, p), a, p) = PowMod(g, b * a, p)
  BY PowTimes
<1> QED
  BY <1>1, <1>2
-----------------------------------------------------------------------------
(***************************************************************************)
(* Numbers as strings of digits, and back.                                 *)
(***************************************************************************)
\* k digits hold every number below B^k.
LEMMA DigitsValue ==
  ASSUME NEW n \in Nat, NEW k \in Nat, n < Power(k)
  PROVE  Digits(n, k) \in [1 .. k -> Nat] /\ Number(Digits(n, k)) = n
<1> DEFINE s == Digits(n, k)
           v == [i \in 0 .. k |-> n \div Power(k - i)]
<1>0. B \in Nat \ {0}
  BY KeyExchangeAssumption
<1>1. \A i \in 0 .. k : k - i \in Nat /\ Power(k - i) \in Nat \ {0} /\ n \div Power(k - i) \in Nat
  <2>1. ASSUME NEW i \in 0 .. k PROVE k - i \in Nat /\ Power(k - i) \in Nat \ {0}
    <3>1. k - i \in Nat
      OBVIOUS
    <3> QED
      BY <3>1, Powers
  <2> QED
    BY <2>1, Euclid
<1>2. s \in [1 .. k -> Nat]
  BY <1>0, <1>1 DEF Digits
<1>3. v \in [0 .. k -> Nat]
  BY <1>1
<1>4. v[0] = 0
  <2>1. n \div Power(k) = 0
    <3>1. Power(k) \in Nat \ {0} /\ n = Power(k) * 0 + n /\ n \in 0 .. Power(k) - 1
      BY Powers
    <3> QED
      BY <3>1, Quotient
  <2> QED
    BY <2>1
<1>5. ASSUME NEW i \in 1 .. k PROVE v[i] = B * v[i - 1] + s[i]
  <2> DEFINE a == Power(k - i)
             q == n \div a
  <2>1. k - i \in Nat /\ a \in Nat \ {0} /\ Power(k - i + 1) = B * a
    <3>1. k - i \in Nat
      OBVIOUS
    <3> QED
      BY <3>1, Powers
  <2>2. k - (i - 1) = k - i + 1 /\ i - 1 \in 0 .. k
    OBVIOUS
  <2>3. v[i - 1] = n \div (B * a)
    BY <2>1, <2>2
  <2>4. q \div B = n \div (B * a)
    BY <1>0, <2>1, QuotientTwice
  <2>5. s[i] = q % B
    BY DEF Digits
  <2>6. q \in Nat
    BY <2>1, Euclid
  <2>7. v[i] = q
    OBVIOUS
  <2> HIDE DEF s, v, q
  <2>8. q = B * (q \div B) + (q % B)
    BY <1>0, <2>6, Euclid
  <2> QED
    BY <2>3, <2>4, <2>5, <2>7, <2>8
<1>6. v[k] = n
  <2>1. k - k = 0 /\ Power(0) = 1
    BY Powers
  <2> QED
    BY <2>1
<1>7. Number(s) = v[k]
  <2> HIDE DEF s, v
  <2> QED
    BY <1>2, <1>3, <1>4, <1>5, NumberIs
<1> QED
  BY <1>2, <1>6, <1>7

\* Powers grow, and faster than the exponent.
LEMMA PowerGrows ==
  ASSUME NEW a \in Nat, NEW b \in Nat, a <= b
  PROVE  Power(a) <= Power(b) /\ b < Power(b)
<1>0. B \in Nat /\ B >= 2
  BY KeyExchangeAssumption
<1> DEFINE S == {k \in Nat : k < Power(k) /\ (a <= k => Power(a) <= Power(k))}
<1>1. 0 \in S
  <2>1. Power(0) = 1 /\ (a <= 0 => a = 0)
    BY Powers
  <2> QED
    BY <2>1
<1>2. ASSUME NEW k \in Nat, k \in S PROVE k + 1 \in S
  <2>1. Power(k) \in Nat \ {0} /\ Power(k + 1) = B * Power(k) /\ Power(a) \in Nat
    BY Powers
  <2>2. B * Power(k) >= Power(k) + Power(k)
    BY <1>0, <2>1
  <2>3. a <= k + 1 => a <= k \/ a = k + 1
    OBVIOUS
  <2>4. Power(k + 1) \in Nat
    BY <1>0, <2>1
  <2> QED
    BY <1>2, <2>1, <2>2, <2>3, <2>4
<1>3. Nat \subseteq S
  <2> HIDE DEF S
  <2> QED
    BY <1>1, <1>2, Induct
<1> QED
  BY <1>3

\* The least number of places that is enough.
LEMMA PlacesOf ==
  ASSUME NEW n \in Nat
  PROVE  /\ Places(n) \in 1 .. n + 1
         /\ n < Power(Places(n))
         /\ Places(n) = 1 \/ Power(Places(n) - 1) <= n
<1> DEFINE Good(k) == n < Power(k) /\ (k = 1 \/ Power(k - 1) <= n)
<1>1. \E k \in 1 .. n + 1 : Good(k)
  <2> SUFFICES ASSUME \A k \in 1 .. n + 1 : ~Good(k)
               PROVE  FALSE
    OBVIOUS
  <2> DEFINE S == {k \in Nat : k \in 1 .. n + 1 => Power(k) <= n}
  <2>1. 0 \in S
    OBVIOUS
  <2>2. ASSUME NEW k \in Nat, k \in S PROVE k + 1 \in S
    <3>1. Power(k + 1) \in Nat
      <4>1. k + 1 \in Nat
        OBVIOUS
      <4> QED
        BY <4>1, Powers
    <3>2. (k + 1) - 1 = k
      OBVIOUS
    <3>3. k + 1 \in 1 .. n + 1 => k + 1 = 1 \/ k \in 1 .. n + 1
      OBVIOUS
    <3> QED
      BY <2>2, <3>1, <3>2, <3>3
  <2>3. Nat \subseteq S
    <3> HIDE DEF S
    <3> QED
      BY <2>1, <2>2, Induct
  <2>4. Power(n + 1) <= n
    BY <2>3
  <2>5. n + 1 \in Nat /\ n + 1 < Power(n + 1) /\ Power(n + 1) \in Nat
    BY PowerGrows, Powers
  <2> QED
    BY <2>4, <2>5
<1>2. Places(n) = CHOOSE k \in 1 .. n + 1 : Good(k)
  BY DEF Places
<1> HIDE DEF Good
<1>3. Places(n) \in 1 .. n + 1 /\ Good(Places(n))
  BY <1>1, <1>2
<1> QED
  BY <1>3 DEF Good

\* Padding gives every number below B^w the width w, and keeps its value.
LEMMA PaddedString ==
  ASSUME NEW n \in Nat, NEW w \in Nat \ {0}, n < Power(w)
  PROVE  /\ Padded(String(n), w) = Digits(n, w)
         /\ Places(n) \in 1 .. w
<1> DEFINE k == Places(n)
<1>1. k \in 1 .. n + 1 /\ n < Power(k) /\ (k = 1 \/ Power(k - 1) <= n)
  BY PlacesOf
<1> HIDE DEF k
<1>2. k <= w
  <2> SUFFICES ASSUME k > w PROVE FALSE
    BY <1>1
  <2>1. k - 1 \in Nat /\ w <= k - 1 /\ k # 1
    BY <1>1
  <2>2. Power(w) <= Power(k - 1) /\ Power(w) \in Nat /\ Power(k - 1) \in Nat
    BY <2>1, PowerGrows, Powers
  <2> QED
    BY <1>1, <2>1, <2>2
<1>3. String(n) = Digits(n, k)
  BY DEF String, k
<1> DEFINE s == Digits(n, k)
<1>4. DOMAIN s = 1 .. k /\ Len(s) = k /\ \A i \in 1 .. k : s[i] = (n \div Power(k - i)) % B
  BY <1>1 DEF Digits
<1> HIDE DEF s
<1>5. CASE k = w
  <2>1. Padded(s, w) = s
    BY <1>4, <1>5 DEF Padded
  <2> QED
    BY <1>1, <1>3, <1>5, <2>1 DEF s, k
<1>6. CASE k < w
  <2>1. Padded(s, w) = [i \in 1 .. w |-> IF i + k <= w THEN 0 ELSE s[i + k - w]]
    BY <1>1, <1>4, <1>6 DEF Padded
  <2>2. ASSUME NEW i \in 1 .. w
        PROVE  (IF i + k <= w THEN 0 ELSE s[i + k - w]) = (n \div Power(w - i)) % B
    <3>1. CASE i + k <= w
      <4>1. k \in Nat /\ w - i \in Nat /\ k <= w - i
        BY <1>1, <3>1
      <4>2. Power(k) <= Power(w - i) /\ Power(k) \in Nat /\ Power(w - i) \in Nat \ {0}
        BY <4>1, PowerGrows, Powers
      <4>3. n = Power(w - i) * 0 + n /\ n \in 0 .. Power(w - i) - 1
        BY <1>1, <4>2
      <4>4. n \div Power(w - i) = 0
        BY <4>2, <4>3, Quotient
      <4>5. 0 % B = 0
        BY KeyExchangeAssumption
      <4> QED
        BY <3>1, <4>4, <4>5
    <3>2. CASE ~(i + k <= w)
      <4>1. i + k - w \in 1 .. k /\ k - (i + k - w) = w - i
        BY <1>1, <1>6, <3>2
      <4> QED
        BY <1>4, <3>2, <4>1
    <3> QED
      BY <3>1, <3>2
  <2>3. Padded(s, w) = Digits(n, w)
    BY <2>1, <2>2 DEF Digits
  <2> QED
    BY <1>1, <1>3, <1>6, <2>3 DEF s, k
<1> QED
  BY <1>1, <1>2, <1>5, <1>6

\* Numbers of W places: what the strings of the exchange stand for.
Fitting == {n \in Nat : n < Power(W)}

\* A padded string of a number that fits, and what is read back.
Field(n) == Padded(String(n), W)

\* A field is W digits, which are read back as the number.
LEMMA FieldIs ==
  ASSUME NEW n \in Fitting
  PROVE  Field(n) \in Seq(Nat) /\ Len(Field(n)) = W /\ Number(Field(n)) = n
<1>1. W \in Nat \ {0}
  BY KeyExchangeAssumption
<1>2. Field(n) = Digits(n, W)
  BY <1>1, PaddedString DEF Fitting, Field
<1>3. Digits(n, W) \in [1 .. W -> Nat] /\ Number(Digits(n, W)) = n
  BY <1>1, DigitsValue DEF Fitting
<1> QED
  BY <1>1, <1>2, <1>3

\* A prime of W places needs no padding and begins with a digit that is not 0.
LEMMA PrimeIs ==
  ASSUME NEW p \in Primes
  PROVE  p \in Fitting /\ p > 0 /\ String(p) = Field(p) /\ String(p)[1] # 0
<1>1. W \in Nat \ {0} /\ W - 1 \in Nat /\ W = (W - 1) + 1 /\ B \in Nat \ {0}
  BY KeyExchangeAssumption
<1> DEFINE q == Power(W - 1)
<1>2. q \in Nat \ {0} /\ Power(W) = B * q
  BY <1>1, Powers
<1>3. p \in q .. Power(W) - 1
  BY KeyExchangeAssumption
<1> HIDE DEF q
<1>4. p \in Nat /\ p > 0 /\ p < Power(W) /\ q <= p
  BY <1>1, <1>2, <1>3
<1>5. Places(p) = W
  <2>1. Places(p) \in 1 .. W /\ p < Power(Places(p))
    BY <1>1, <1>4, PaddedString, PlacesOf
  <2> SUFFICES ASSUME Places(p) <= W - 1 PROVE FALSE
    BY <1>1, <2>1
  <2>2. Power(Places(p)) <= q /\ Power(Places(p)) \in Nat
    BY <1>1, <2>1, PowerGrows, Powers DEF q
  <2> QED
    BY <1>2, <1>4, <2>1, <2>2
<1>6. String(p) = Digits(p, W) /\ Field(p) = Digits(p, W)
  BY <1>1, <1>4, <1>5, PaddedString DEF String, Field
<1>7. Digits(p, W)[1] = (p \div q) % B
  BY <1>1 DEF Digits, q
<1>8. (p \div q) % B # 0
  <2> DEFINE d == p \div q
             r == p % q
  <2>1. d \in Nat /\ r \in 0 .. q - 1 /\ p = q * d + r
    BY <1>2, <1>4, Euclid
  <2> HIDE DEF d, r
  <2>2. d # 0
    BY <1>2, <1>4, <2>1
  <2>3. d < B
    <3> SUFFICES ASSUME d >= B PROVE FALSE
      BY <1>1, <2>1
    <3>1. q * d >= q * B /\ q * B = B * q
      BY <1>1, <1>2, <2>1
    <3> QED
      BY <1>1, <1>2, <1>4, <2>1, <3>1
  <2>4. d % B = d
    BY <1>1, <2>1, <2>3
  <2> QED
    BY <2>2, <2>4 DEF d
<1> QED
  BY <1>4, <1>6, <1>7, <1>8 DEF Fitting

\* Two strings glued together come apart again where the first one ends.
LEMMA SplitFields ==
  ASSUME NEW s \in Seq(Nat), NEW t \in Seq(Nat), Len(s) = W, Len(t) = W
  PROVE  First(s \o t, W) = s /\ Rest(s \o t, W) = t /\ ~Throws(s \o t, W)
<1>1. W \in Nat \ {0}
  BY KeyExchangeAssumption
<1>2. Len(s \o t) = W + W /\ s \o t \in Seq(Nat)
  OBVIOUS
<1>3. First(s \o t, W) = SubSeq(s \o t, 1, W) /\ Rest(s \o t, W) = SubSeq(s \o t, W + 1, W + W)
  BY <1>1, <1>2 DEF First, Rest
<1>4. SubSeq(s \o t, 1, W) = s
  BY <1>1, <1>2
<1>5. SubSeq(s \o t, W + 1, W + W) = t
  BY <1>1, <1>2
<1> QED
  BY <1>1, <1>2, <1>3, <1>4, <1>5 DEF Throws
-----------------------------------------------------------------------------
(***************************************************************************)
(* One Diffie-Hellman exchange, of prime p with generator g, in which the  *)
(* two sides draw x and y.                                                 *)
(***************************************************************************)
Secret(p, g, x, y) == Field(PowMod(PowMod(g, x, p), y, p))

\* A power modulo a prime fits a field.
LEMMA PowFits ==
  ASSUME NEW p \in Primes, NEW u \in Nat, NEW x \in Primes
  PROVE  PowMod(u, x, p) \in Fitting
<1>1. p \in Nat \ {0} /\ p < Power(W) /\ x \in Nat
  BY PrimeIs DEF Fitting
<1>2. PowMod(u, x, p) \in 0 .. p - 1
  BY <1>1, PowModStep
<1>3. Power(W) \in Nat
  BY Powers, KeyExchangeAssumption
<1> QED
  BY <1>1, <1>2, <1>3 DEF Fitting

\* What the bank makes of the prime and the generator it has read is what the
\* ATM has made of them (KeyGeneration.cpp:120-143).
LEMMA BothCreate ==
  ASSUME NEW p \in Primes, NEW g \in Primes, NEW y \in Primes
  PROVE  /\ CreateKeyhalf_server(String(p), String(g), y) = CreateKeyhalf_client(p, g, y)
         /\ ~ParseThrows(String(p)) /\ ~ParseThrows(String(g)) /\ Number(String(p)) # 0
<1>1. /\ p \in Fitting /\ p > 0 /\ String(p) = Field(p) /\ String(p)[1] # 0
      /\ g \in Fitting /\ String(g) = Field(g) /\ String(g)[1] # 0
  BY PrimeIs
<1>2. /\ Number(String(p)) = p /\ Len(String(p)) = W /\ String(p) \in Seq(Nat)
      /\ Number(String(g)) = g /\ Len(String(g)) = W /\ String(g) \in Seq(Nat)
  BY <1>1, FieldIs
<1>3. Parse(String(p)) = p /\ Parse(String(g)) = g
  BY <1>1, <1>2 DEF Parse, Number
<1>4. String(p) # <<>> /\ String(g) # <<>>
  BY <1>2, KeyExchangeAssumption, EmptySeq
<1> QED
  BY <1>1, <1>2, <1>3, <1>4 DEF CreateKeyhalf_server, CreateKeyhalf_client, ParseThrows

\* What either side computes from its own number and the other's half.
LEMMA SharedKeyIs ==
  ASSUME NEW p \in Primes, NEW g \in Primes, NEW x \in Primes, NEW y \in Primes
  PROVE  GetSharedKey(CreateKeyhalf_client(p, g, y), Keyhalf(p, g, x)) = Secret(p, g, x, y)
<1> DEFINE keys == CreateKeyhalf_client(p, g, y)
<1>1. keys.p = String(p) /\ keys.priv = String(y)
  BY DEF CreateKeyhalf_client
<1>2. Number(String(p)) = p /\ Number(String(y)) = y /\ g \in Nat
  BY PrimeIs, FieldIs DEF Fitting
<1>3. Number(Keyhalf(p, g, x)) = PowMod(g, x, p)
  <2>1. Keyhalf(p, g, x) = Field(PowMod(g, x, p))
    BY DEF Keyhalf, Field
  <2> QED
    BY <1>2, <2>1, PowFits, FieldIs
<1> HIDE DEF keys
<1>4. GetSharedKey(keys, Keyhalf(p, g, x)) = Padded(String(PowMod(PowMod(g, x, p), y, p)), W)
  BY <1>1, <1>2, <1>3 DEF GetSharedKey
<1> QED
  BY <1>4 DEF Secret, Field, keys

\* Who computes it makes no difference to the secret.
LEMMA SameSecret ==
  ASSUME NEW p \in Primes, NEW g \in Primes, NEW x \in Primes, NEW y \in Primes
  PROVE  Secret(p, g, x, y) = Secret(p, g, y, x)
<1>1. p \in Nat \ {0} /\ g \in Nat /\ x \in Nat /\ y \in Nat
  BY PrimeIs DEF Fitting
<1> QED
  BY <1>1, SecretsMeet DEF Secret

\* A half, a prime and a generator fill their fields.
LEMMA FieldsAre ==
  ASSUME NEW p \in Primes, NEW g \in Primes, NEW x \in Primes
  PROVE  /\ Keyhalf(p, g, x) \in Seq(Nat) /\ Len(Keyhalf(p, g, x)) = W
         /\ String(p) \in Seq(Nat) /\ Len(String(p)) = W
         /\ String(g) \in Seq(Nat) /\ Len(String(g)) = W
<1>1. g \in Nat /\ Keyhalf(p, g, x) = Field(PowMod(g, x, p))
  BY PrimeIs DEF Keyhalf, Field, Fitting
<1> QED
  BY <1>1, PowFits, PrimeIs, FieldIs
-----------------------------------------------------------------------------
(***************************************************************************)
(* RSA carries strings: the numbers come back, and with them the strings   *)
(* unless a leading zero is lost.                                          *)
(***************************************************************************)
\* Padding or not, the number that is read is the number that was written.
LEMMA PaddedNumber ==
  ASSUME NEW n \in Nat, NEW w \in Nat \ {0}
  PROVE  Number(Padded(String(n), w)) = n
<1> DEFINE k == Places(n)
           s == Digits(n, k)
<1>1. k \in 1 .. n + 1 /\ n < Power(k)
  BY PlacesOf
<1>2. String(n) = s /\ Len(s) = k
  BY <1>1 DEF String, Digits
<1>3. Number(s) = n
  BY <1>1, DigitsValue
<1> HIDE DEF k, s
<1>4. CASE k >= w
  BY <1>2, <1>3, <1>4 DEF Padded
<1>5. CASE k < w
  <2>1. n < Power(w)
    <3>1. Power(k) <= Power(w) /\ Power(k) \in Nat /\ Power(w) \in Nat
      BY <1>1, <1>5, PowerGrows, Powers
    <3> QED
      BY <1>1, <3>1
  <2>2. Padded(String(n), w) = Digits(n, w) /\ Number(Digits(n, w)) = n
    BY <2>1, PaddedString, DigitsValue
  <2> QED
    BY <2>2
<1> QED
  BY <1>1, <1>4, <1>5

\* Every digit is less than the base.
LEMMA DigitsBelow ==
  ASSUME NEW n \in Nat, NEW k \in Nat
  PROVE  Digits(n, k) \in [1 .. k -> 0 .. B - 1]
<1>0. B \in Nat \ {0}
  BY KeyExchangeAssumption
<1>1. ASSUME NEW i \in 1 .. k PROVE (n \div Power(k - i)) % B \in 0 .. B - 1
  <2>1. k - i \in Nat
    OBVIOUS
  <2>2. Power(k - i) \in Nat \ {0}
    BY <2>1, Powers
  <2> DEFINE a == Power(k - i)
             q == n \div a
  <2>3. q \in Nat
    BY <2>2, Euclid
  <2> HIDE DEF a, q
  <2>4. q % B \in 0 .. B - 1
    BY <1>0, <2>3, Euclid
  <2> QED
    BY <2>4 DEF a, q
<1> QED
  BY <1>1 DEF Digits

\* A string of digits that does not begin with a zero is the one that its number
\* is written as.
LEMMA StringNumber ==
  ASSUME NEW n \in Nat \ {0}, NEW s \in [1 .. n -> 0 .. B - 1], s[1] # 0
  PROVE  Number(s) \in Nat /\ String(Number(s)) = s
<1>0. B \in Nat \ {0, 1}
  BY KeyExchangeAssumption
<1> DEFINE F == [i \in Nat |-> [v \in Nat |-> B * v + (IF i \in 1 .. n THEN s[i] ELSE 0)]]
<1>1. F \in [Nat -> [Nat -> Nat]]
  <2>1. ASSUME NEW i \in Nat PROVE (IF i \in 1 .. n THEN s[i] ELSE 0) \in Nat
    <3>1. CASE i \in 1 .. n
      BY <1>0, <3>1
    <3>2. CASE i \notin 1 .. n
      BY <3>2
    <3> QED
      BY <3>1, <3>2
  <2>2. ASSUME NEW i \in Nat, NEW v \in Nat
        PROVE  B * v + (IF i \in 1 .. n THEN s[i] ELSE 0) \in Nat
    <3> DEFINE d == IF i \in 1 .. n THEN s[i] ELSE 0
    <3>1. d \in Nat
      BY <2>1
    <3> HIDE DEF d
    <3>2. B * v + d \in Nat
      BY <1>0, <3>1
    <3> QED
      BY <3>2 DEF d
  <2> QED
    BY <2>2
<1> HIDE DEF F
<1>2. PICK f \in [0 .. n -> Nat] : Iterates(f, 0, F, n)
  BY <1>1, Iteration
<1>3. f[0] = 0 /\ \A i \in 1 .. n : f[i] = B * f[i - 1] + s[i] /\ s[i] \in 0 .. B - 1
  <2>1. ASSUME NEW i \in 1 .. n PROVE i \in Nat /\ f[i - 1] \in Nat
    BY <1>2
  <2> QED
    BY <1>2, <2>1 DEF Iterates, F
<1>4. Number(s) = f[n]
  <2>1. s \in [1 .. n -> Nat] /\ n \in Nat
    BY <1>0
  <2> QED
    BY <1>2, <1>3, <2>1, NumberIs
<1> DEFINE x == f[n]
<1>5. x \in Nat
  BY <1>2
<1> HIDE DEF x
<1>6. ASSUME NEW j \in 0 .. n PROVE x \div Power(j) = f[n - j]
  <2> DEFINE S == {k \in Nat : k <= n => x \div Power(k) = f[n - k]}
  <2>1. 0 \in S
    <3>1. Power(0) = 1 /\ x \div 1 = x /\ n - 0 = n
      BY <1>5, Powers
    <3> QED
      BY <3>1 DEF x
  <2>2. ASSUME NEW k \in Nat, k \in S PROVE k + 1 \in S
    <3> SUFFICES ASSUME k + 1 <= n PROVE x \div Power(k + 1) = f[n - (k + 1)]
      OBVIOUS
    <3> DEFINE a == Power(k)
               y == f[n - (k + 1)]
               d == s[n - k]
    <3>1. a \in Nat \ {0} /\ Power(k + 1) = B * a
      BY Powers
    <3>2. n - k \in 1 .. n /\ (n - k) - 1 = n - (k + 1) /\ n - (k + 1) \in 0 .. n
      OBVIOUS
    <3>3. f[n - k] = B * y + d /\ d \in 0 .. B - 1 /\ y \in Nat
      BY <1>2, <1>3, <3>2
    <3>4. x \div a = f[n - k]
      BY <2>2
    <3> HIDE DEF a, y, d
    <3>5. (x \div a) \div B = x \div (B * a)
      BY <1>0, <1>5, <3>1, QuotientTwice
    <3>6. (B * y + d) \div B = y
      <4>1. B * y + d \in Int /\ B \in Nat \ {0} /\ y \in Int
        BY <1>0, <3>3
      <4> QED
        BY <3>3, <4>1, Quotient
    <3>7. x \div Power(k + 1) = y
      BY <3>1, <3>3, <3>4, <3>5, <3>6
    <3> QED
      BY <3>7 DEF y
  <2>3. Nat \subseteq S
    <3> HIDE DEF S
    <3> QED
      BY <2>1, <2>2, Induct
  <2> QED
    BY <2>3
<1>7. x < Power(n) /\ Power(n - 1) <= x
  <2>1. n - 1 \in Nat /\ n \in 0 .. n /\ n - 1 \in 0 .. n /\ n - n = 0 /\ n - (n - 1) = 1
    OBVIOUS
  <2> DEFINE a == Power(n)
             b == Power(n - 1)
  <2>2. a \in Nat \ {0} /\ b \in Nat \ {0}
    BY <2>1, Powers
  <2>3. x \div a = 0
    BY <1>3, <1>6, <2>1
  <2>4. x \div b = s[1] /\ s[1] \in Nat
    <3>1. f[1] = B * f[0] + s[1] /\ s[1] \in 0 .. B - 1
      BY <1>3
    <3>2. f[1] = s[1]
      BY <1>0, <1>3, <3>1
    <3>3. x \div b = f[1]
      BY <1>6, <2>1
    <3> QED
      BY <3>1, <3>2, <3>3
  <2> HIDE DEF a, b
  <2>5. x < a
    <3>1. x % a \in 0 .. a - 1 /\ x = a * (x \div a) + (x % a)
      BY <1>5, <2>2, Euclid
    <3> QED
      BY <2>2, <2>3, <3>1
  <2>6. b <= x
    <3> DEFINE q == x \div b
               r == x % b
    <3>1. r \in 0 .. b - 1 /\ x = b * q + r
      BY <1>5, <2>2, Euclid
    <3>2. q \in Nat /\ q # 0
      BY <2>4
    <3> HIDE DEF q, r
    <3>3. b * q >= b
      BY <2>2, <3>2
    <3> QED
      BY <2>2, <3>1, <3>2, <3>3
  <2> QED
    BY <2>5, <2>6 DEF a, b
<1>8. Places(x) = n
  <2>1. Places(x) \in 1 .. n /\ x < Power(Places(x))
    BY <1>5, <1>7, PaddedString, PlacesOf
  <2> SUFFICES ASSUME Places(x) <= n - 1 PROVE FALSE
    BY <2>1
  <2>2. Power(Places(x)) <= Power(n - 1) /\ Power(Places(x)) \in Nat /\ Power(n - 1) \in Nat
    <3>1. Places(x) \in Nat /\ n - 1 \in Nat
      BY <2>1
    <3> QED
      BY <3>1, PowerGrows, Powers
  <2> QED
    BY <1>5, <1>7, <2>1, <2>2
<1>9. ASSUME NEW i \in 1 .. n PROVE (x \div Power(n - i)) % B = s[i]
  <2>1. n - i \in 0 .. n /\ n - (n - i) = i /\ i - 1 \in 0 .. n
    OBVIOUS
  <2>2. x \div Power(n - i) = f[i]
    BY <1>6, <2>1
  <2> DEFINE y == f[i - 1]
             d == s[i]
  <2>3. f[i] = B * y + d /\ d \in 0 .. B - 1 /\ y \in Nat
    BY <1>2, <1>3, <2>1
  <2> HIDE DEF y, d
  <2>4. (B * y + d) % B = d
    <3>1. B * y + d \in Int /\ B \in Nat \ {0} /\ y \in Int
      BY <1>0, <2>3
    <3> QED
      BY <2>3, <3>1, Quotient
  <2> QED
    BY <2>2, <2>3, <2>4 DEF d
<1>10. String(x) = s
  <2>1. String(x) = [i \in 1 .. n |-> (x \div Power(n - i)) % B]
    BY <1>8 DEF String, Digits
  <2> QED
    BY <1>9, <2>1
<1> QED
  BY <1>4, <1>5, <1>10 DEF x

\* What a sender encrypts is what the receiver decrypts.
Carries(s, from, to) == RSAgetmessage(RSAgetcryptotext(s, from), to) = s

\* Of two RSA objects, one can encrypt for the other.
Numbers(r) == r.d \in Nat /\ r.N2 \in Nat /\ r.e2 \in Nat /\ r.N \in Nat

LEMMA RsaCarries ==
  ASSUME NEW from, NEW to, Numbers(from), Numbers(to), from.N2 # 0, to.N # 0,
         ~nrsa => Undoes(from, to),
         NEW n \in Nat \ {0}, NEW s \in [1 .. n -> 0 .. B - 1], Fits(s, to.N)
  PROVE  Carries(s, from, to)
<1>1. CASE nrsa
  BY <1>1 DEF Carries, RSAgetmessage, RSAgetcryptotext
<1>2. CASE ~nrsa
  <2> DEFINE x == Number(s)
             c == PowMod(x, from.e2, from.N2)
  <2>1. x \in Nat /\ String(x) = s
    BY StringNumber DEF Fits
  <2>2. x < to.N
    BY DEF Fits
  <2> HIDE DEF x
  <2>3. c \in 0 .. from.N2 - 1
    BY <2>1, PowModStep DEF Numbers
  <2>4. c \in Nat
    BY <2>3 DEF Numbers
  <2>5. PowMod(c, to.d, to.N) = x
    <3>1. x \in 0 .. to.N - 1
      BY <2>1, <2>2 DEF Numbers
    <3> QED
      BY <1>2, <3>1 DEF Undoes
  <2>6. RSAgetcryptotext(s, from) = Padded(String(c), 2 * W)
    BY <1>2 DEF RSAgetcryptotext, x
  <2> HIDE DEF c
  <2>7. Number(RSAgetcryptotext(s, from)) = c
    <3>1. 2 * W \in Nat \ {0}
      BY KeyExchangeAssumption
    <3> QED
      BY <2>4, <2>6, <3>1, PaddedNumber
  <2>8. RSAgetmessage(RSAgetcryptotext(s, from), to) = String(PowMod(c, to.d, to.N))
    BY <1>2, <2>7 DEF RSAgetmessage
  <2> QED
    BY <2>1, <2>5, <2>8 DEF Carries
<1> QED
  BY <1>1, <1>2

\* The strings of an exchange are digits.
LEMMA FieldsBelow ==
  ASSUME NEW p \in Primes, NEW g \in Primes, NEW x \in Primes
  PROVE  /\ Keyhalf(p, g, x) \in [1 .. W -> 0 .. B - 1]
         /\ String(p) \in [1 .. W -> 0 .. B - 1]
<1>1. W \in Nat \ {0}
  BY KeyExchangeAssumption
<1>2. ASSUME NEW m \in Fitting PROVE Field(m) \in [1 .. W -> 0 .. B - 1]
  <2>1. Field(m) = Digits(m, W)
    BY <1>1, PaddedString DEF Fitting, Field
  <2> QED
    BY <1>1, <2>1, DigitsBelow DEF Fitting
<1>3. Keyhalf(p, g, x) = Field(PowMod(g, x, p)) /\ PowMod(g, x, p) \in Fitting
  BY PrimeIs, PowFits DEF Keyhalf, Field, Fitting
<1>4. p \in Fitting /\ String(p) = Field(p)
  BY PrimeIs
<1> QED
  BY <1>2, <1>3, <1>4

\* Two of them glued together too.
LEMMA GluedBelow ==
  ASSUME NEW s \in [1 .. W -> 0 .. B - 1], NEW t \in [1 .. W -> 0 .. B - 1]
  PROVE  2 * W \in Nat \ {0} /\ s \o t \in [1 .. 2 * W -> 0 .. B - 1]
<1> DEFINE D == 0 .. B - 1
           n == 2 * W
<1>1. W \in Nat \ {0} /\ n \in Nat \ {0} /\ W + W = n
  BY KeyExchangeAssumption
<1>2. s \in [1 .. W -> D] /\ t \in [1 .. W -> D]
  OBVIOUS
<1> HIDE DEF D, n
<1>3. s \in Seq(D) /\ t \in Seq(D)
  <2>1. [1 .. W -> D] \in {[1 .. k -> D] : k \in Nat}
    BY <1>1
  <2> QED
    BY <1>2, <2>1, SeqDef
<1>4. Len(s) = W /\ Len(t) = W
  BY <1>1, <1>2
<1>5. s \o t \in Seq(D) /\ Len(s \o t) = n
  BY <1>1, <1>3, <1>4, ConcatProperties
<1>6. s \o t \in [1 .. Len(s \o t) -> D]
  BY <1>5, LenProperties
<1>7. s \o t \in [1 .. n -> D]
  BY <1>5, <1>6
<1> QED
  BY <1>1, <1>7 DEF D, n
-----------------------------------------------------------------------------
(***************************************************************************)
(* The invariant of an exchange: what the ATM has drawn and, if all that   *)
(* it encrypts comes back from RSA, what the bank has made of that.  If    *)
(* the bank's answer comes back too, both sides end with the same keys.    *)
(***************************************************************************)
Side == [p : Primes, g : Primes, x : Primes]

Drawn(h) == CreateKeyhalf_client(h.p, h.g, h.x)

Reads == \A i \in 1 .. 3 : Carries(Offered(client)[i], my_rsa, rsa)
Replied == server.hmac.half \o server.aes.half
Replies == Carries(Replied, rsa, my_rsa)

AnswerOf(h, a, y, z) ==
  /\ server.hmac.half = Keyhalf(h.p, h.g, y) /\ server.aes.half = Keyhalf(a.p, a.g, z)
  /\ skeys = GenKeys(Secret(h.p, h.g, h.x, y), Secret(a.p, a.g, a.x, z))

Before ==
  /\ pc \in {"load", "exited", "hello", "start", "refused", "aborted"}
  /\ client = None
  /\ pc \in {"refused", "aborted"} => ~nrsa

ClientIs(h, a) == client = [hmac |-> Drawn(h), aes |-> Drawn(a)]
OfferIs == offer = [i \in 1 .. 3 |-> RSAgetcryptotext(Offered(client)[i], my_rsa)]

During(h, a) ==
  /\ pc \in {"offered", "answered", "done", "aborted"}
  /\ ClientIs(h, a)
  /\ pc = "offered" => OfferIs
  /\ pc = "answered" => answer = RSAgetcryptotext(Replied, rsa)
  /\ pc # "offered" /\ Reads => \E y, z \in Primes : AnswerOf(h, a, y, z)
  /\ pc = "aborted" => ~(Reads /\ Replies)
  /\ pc = "done" /\ Reads /\ Replies => ckeys = skeys

ExchangeInv == Before \/ \E h, a \in Side : During(h, a)

\* The three strings of the ATM.
LEMMA OfferedAre ==
  ASSUME NEW h \in Side, NEW a \in Side, ClientIs(h, a)
  PROVE  /\ h.p \in Primes /\ h.g \in Primes /\ h.x \in Primes
         /\ a.p \in Primes /\ a.g \in Primes /\ a.x \in Primes
         /\ client.hmac = CreateKeyhalf_client(h.p, h.g, h.x)
         /\ client.aes = CreateKeyhalf_client(a.p, a.g, a.x)
         /\ Offered(client) = <<Keyhalf(h.p, h.g, h.x) \o String(h.p),
                                String(h.g) \o Keyhalf(a.p, a.g, a.x),
                                String(a.p) \o String(a.g)>>
<1>1. /\ h.p \in Primes /\ h.g \in Primes /\ h.x \in Primes
      /\ a.p \in Primes /\ a.g \in Primes /\ a.x \in Primes
  BY DEF Side
<1>2. /\ client.hmac = CreateKeyhalf_client(h.p, h.g, h.x)
      /\ client.aes = CreateKeyhalf_client(a.p, a.g, a.x)
  BY DEF ClientIs, Drawn
<1>3. /\ client.hmac.half = Keyhalf(h.p, h.g, h.x)
      /\ client.hmac.p = String(h.p) /\ client.hmac.g = String(h.g)
      /\ client.aes.half = Keyhalf(a.p, a.g, a.x)
      /\ client.aes.p = String(a.p) /\ client.aes.g = String(a.g)
  BY <1>2 DEF CreateKeyhalf_client
<1>4. Offered(client) = <<Keyhalf(h.p, h.g, h.x) \o String(h.p),
                          String(h.g) \o Keyhalf(a.p, a.g, a.x),
                          String(a.p) \o String(a.g)>>
  BY <1>3 DEF Offered
<1> QED
  BY <1>1, <1>2, <1>4

\* If the bank reads what was offered, nothing of it makes the bank throw or
\* divide by zero.
LEMMA OfferIsRead ==
  ASSUME Reads, OfferIs, NEW h \in Side, NEW a \in Side, ClientIs(h, a)
  PROVE  /\ Received.hmac = [half |-> Keyhalf(h.p, h.g, h.x), p |-> String(h.p), g |-> String(h.g)]
         /\ Received.aes = [half |-> Keyhalf(a.p, a.g, a.x), p |-> String(a.p), g |-> String(a.g)]
         /\ ~ServerChokes
<1>1. /\ h.p \in Primes /\ h.g \in Primes /\ h.x \in Primes
      /\ a.p \in Primes /\ a.g \in Primes /\ a.x \in Primes
  BY OfferedAre
<1> DEFINE text == [i \in 1 .. 3 |-> RSAgetmessage(offer[i], rsa)]
<1>3. /\ text[1] = Keyhalf(h.p, h.g, h.x) \o String(h.p)
      /\ text[2] = String(h.g) \o Keyhalf(a.p, a.g, a.x)
      /\ text[3] = String(a.p) \o String(a.g)
  <2>1. \A i \in 1 .. 3 : text[i] = Offered(client)[i]
    BY DEF OfferIs, Reads, Carries
  <2>2. Offered(client) = <<Keyhalf(h.p, h.g, h.x) \o String(h.p),
                            String(h.g) \o Keyhalf(a.p, a.g, a.x),
                            String(a.p) \o String(a.g)>>
    BY OfferedAre
  <2> HIDE DEF text
  <2> QED
    BY <2>1, <2>2
<1>4. /\ Received.hmac = [half |-> First(text[1], W), p |-> Rest(text[1], W), g |-> First(text[2], W)]
      /\ Received.aes = [half |-> Rest(text[2], W), p |-> First(text[3], W), g |-> Rest(text[3], W)]
  BY DEF Received
<1>5. ServerChokes <=> \/ \E i \in 1 .. 3 : Throws(text[i], W)
                       \/ 0 \in {Number(Received.hmac.p), Number(Received.aes.p)}
                       \/ \E keys \in {Received.hmac, Received.aes} : ParseThrows(keys.p) \/ ParseThrows(keys.g)
  BY DEF ServerChokes
<1> HIDE DEF text
<1>6. /\ First(text[1], W) = Keyhalf(h.p, h.g, h.x) /\ Rest(text[1], W) = String(h.p)
      /\ First(text[2], W) = String(h.g) /\ Rest(text[2], W) = Keyhalf(a.p, a.g, a.x)
      /\ First(text[3], W) = String(a.p) /\ Rest(text[3], W) = String(a.g)
      /\ \A i \in 1 .. 3 : ~Throws(text[i], W)
  <2>1. /\ First(text[1], W) = Keyhalf(h.p, h.g, h.x) /\ Rest(text[1], W) = String(h.p)
        /\ ~Throws(text[1], W)
    <3>1. /\ Keyhalf(h.p, h.g, h.x) \in Seq(Nat) /\ Len(Keyhalf(h.p, h.g, h.x)) = W
          /\ String(h.p) \in Seq(Nat) /\ Len(String(h.p)) = W
      BY <1>1, FieldsAre
    <3> QED
      BY <1>3, <3>1, SplitFields
  <2>2. /\ First(text[2], W) = String(h.g) /\ Rest(text[2], W) = Keyhalf(a.p, a.g, a.x)
        /\ ~Throws(text[2], W)
    <3>1. /\ Keyhalf(a.p, a.g, a.x) \in Seq(Nat) /\ Len(Keyhalf(a.p, a.g, a.x)) = W
          /\ String(h.g) \in Seq(Nat) /\ Len(String(h.g)) = W
      BY <1>1, FieldsAre
    <3> QED
      BY <1>3, <3>1, SplitFields
  <2>3. /\ First(text[3], W) = String(a.p) /\ Rest(text[3], W) = String(a.g)
        /\ ~Throws(text[3], W)
    <3>1. /\ String(a.p) \in Seq(Nat) /\ Len(String(a.p)) = W
          /\ String(a.g) \in Seq(Nat) /\ Len(String(a.g)) = W
      BY <1>1, FieldsAre
    <3> QED
      BY <1>3, <3>1, SplitFields
  <2>4. \A i \in 1 .. 3 : i = 1 \/ i = 2 \/ i = 3
    OBVIOUS
  <2> QED
    BY <2>1, <2>2, <2>3, <2>4
<1>7. /\ Received.hmac = [half |-> Keyhalf(h.p, h.g, h.x), p |-> String(h.p), g |-> String(h.g)]
      /\ Received.aes = [half |-> Keyhalf(a.p, a.g, a.x), p |-> String(a.p), g |-> String(a.g)]
  BY <1>4, <1>6
<1>8. /\ ~ParseThrows(String(h.p)) /\ ~ParseThrows(String(h.g)) /\ Number(String(h.p)) # 0
      /\ ~ParseThrows(String(a.p)) /\ ~ParseThrows(String(a.g)) /\ Number(String(a.p)) # 0
  BY <1>1, BothCreate
<1>9. /\ Received.hmac.p = String(h.p) /\ Received.hmac.g = String(h.g)
      /\ Received.aes.p = String(a.p) /\ Received.aes.g = String(a.g)
  BY <1>7
<1>10. ~ServerChokes
  BY <1>5, <1>6, <1>8, <1>9
<1> QED
  BY <1>7, <1>10

\* What comes back, does so as long as the strings and the keys are the same.
LEMMA SameCarries ==
  ASSUME UNCHANGED <<nrsa, client, my_rsa, rsa>>
  PROVE  /\ Reads' <=> Reads
         /\ server' = server => (Replies' <=> Replies)
<1>1. Offered(client)' = Offered(client)
  BY DEF Offered
<1>2. Reads' <=> Reads
  BY <1>1 DEF Reads, Carries, RSAgetmessage, RSAgetcryptotext
<1>3. ASSUME server' = server PROVE Replies' <=> Replies
  BY <1>3 DEF Replies, Replied, Carries, RSAgetmessage, RSAgetcryptotext
<1> QED
  BY <1>2, <1>3

\* Up to the HELLOs nothing has been drawn.
LEMMA BeforeKeeps ==
  ASSUME ExchangeInv,
         LoadKeysStep \/ NoKeyFile \/ MakeKeysStep \/ HelloAborts \/ Hello
  PROVE  Before'
<1>1. Before
  BY DEF ExchangeInv, During, LoadKeysStep, NoKeyFile, MakeKeysStep, HelloAborts, Hello
<1>2. CASE LoadKeysStep
  BY <1>1, <1>2 DEF LoadKeysStep, Before, exchange
<1>3. CASE NoKeyFile
  BY <1>1, <1>3 DEF NoKeyFile, Before, exchange
<1>4. CASE MakeKeysStep
  BY <1>1, <1>4 DEF MakeKeysStep, Before, exchange
<1>5. CASE HelloAborts
  BY <1>1, <1>5 DEF HelloAborts, NoModulus, Before, exchange
<1>6. CASE Hello
  BY <1>1, <1>6 DEF Hello, Before, exchange, HelloArrives, RSAgetmessage, RSAgetcryptotext
<1> QED
  BY <1>2, <1>3, <1>4, <1>5, <1>6

\* The ATM draws its numbers.
LEMMA OfferKeeps == ASSUME ClientOffers PROVE ExchangeInv'
<1>1. PICK p1, g1, x1, p2, g2, x2 \in Primes :
        client' = [hmac |-> CreateKeyhalf_client(p1, g1, x1),
                   aes |-> CreateKeyhalf_client(p2, g2, x2)]
  BY DEF ClientOffers
<1> DEFINE h == [p |-> p1, g |-> g1, x |-> x1]
           a == [p |-> p2, g |-> g2, x |-> x2]
<1>2. h \in Side /\ a \in Side
  BY DEF Side
<1>3. client' = [hmac |-> Drawn(h), aes |-> Drawn(a)]
  BY <1>1 DEF Drawn
<1>4. /\ offer' = [i \in 1 .. 3 |-> RSAgetcryptotext(Offered(client')[i], my_rsa)]
      /\ UNCHANGED <<nrsa, my_rsa>> /\ pc' = "offered"
  BY DEF ClientOffers, keyVars
<1> HIDE DEF h, a
<1>5. OfferIs'
  BY <1>4 DEF OfferIs, Offered, RSAgetcryptotext
<1>6. During(h, a)'
  BY <1>3, <1>4, <1>5 DEF During, ClientIs
<1> QED
  BY <1>2, <1>6 DEF ExchangeInv

\* In the rest of the exchange the two sides' drawings and keys stay.
LEMMA DuringIs ==
  ASSUME ExchangeInv, ServerAborts \/ ServerAnswers \/ ClientAborts \/ ClientFinishes
  PROVE  /\ \E h, a \in Side : During(h, a)
         /\ UNCHANGED <<nrsa, client, my_rsa, rsa>>
         /\ \A h, a : ClientIs(h, a) => ClientIs(h, a)'
<1>1. /\ \E h, a \in Side : During(h, a)
      /\ UNCHANGED <<nrsa, client, my_rsa, rsa>>
  BY DEF ExchangeInv, Before, ServerAborts, ServerAnswers, ClientAborts, ClientFinishes, exchange, keyVars
<1> QED
  BY <1>1 DEF ClientIs

\* The bank computes the secrets of the halves that it has read.
LEMMA AnswerKeeps == ASSUME ExchangeInv, ServerAnswers PROVE ExchangeInv'
<1>1. PICK h, a \in Side : During(h, a)
  BY DuringIs
<1>2. /\ ClientIs(h, a) /\ OfferIs /\ ClientIs(h, a)' /\ pc' = "answered"
      /\ UNCHANGED <<nrsa, client, my_rsa, rsa>>
  BY <1>1, DuringIs DEF During, ServerAnswers
<1>3. answer' = RSAgetcryptotext(Replied', rsa)
  BY DEF ServerAnswers, Replied
<1>4. ASSUME Reads PROVE \E y, z \in Primes : AnswerOf(h, a, y, z)'
  <2>1. /\ h.p \in Primes /\ h.g \in Primes /\ h.x \in Primes
        /\ a.p \in Primes /\ a.g \in Primes /\ a.x \in Primes
    BY <1>2, OfferedAre
  <2>2. /\ Received.hmac = [half |-> Keyhalf(h.p, h.g, h.x), p |-> String(h.p), g |-> String(h.g)]
        /\ Received.aes = [half |-> Keyhalf(a.p, a.g, a.x), p |-> String(a.p), g |-> String(a.g)]
    BY <1>2, <1>4, OfferIsRead
  <2>3. /\ Received.hmac.half = Keyhalf(h.p, h.g, h.x) /\ Received.aes.half = Keyhalf(a.p, a.g, a.x)
        /\ Received.hmac.p = String(h.p) /\ Received.hmac.g = String(h.g)
        /\ Received.aes.p = String(a.p) /\ Received.aes.g = String(a.g)
    BY <2>2
  <2>4. PICK y, z \in Primes :
          server' = [read |-> Received,
                     hmac |-> CreateKeyhalf_server(Received.hmac.p, Received.hmac.g, y),
                     aes |-> CreateKeyhalf_server(Received.aes.p, Received.aes.g, z)]
    BY DEF ServerAnswers
  <2>5. /\ server'.hmac = CreateKeyhalf_client(h.p, h.g, y)
        /\ server'.aes = CreateKeyhalf_client(a.p, a.g, z)
    BY <2>1, <2>3, <2>4, BothCreate
  <2>6. /\ server'.hmac.half = Keyhalf(h.p, h.g, y)
        /\ server'.aes.half = Keyhalf(a.p, a.g, z)
    BY <2>5 DEF CreateKeyhalf_client
  <2>7. skeys' = GenKeys(GetSharedKey(server'.hmac, Received.hmac.half),
                         GetSharedKey(server'.aes, Received.aes.half))
    BY DEF ServerAnswers
  <2>8. /\ GetSharedKey(server'.hmac, Received.hmac.half) = Secret(h.p, h.g, h.x, y)
        /\ GetSharedKey(server'.aes, Received.aes.half) = Secret(a.p, a.g, a.x, z)
    BY <2>1, <2>3, <2>5, SharedKeyIs
  <2>9. AnswerOf(h, a, y, z)'
    BY <2>6, <2>7, <2>8 DEF AnswerOf
  <2> QED
    BY <2>9
<1>5. Reads' <=> Reads
  BY <1>2, SameCarries
<1>6. answer' = RSAgetcryptotext(Replied, rsa)'
  BY <1>2, <1>3 DEF RSAgetcryptotext
<1>7. During(h, a)'
  BY <1>2, <1>4, <1>5, <1>6 DEF During
<1> QED
  BY <1>7 DEF ExchangeInv

\* An aborted exchange has lost a string on the way.
LEMMA AbortKeeps == ASSUME ExchangeInv, ServerAborts \/ ClientAborts PROVE ExchangeInv'
<1>1. PICK h, a \in Side : During(h, a)
  BY DuringIs
<1>2. /\ ClientIs(h, a) /\ ClientIs(h, a)' /\ pc' = "aborted"
      /\ UNCHANGED <<nrsa, client, server, skeys, my_rsa, rsa>>
  BY <1>1, DuringIs DEF During, ServerAborts, ClientAborts, exchange
<1>3. (Reads' <=> Reads) /\ (Replies' <=> Replies)
  BY <1>2, SameCarries
<1>4. CASE ServerAborts
  <2>1. ~Reads
    BY <1>1, <1>2, <1>4, OfferIsRead DEF During, ServerAborts
  <2>2. During(h, a)'
    BY <1>2, <1>3, <2>1 DEF During
  <2> QED
    BY <2>2 DEF ExchangeInv
<1>5. CASE ClientAborts
  <2>1. /\ answer = RSAgetcryptotext(Replied, rsa)
        /\ Throws(RSAgetmessage(answer, my_rsa), W)
        /\ Reads => \E y, z \in Primes : AnswerOf(h, a, y, z)
    BY <1>1, <1>5 DEF During, ClientAborts
  <2>2. ASSUME Reads, Replies PROVE FALSE
    <3>1. PICK y, z \in Primes : AnswerOf(h, a, y, z)
      BY <2>1, <2>2
    <3>2. RSAgetmessage(answer, my_rsa) = Keyhalf(h.p, h.g, y) \o Keyhalf(a.p, a.g, z)
      BY <2>1, <2>2, <3>1 DEF Replies, Carries, Replied, AnswerOf
    <3>3. /\ Keyhalf(h.p, h.g, y) \in Seq(Nat) /\ Len(Keyhalf(h.p, h.g, y)) = W
          /\ Keyhalf(a.p, a.g, z) \in Seq(Nat) /\ Len(Keyhalf(a.p, a.g, z)) = W
      BY <1>2, OfferedAre, FieldsAre
    <3> QED
      BY <2>1, <3>2, <3>3, SplitFields
  <2>3. \A y, z : AnswerOf(h, a, y, z) => AnswerOf(h, a, y, z)'
    BY <1>2 DEF AnswerOf
  <2>4. During(h, a)'
    BY <1>2, <1>3, <2>1, <2>2, <2>3 DEF During
  <2> QED
    BY <2>4 DEF ExchangeInv
<1> QED
  BY <1>4, <1>5

\* The ATM computes the same two secrets.
LEMMA FinishKeeps == ASSUME ExchangeInv, ClientFinishes PROVE ExchangeInv'
<1>1. PICK h, a \in Side : During(h, a)
  BY DuringIs
<1>2. /\ ClientIs(h, a) /\ ClientIs(h, a)' /\ pc' = "done"
      /\ UNCHANGED <<nrsa, client, server, skeys, my_rsa, rsa>>
  BY <1>1, DuringIs DEF During, ClientFinishes
<1>3. (Reads' <=> Reads) /\ (Replies' <=> Replies)
  BY <1>2, SameCarries
<1>4. /\ answer = RSAgetcryptotext(Replied, rsa)
      /\ Reads => \E y, z \in Primes : AnswerOf(h, a, y, z)
  BY <1>1 DEF During, ClientFinishes
<1>5. ASSUME Reads, Replies PROVE ckeys' = skeys
  <2>1. PICK y, z \in Primes : AnswerOf(h, a, y, z)
    BY <1>4, <1>5
  <2>2. /\ h.p \in Primes /\ h.g \in Primes /\ h.x \in Primes
        /\ a.p \in Primes /\ a.g \in Primes /\ a.x \in Primes
        /\ client.hmac = CreateKeyhalf_client(h.p, h.g, h.x)
        /\ client.aes = CreateKeyhalf_client(a.p, a.g, a.x)
    BY <1>2, OfferedAre
  <2> DEFINE text == RSAgetmessage(answer, my_rsa)
  <2>3. text = Keyhalf(h.p, h.g, y) \o Keyhalf(a.p, a.g, z)
    BY <1>4, <1>5, <2>1 DEF Replies, Carries, Replied, AnswerOf
  <2>4. /\ Keyhalf(h.p, h.g, y) \in Seq(Nat) /\ Len(Keyhalf(h.p, h.g, y)) = W
        /\ Keyhalf(a.p, a.g, z) \in Seq(Nat) /\ Len(Keyhalf(a.p, a.g, z)) = W
    BY <2>2, FieldsAre
  <2>5. ckeys' = GenKeys(GetSharedKey(client.hmac, First(text, W)),
                         GetSharedKey(client.aes, Rest(text, W)))
    BY DEF ClientFinishes
  <2> HIDE DEF text
  <2>6. First(text, W) = Keyhalf(h.p, h.g, y) /\ Rest(text, W) = Keyhalf(a.p, a.g, z)
    BY <2>3, <2>4, SplitFields
  <2>7. /\ GetSharedKey(client.hmac, First(text, W)) = Secret(h.p, h.g, y, h.x)
        /\ GetSharedKey(client.aes, Rest(text, W)) = Secret(a.p, a.g, z, a.x)
    BY <2>2, <2>6, SharedKeyIs
  <2>8. /\ Secret(h.p, h.g, y, h.x) = Secret(h.p, h.g, h.x, y)
        /\ Secret(a.p, a.g, z, a.x) = Secret(a.p, a.g, a.x, z)
    BY <2>2, SameSecret
  <2> QED
    BY <2>1, <2>5, <2>7, <2>8 DEF AnswerOf
<1>6. \A y, z : AnswerOf(h, a, y, z) => AnswerOf(h, a, y, z)'
  BY <1>2 DEF AnswerOf
<1>7. During(h, a)'
  BY <1>2, <1>3, <1>4, <1>5, <1>6 DEF During
<1> QED
  BY <1>7 DEF ExchangeInv

\* A step that changes nothing.
LEMMA StutterKeeps == ASSUME ExchangeInv, UNCHANGED vars PROVE ExchangeInv'
<1>1. UNCHANGED <<pc, nrsa, client, offer, server, answer, ckeys, skeys, my_rsa, rsa>>
  BY DEF vars, exchange, keyVars
<1>2. (Reads' <=> Reads) /\ (Replies' <=> Replies)
  BY <1>1, SameCarries
<1>3. CASE Before
  BY <1>1, <1>3 DEF Before, ExchangeInv
<1>4. ASSUME NEW h \in Side, NEW a \in Side, During(h, a) PROVE ExchangeInv'
  <2>1. (OfferIs' <=> OfferIs) /\ RSAgetcryptotext(Replied, rsa)' = RSAgetcryptotext(Replied, rsa)
    BY <1>1 DEF OfferIs, Replied, Offered, RSAgetcryptotext
  <2>2. \A y, z : AnswerOf(h, a, y, z) => AnswerOf(h, a, y, z)'
    BY <1>1 DEF AnswerOf
  <2>3. During(h, a)'
    BY <1>1, <1>2, <1>4, <2>1, <2>2 DEF During, ClientIs
  <2> QED
    BY <2>3 DEF ExchangeInv
<1> QED
  BY <1>3, <1>4 DEF ExchangeInv

\* The invariant holds of every exchange, whatever keys the two sides have.
LEMMA ExchangeInvariant == Spec => []ExchangeInv
<1>1. Init => ExchangeInv
  BY DEF Init, ExchangeInv, Before
<1>2. ExchangeInv /\ [Next]_vars => ExchangeInv'
  <2> SUFFICES ASSUME ExchangeInv, [Next]_vars PROVE ExchangeInv'
    OBVIOUS
  <2>1. CASE LoadKeysStep \/ NoKeyFile \/ MakeKeysStep \/ HelloAborts \/ Hello
    BY <2>1, BeforeKeeps DEF ExchangeInv
  <2>2. CASE ClientOffers
    BY <2>2, OfferKeeps
  <2>3. CASE ServerAborts \/ ClientAborts
    BY <2>3, AbortKeeps
  <2>4. CASE ServerAnswers
    BY <2>4, AnswerKeeps
  <2>5. CASE ClientFinishes
    BY <2>5, FinishKeeps
  <2>6. CASE Terminating \/ UNCHANGED vars
    BY <2>6, StutterKeeps DEF Terminating
  <2> QED
    BY <2>1, <2>2, <2>3, <2>4, <2>5, <2>6 DEF Next
<1> QED
  BY <1>1, <1>2, PTL DEF Spec
-----------------------------------------------------------------------------
(***************************************************************************)
(* Without RSA no session is refused or aborted in the key exchange, and   *)
(* the two sides end with the same keys or both without: for every base,   *)
(* every width of the primes and whatever primes are drawn                 *)
(* (KeyGeneration.cpp, ssh.hpp:44-108).                                    *)
(***************************************************************************)
THEOREM PlainKeysAgree == Spec => []PlainExchangeAgrees
<1>1. ExchangeInv => PlainExchangeAgrees
  <2> SUFFICES ASSUME ExchangeInv, nrsa
               PROVE  pc \notin {"aborted", "refused"} /\ (pc = "done" => ckeys = skeys)
    BY DEF PlainExchangeAgrees
  <2>1. Reads /\ Replies
    BY DEF Reads, Replies, Carries, RSAgetmessage, RSAgetcryptotext
  <2> QED
    BY <2>1 DEF ExchangeInv, Before, During
<1> QED
  BY <1>1, ExchangeInvariant, PTL
-----------------------------------------------------------------------------
(***************************************************************************)
(* Divisors and primes.                                                    *)
(***************************************************************************)
\* A set of naturals has a least element.
LEMMA LeastOf ==
  ASSUME NEW S, S \subseteq Nat, S # {}
  PROVE  \E n \in S : \A m \in S : n <= m
<1> SUFFICES ASSUME \A n \in S : \E m \in S : m < n
             PROVE  FALSE
  OBVIOUS
<1> DEFINE T == {n \in Nat : \A m \in S : n <= m}
<1>1. 0 \in T
  OBVIOUS
<1>2. ASSUME NEW n \in Nat, n \in T PROVE n + 1 \in T
  BY <1>2
<1>3. Nat \subseteq T
  <2> HIDE DEF T
  <2> QED
    BY <1>1, <1>2, Induct
<1>4. PICK n \in S : TRUE
  OBVIOUS
<1> QED
  BY <1>3, <1>4

\* To divide is to have a cofactor.
LEMMA Cofactor ==
  ASSUME NEW d \in Nat \ {0}, NEW n \in Int
  PROVE  Divides(d, n) <=> \E k \in Int : n = d * k
<1>1. ASSUME Divides(d, n) PROVE \E k \in Int : n = d * k
  <2>1. n \div d \in Int /\ n = d * (n \div d) + (n % d)
    OBVIOUS
  <2>2. n % d = 0
    BY <1>1 DEF Divides
  <2>3. n = d * (n \div d)
    BY <2>1, <2>2
  <2> QED
    BY <2>1, <2>3
<1>2. ASSUME NEW k \in Int, n = d * k PROVE Divides(d, n)
  <2>1. n = d * k + 0 /\ 0 \in 0 .. d - 1
    BY <1>2
  <2> QED
    BY <2>1, Quotient DEF Divides
<1> QED
  BY <1>1, <1>2

\* Sums, differences and multiples of multiples are multiples.
LEMMA DividesSum ==
  ASSUME NEW d \in Nat \ {0}, NEW m \in Int, NEW n \in Int, Divides(d, m)
  PROVE  /\ Divides(d, n) => Divides(d, m + n) /\ Divides(d, m - n)
         /\ Divides(d, m * n)
<1>1. PICK k \in Int : m = d * k
  BY Cofactor
<1>2. ASSUME Divides(d, n) PROVE Divides(d, m + n) /\ Divides(d, m - n)
  <2>1. PICK l \in Int : n = d * l
    BY <1>2, Cofactor
  <2>2. m + n = d * (k + l) /\ m - n = d * (k - l)
    BY <1>1, <2>1
  <2>3. k + l \in Int /\ k - l \in Int /\ m + n \in Int /\ m - n \in Int
    OBVIOUS
  <2> QED
    BY <2>2, <2>3, Cofactor
<1>3. Divides(d, m * n)
  <2>1. m * n = d * (k * n)
    BY <1>1
  <2>2. k * n \in Int /\ m * n \in Int
    OBVIOUS
  <2> QED
    BY <2>1, <2>2, Cofactor
<1> QED
  BY <1>2, <1>3

\* A multiple that is less than the divisor is 0.
LEMMA NoMultiple ==
  ASSUME NEW d \in Nat \ {0}, NEW n \in Nat, Divides(d, n), n < d
  PROVE  n = 0
BY DEF Divides

\* Equal remainders.
LEMMA SameRest ==
  ASSUME NEW d \in Nat \ {0}, NEW m \in Int, NEW n \in Int
  PROVE  m % d = n % d <=> Divides(d, m - n)
<1>1. m = d * (m \div d) + (m % d) /\ m \div d \in Int /\ m % d \in 0 .. d - 1
  OBVIOUS
<1>2. n = d * (n \div d) + (n % d) /\ n \div d \in Int /\ n % d \in 0 .. d - 1
  OBVIOUS
<1>3. ASSUME m % d = n % d PROVE Divides(d, m - n)
  <2>1. m - n = d * ((m \div d) - (n \div d))
    BY <1>1, <1>2, <1>3
  <2>2. m - n \in Int /\ (m \div d) - (n \div d) \in Int
    BY <1>1, <1>2
  <2> QED
    BY <2>1, <2>2, Cofactor
<1>4. ASSUME Divides(d, m - n) PROVE m % d = n % d
  <2>1. PICK k \in Int : m - n = d * k
    <3>1. m - n \in Int
      OBVIOUS
    <3> QED
      BY <1>4, <3>1, Cofactor
  <2>2. m = d * ((n \div d) + k) + (n % d)
    <3>1. d * ((n \div d) + k) = d * (n \div d) + d * k
      BY <1>2
    <3> QED
      BY <1>2, <2>1, <3>1
  <2>3. (n \div d) + k \in Int
    BY <1>2
  <2> QED
    BY <1>2, <2>2, <2>3, Quotient
<1> QED
  BY <1>3, <1>4

\* In a set of positive numbers that has its differences, one divides all.
LEMMA Measure ==
  ASSUME NEW S, S \subseteq Nat \ {0}, S # {},
         \A m, n \in S : m < n => n - m \in S
  PROVE  \E d \in S : \A n \in S : Divides(d, n)
<1>1. PICK d \in S : \A n \in S : d <= n
  BY LeastOf
<1>2. \A n \in S : Divides(d, n)
  <2> DEFINE T == {n \in S : ~Divides(d, n)}
  <2> SUFFICES ASSUME T # {} PROVE FALSE
    OBVIOUS
  <2>1. PICK n \in T : \A m \in T : n <= m
    <3>1. T \subseteq Nat
      OBVIOUS
    <3> HIDE DEF T
    <3> QED
      BY <3>1, LeastOf
  <2>2. d \in Nat \ {0} /\ n \in Nat /\ d <= n
    BY <1>1
  <2>3. Divides(d, d)
    <3>1. d = d * 1 /\ d \in Int /\ 1 \in Int
      BY <2>2
    <3> QED
      BY <2>2, <3>1, Cofactor
  <2>4. d # n
    BY <2>1, <2>3
  <2>5. n - d \in S /\ n - d < n
    BY <2>2, <2>4
  <2>6. Divides(d, n - d)
    BY <2>1, <2>2, <2>5
  <2>7. n = d + (n - d) /\ n - d \in Int
    BY <2>2
  <2>8. Divides(d, n)
    BY <2>2, <2>3, <2>6, <2>7, DividesSum
  <2> QED
    BY <2>8
<1> QED
  BY <1>1, <1>2

\* Bezout: two numbers without a common divisor measure 1.
LEMMA Bezout ==
  ASSUME NEW a \in Nat \ {0}, NEW b \in Nat \ {0},
         \A d \in Nat \ {0} : Divides(d, a) /\ Divides(d, b) => d = 1
  PROVE  \E x, y \in Int : 1 = a * x + b * y
<1> DEFINE S == {n \in Nat \ {0} : \E x, y \in Int : n = a * x + b * y}
<1>1. a \in S /\ b \in S
  <2>1. a = a * 1 + b * 0 /\ b = a * 0 + b * 1 /\ 0 \in Int /\ 1 \in Int
    OBVIOUS
  <2> QED
    BY <2>1
<1>2. ASSUME NEW m \in S, NEW n \in S, m < n PROVE n - m \in S
  <2>1. PICK x, y \in Int : m = a * x + b * y
    OBVIOUS
  <2>2. PICK u, v \in Int : n = a * u + b * v
    OBVIOUS
  <2>3. n - m = a * (u - x) + b * (v - y)
    <3>1. a * (u - x) = a * u - a * x /\ b * (v - y) = b * v - b * y
      OBVIOUS
    <3>2. a * u \in Int /\ a * x \in Int /\ b * v \in Int /\ b * y \in Int
      OBVIOUS
    <3> QED
      BY <2>1, <2>2, <3>1, <3>2
  <2>4. u - x \in Int /\ v - y \in Int /\ n - m \in Nat \ {0}
    BY <1>2
  <2> QED
    BY <2>3, <2>4
<1>3. PICK d \in S : \A n \in S : Divides(d, n)
  <2>1. S \subseteq Nat \ {0} /\ S # {}
    BY <1>1
  <2> HIDE DEF S
  <2> QED
    BY <1>2, <2>1, Measure
<1>4. d = 1
  BY <1>1, <1>3
<1> QED
  BY <1>4

\* A prime that divides a product divides a factor.
LEMMA PrimeDivides ==
  ASSUME NEW p \in Nat, Prime(p), NEW a \in Int, NEW b \in Int, Divides(p, a * b)
  PROVE  Divides(p, a) \/ Divides(p, b)
<1>0. p > 1 /\ p \in Nat \ {0}
  BY DEF Prime
<1> SUFFICES ASSUME ~Divides(p, a) PROVE Divides(p, b)
  OBVIOUS
<1> DEFINE r == a % p
<1>1. r \in Nat \ {0} /\ r < p /\ a \div p \in Int /\ a = p * (a \div p) + r
  BY <1>0 DEF Divides
<1> HIDE DEF r
<1>2. ASSUME NEW d \in Nat \ {0}, Divides(d, r), Divides(d, p) PROVE d = 1
  <2>1. d <= r
    BY <1>1, <1>2, NoMultiple
  <2>2. d \notin 2 .. p - 1
    BY <1>2 DEF Prime
  <2> QED
    BY <1>0, <1>1, <2>1, <2>2
<1>3. PICK x, y \in Int : 1 = r * x + p * y
  BY <1>0, <1>1, <1>2, Bezout
<1>4. b = (r * b) * x + p * (y * b)
  <2>1. 1 * b = (r * x + p * y) * b
    BY <1>3
  <2>2. (r * x + p * y) * b = (r * x) * b + (p * y) * b
    BY <1>0, <1>1
  <2>3. (r * x) * b = (r * b) * x /\ (p * y) * b = p * (y * b)
    BY <1>0, <1>1
  <2> QED
    BY <2>1, <2>2, <2>3
<1>6. Divides(p, r * b)
  <2>1. r * b = a * b - p * ((a \div p) * b)
    <3>1. a * b = (p * (a \div p) + r) * b
      BY <1>1
    <3>2. (p * (a \div p) + r) * b = (p * (a \div p)) * b + r * b
      BY <1>0, <1>1
    <3>3. (p * (a \div p)) * b = p * ((a \div p) * b)
      BY <1>0, <1>1
    <3>4. p * ((a \div p) * b) \in Int /\ r * b \in Int
      BY <1>0, <1>1
    <3> QED
      BY <3>1, <3>2, <3>3, <3>4
  <2>2. (a \div p) * b \in Int /\ p * ((a \div p) * b) \in Int /\ a * b \in Int
    BY <1>0, <1>1
  <2>3. Divides(p, p * ((a \div p) * b))
    <3> DEFINE k == (a \div p) * b
    <3>1. k \in Int /\ p * k \in Int
      BY <2>2
    <3> HIDE DEF k
    <3>2. Divides(p, p * k)
      BY <1>0, <3>1, Cofactor
    <3> QED
      BY <3>2 DEF k
  <2> QED
    BY <1>0, <2>1, <2>2, <2>3, DividesSum
<1>7. Divides(p, (r * b) * x) /\ Divides(p, p * (y * b))
  <2> DEFINE u == r * b
             v == y * b
  <2>1. u \in Int /\ v \in Int /\ p * v \in Int
    BY <1>0, <1>1
  <2>2. Divides(p, u)
    BY <1>6
  <2> HIDE DEF u, v
  <2>3. Divides(p, u * x)
    BY <1>0, <2>1, <2>2, DividesSum
  <2>4. Divides(p, p * v)
    BY <1>0, <2>1, Cofactor
  <2> QED
    BY <2>3, <2>4 DEF u, v
<1>8. (r * b) * x \in Int /\ p * (y * b) \in Int
  BY <1>1
<1> QED
  BY <1>0, <1>4, <1>7, <1>8, DividesSum

\* A number that two different primes divide is divided by their product.
LEMMA TwoPrimes ==
  ASSUME NEW p \in Nat, Prime(p), NEW q \in Nat, Prime(q), p # q,
         NEW n \in Int, Divides(p, n), Divides(q, n)
  PROVE  Divides(p * q, n)
<1>0. p > 1 /\ q > 1 /\ p \in Nat \ {0} /\ q \in Nat \ {0}
  BY DEF Prime
<1>1. PICK k \in Int : n = p * k
  BY <1>0, Cofactor
<1>2. ~Divides(q, p)
  <2> SUFFICES ASSUME Divides(q, p) PROVE FALSE
    OBVIOUS
  <2>1. q <= p
    BY <1>0, NoMultiple
  <2>2. q \notin 2 .. p - 1
    BY DEF Prime
  <2> QED
    BY <1>0, <2>1, <2>2
<1>3. Divides(q, k)
  <2>1. Divides(q, p * k) /\ p \in Int
    BY <1>1
  <2> QED
    BY <1>2, <2>1, PrimeDivides
<1>4. PICK j \in Int : k = q * j
  BY <1>0, <1>3, Cofactor
<1>5. n = (p * q) * j
  <2>1. p * (q * j) = (p * q) * j
    OBVIOUS
  <2> QED
    BY <1>1, <1>4, <2>1
<1>6. p * q \in Nat \ {0}
  BY <1>0
<1> QED
  BY <1>5, <1>6, Cofactor

\* What mpz_invert looks for is there if the two have no common divisor.
LEMMA InverseIsThere ==
  ASSUME NEW e \in Nat, NEW t \in Nat, t > 1, Coprime(e, t)
  PROVE  \E z \in 0 .. t - 1 : (e * z) % t = 1
<1>1. e # 0
  <2> SUFFICES ASSUME e = 0 PROVE FALSE
    OBVIOUS
  <2>1. 0 % t = 0 /\ t % t = 0
    <3>1. 0 = t * 0 + 0 /\ t = t * 1 + 0 /\ 0 \in 0 .. t - 1
      OBVIOUS
    <3> QED
      BY <3>1, Quotient
  <2> QED
    BY <2>1 DEF Coprime, Divides
<1>2. \A z \in Nat \ {0} : Divides(z, e) /\ Divides(z, t) => z = 1
  <2> SUFFICES ASSUME NEW z \in Nat \ {0}, Divides(z, e), Divides(z, t) PROVE z = 1
    OBVIOUS
  <2>1. z <= t
    BY NoMultiple
  <2> QED
    BY <2>1 DEF Coprime
<1>3. PICK x, y \in Int : 1 = e * x + t * y
  <2>1. e \in Nat \ {0} /\ t \in Nat \ {0}
    BY <1>1
  <2> QED
    BY <1>2, <2>1, Bezout
<1> DEFINE q == x \div t
           r == x % t
<1>4. q \in Int /\ r \in 0 .. t - 1 /\ x = t * q + r
  OBVIOUS
<1> HIDE DEF q, r
<1>5. e * r = t * (0 - (e * q + y)) + 1
  <2>1. e * x = e * (t * q) + e * r
    BY <1>4
  <2>2. e * (t * q) = t * (e * q)
    BY <1>4
  <2>3. t * (0 - (e * q + y)) = 0 - (t * (e * q) + t * y)
    BY <1>4
  <2>4. t * (e * q) \in Int /\ t * y \in Int /\ e * r \in Int
    BY <1>4
  <2> QED
    BY <1>3, <2>1, <2>2, <2>3, <2>4
<1>6. 0 - (e * q + y) \in Int /\ e * r \in Int /\ 1 \in 0 .. t - 1
  BY <1>4
<1>7. (e * r) % t = 1
  BY <1>5, <1>6, Quotient
<1> QED
  BY <1>4, <1>7
-----------------------------------------------------------------------------
(***************************************************************************)
(* Fermat's little theorem.  The powers of a come back to 1 after k steps, *)
(* and the products of a number with these k powers are k numbers.  A set  *)
(* that is closed under multiplication by a consists of such orbits, so k  *)
(* divides its size; all numbers below p are such a set.                   *)
(***************************************************************************)
Below(p) == 1 .. p - 1

\* No product of numbers below p is a multiple of p, and a factor can be
\* cancelled.
LEMMA Cancel ==
  ASSUME NEW p \in Nat, Prime(p), NEW a \in Below(p), NEW x \in Below(p), NEW y \in Below(p)
  PROVE  /\ (x * a) % p \in Below(p)
         /\ (x * a) % p = (y * a) % p => x = y
<1>0. p \in Nat \ {0} /\ p > 1
  BY DEF Prime
<1>1. ASSUME NEW z \in Below(p) PROVE ~Divides(p, z)
  BY <1>0, NoMultiple DEF Below
<1>2. (x * a) % p # 0
  <2> SUFFICES ASSUME Divides(p, x * a) PROVE FALSE
    BY DEF Divides
  <2>1. x \in Int /\ a \in Int
    BY DEF Below
  <2> QED
    BY <1>1, <2>1, PrimeDivides
<1>3. (x * a) % p \in 0 .. p - 1
  <2>1. x * a \in Nat
    BY DEF Below
  <2> QED
    BY <1>0, <2>1
<1>4. ASSUME NEW u \in Below(p), NEW v \in Below(p), u < v, (u * a) % p = (v * a) % p
      PROVE  FALSE
  <2>1. u \in Nat /\ v \in Nat /\ a \in Nat /\ v - u \in Below(p)
    BY <1>0, <1>4 DEF Below
  <2>2. v * a \in Int /\ u * a \in Int /\ v * a - u * a = (v - u) * a
    BY <2>1
  <2>3. Divides(p, (v - u) * a)
    BY <1>0, <1>4, <2>2, SameRest
  <2>4. v - u \in Int /\ a \in Int
    BY <2>1
  <2>5. Divides(p, v - u) \/ Divides(p, a)
    BY <2>3, <2>4, PrimeDivides
  <2> QED
    BY <1>1, <2>1, <2>5
<1>5. (x * a) % p = (y * a) % p => x = y
  <2>1. x \in Nat /\ y \in Nat /\ (x = y \/ x < y \/ y < x)
    BY DEF Below
  <2> QED
    BY <1>4, <2>1
<1> QED
  BY <1>2, <1>3, <1>5 DEF Below

\* The powers of a below p.
LEMMA PowersBelow ==
  ASSUME NEW p \in Nat, Prime(p), NEW a \in Below(p)
  PROVE  /\ PowMod(a, 0, p) = 1
         /\ \A i \in Nat : /\ PowMod(a, i, p) \in Below(p)
                           /\ PowMod(a, i + 1, p) = (PowMod(a, i, p) * a) % p
<1>0. p \in Nat \ {0} /\ p > 1 /\ a \in Nat
  BY DEF Prime, Below
<1>1. PowMod(a, 0, p) = 1
  <2>1. PowMod(a, 0, p) = 1 % p
    BY <1>0, PowModStep
  <2>2. 1 % p = 1
    BY <1>0
  <2> QED
    BY <2>1, <2>2
<1>2. \A i \in Nat : PowMod(a, i + 1, p) = (PowMod(a, i, p) * a) % p
  BY <1>0, PowModStep
<1> DEFINE S == {i \in Nat : PowMod(a, i, p) \in Below(p)}
<1>3. 0 \in S
  BY <1>0, <1>1 DEF Below
<1>4. ASSUME NEW i \in Nat, i \in S PROVE i + 1 \in S
  BY <1>2, <1>4, Cancel
<1>5. Nat \subseteq S
  <2> HIDE DEF S
  <2> QED
    BY <1>3, <1>4, Induct
<1> QED
  BY <1>1, <1>2, <1>5

\* Powers that are equal stay equal if both are taken back.
LEMMA TakenBack ==
  ASSUME NEW p \in Nat, Prime(p), NEW a \in Below(p), NEW n \in Nat, NEW i \in Nat,
         PowMod(a, i, p) = PowMod(a, i + n, p)
  PROVE  PowMod(a, n, p) = 1
<1> DEFINE P(j) == PowMod(a, j, p)
           S == {j \in Nat : P(j) = P(j + n) => P(n) = 1}
<1>1. P(0) = 1 /\ \A j \in Nat : P(j) \in Below(p) /\ P(j + 1) = (P(j) * a) % p
  BY PowersBelow
<1> HIDE DEF P
<1>2. 0 \in S
  BY <1>1
<1>3. ASSUME NEW j \in Nat, j \in S PROVE j + 1 \in S
  <2> SUFFICES ASSUME P(j + 1) = P((j + 1) + n) PROVE P(n) = 1
    OBVIOUS
  <2>1. j + n \in Nat /\ (j + 1) + n = (j + n) + 1
    OBVIOUS
  <2>2. P(j + 1) = (P(j) * a) % p /\ P((j + n) + 1) = (P(j + n) * a) % p
        /\ P(j) \in Below(p) /\ P(j + n) \in Below(p)
    BY <1>1, <2>1
  <2>3. (P(j) * a) % p = (P(j + n) * a) % p
    BY <2>1, <2>2
  <2>4. P(j) = P(j + n)
    BY <2>2, <2>3, Cancel
  <2> QED
    BY <1>3, <2>4
<1>4. Nat \subseteq S
  <2> HIDE DEF S
  <2> QED
    BY <1>2, <1>3, Induct
<1>5. i \in S
  BY <1>4
<1>6. P(i) = P(i + n)
  BY DEF P
<1>7. P(n) = 1
  BY <1>5, <1>6
<1> QED
  BY <1>7 DEF P

\* k is the number of different powers of a.
Order(a, p, k) ==
  /\ k \in Nat \ {0} /\ PowMod(a, k, p) = 1
  /\ \A j \in 1 .. k - 1 : PowMod(a, j, p) # 1

LEMMA OrderExists ==
  ASSUME NEW p \in Nat, Prime(p), NEW a \in Below(p)
  PROVE  \E k : Order(a, p, k)
<1>0. p > 1
  BY DEF Prime
<1> DEFINE f == [i \in 0 .. p - 1 |-> PowMod(a, i, p)]
<1>1. f \in [0 .. p - 1 -> Below(p)]
  <2>1. \A i \in 0 .. p - 1 : PowMod(a, i, p) \in Below(p)
    BY PowersBelow
  <2> QED
    BY <2>1
<1>2. /\ IsFiniteSet(0 .. p - 1) /\ IsFiniteSet(Below(p))
      /\ Cardinality(Below(p)) < Cardinality(0 .. p - 1)
  <2>1. /\ IsFiniteSet(0 .. p - 1) /\ IsFiniteSet(1 .. p - 1)
        /\ Cardinality(0 .. p - 1) = IF 0 > p - 1 THEN 0 ELSE p - 1 - 0 + 1
        /\ Cardinality(1 .. p - 1) = IF 1 > p - 1 THEN 0 ELSE p - 1 - 1 + 1
    <3>1. 0 \in Int /\ 1 \in Int /\ p - 1 \in Int
      OBVIOUS
    <3> QED
      BY <3>1, FS_Interval
  <2> QED
    BY <1>0, <2>1 DEF Below
<1> HIDE DEF f
<1>3. PICK i, j \in 0 .. p - 1 : i # j /\ f[i] = f[j]
  BY <1>1, <1>2, FS_PigeonHole
<1>4. PowMod(a, i, p) = PowMod(a, j, p)
  BY <1>3 DEF f
<1> DEFINE S == {n \in Nat \ {0} : PowMod(a, n, p) = 1}
<1>5. S # {}
  <2>1. CASE i < j
    <3>1. i \in Nat /\ j - i \in Nat \ {0} /\ i + (j - i) = j
      BY <2>1
    <3>2. PowMod(a, j - i, p) = 1
      BY <1>4, <3>1, TakenBack
    <3> QED
      BY <3>1, <3>2
  <2>2. CASE j < i
    <3>1. j \in Nat /\ i - j \in Nat \ {0} /\ j + (i - j) = i
      BY <2>2
    <3>2. PowMod(a, i - j, p) = 1
      BY <1>4, <3>1, TakenBack
    <3> QED
      BY <3>1, <3>2
  <2> QED
    BY <1>3, <2>1, <2>2
<1>6. PICK k \in S : \A n \in S : k <= n
  <2>1. S \subseteq Nat
    OBVIOUS
  <2> HIDE DEF S
  <2> QED
    BY <1>5, <2>1, LeastOf
<1>7. Order(a, p, k)
  BY <1>6 DEF Order
<1> QED
  BY <1>7

\* Orbits: x times the first k powers of a.
Orbit(x, a, p, k) == {(x * PowMod(a, i, p)) % p : i \in 0 .. k - 1}

\* One step further in the orbit is one more factor.
LEMMA NextOf ==
  ASSUME NEW p \in Nat, Prime(p), NEW a \in Below(p), NEW x \in Below(p), NEW i \in Nat
  PROVE  /\ (x * PowMod(a, i, p)) % p \in Below(p)
         /\ (((x * PowMod(a, i, p)) % p) * a) % p = (x * PowMod(a, i + 1, p)) % p
<1> DEFINE u == PowMod(a, i, p)
<1>0. p \in Nat \ {0} /\ x \in Nat /\ a \in Nat
  BY DEF Prime, Below
<1>1. u \in Below(p) /\ u \in Nat /\ PowMod(a, i + 1, p) = (u * a) % p
  BY PowersBelow DEF Below
<1> HIDE DEF u
<1>2. (x * u) % p \in Below(p)
  BY <1>1, Cancel
<1>3. (((x * u) % p) * a) % p = ((x * u) * a) % p
  <2>1. x * u \in Nat
    BY <1>0, <1>1
  <2> QED
    BY <1>0, <2>1, ModTimes
<1>4. (((u * a) % p) * x) % p = ((u * a) * x) % p
  <2>1. u * a \in Nat
    BY <1>0, <1>1
  <2> QED
    BY <1>0, <2>1, ModTimes
<1>5. (x * u) * a = (u * a) * x
  BY <1>0, <1>1
<1>6. ((u * a) % p) * x = x * ((u * a) % p)
  <2>1. (u * a) % p \in Nat
    <3>1. u * a \in Nat
      BY <1>0, <1>1
    <3> QED
      BY <1>0, <3>1
  <2> QED
    BY <1>0, <2>1
<1>7. (((x * u) % p) * a) % p = (x * ((u * a) % p)) % p
  BY <1>3, <1>4, <1>5, <1>6
<1> QED
  BY <1>1, <1>2, <1>7 DEF u

\* An orbit has k elements, which are in every closed set that x is in, and
\* what is left of such a set is closed again.
Closed(S, a, p) == S \subseteq Below(p) /\ \A x \in S : (x * a) % p \in S

LEMMA OrbitSize ==
  ASSUME NEW p \in Nat, Prime(p), NEW a \in Below(p), NEW k, Order(a, p, k), NEW x \in Below(p)
  PROVE  IsFiniteSet(Orbit(x, a, p, k)) /\ Cardinality(Orbit(x, a, p, k)) = k
<1> DEFINE O == Orbit(x, a, p, k)
           f == [i \in 0 .. k - 1 |-> (x * PowMod(a, i, p)) % p]
<1>0. k \in Nat \ {0}
  BY DEF Order
<1>1. ASSUME NEW i \in 0 .. k - 1, NEW j \in 0 .. k - 1, i < j,
             (x * PowMod(a, i, p)) % p = (x * PowMod(a, j, p)) % p
      PROVE  FALSE
  <2> DEFINE u == PowMod(a, i, p)
             v == PowMod(a, j, p)
  <2>1. i \in Nat /\ j \in Nat /\ j - i \in 1 .. k - 1 /\ j - i \in Nat /\ i + (j - i) = j
    BY <1>0, <1>1
  <2>2. u \in Below(p) /\ v \in Below(p)
    BY <2>1, PowersBelow
  <2>3. (u * x) % p = (v * x) % p
    <3>1. (x * u) % p = (x * v) % p
      BY <1>1
    <3> HIDE DEF u, v
    <3>2. x * u = u * x /\ x * v = v * x
      BY <2>2 DEF Below
    <3> QED
      BY <3>1, <3>2
  <2> HIDE DEF u, v
  <2>4. u = v
    BY <2>2, <2>3, Cancel
  <2>5. PowMod(a, i, p) = PowMod(a, i + (j - i), p)
    BY <2>1, <2>4 DEF u, v
  <2>6. PowMod(a, j - i, p) = 1
    BY <2>1, <2>5, TakenBack
  <2> QED
    BY <2>1, <2>6 DEF Order
<1>2. \A i, j \in 0 .. k - 1 : f[i] = f[j] => i = j
  <2> SUFFICES ASSUME NEW i \in 0 .. k - 1, NEW j \in 0 .. k - 1, f[i] = f[j]
               PROVE  i = j
    OBVIOUS
  <2>1. (x * PowMod(a, i, p)) % p = (x * PowMod(a, j, p)) % p
    OBVIOUS
  <2>2. i < j \/ j < i \/ i = j
    BY <1>0
  <2> QED
    BY <1>1, <2>1, <2>2
<1>3. f \in [0 .. k - 1 -> O] /\ \A t \in O : \E i \in 0 .. k - 1 : f[i] = t
  BY DEF Orbit
<1> HIDE DEF f, O
<1>4. f \in Bijection(0 .. k - 1, O)
  BY <1>2, <1>3 DEF Bijection, Injection, Surjection, IsInjective
<1>5. ExistsBijection(0 .. k - 1, O)
  BY <1>4 DEF ExistsBijection
<1>6. IsFiniteSet(0 .. k - 1) /\ Cardinality(0 .. k - 1) = k
  <2>1. /\ IsFiniteSet(0 .. k - 1)
        /\ Cardinality(0 .. k - 1) = IF 0 > k - 1 THEN 0 ELSE k - 1 - 0 + 1
    <3>1. 0 \in Int /\ k - 1 \in Int
      BY <1>0
    <3> QED
      BY <3>1, FS_Interval
  <2> QED
    BY <1>0, <2>1
<1>7. IsFiniteSet(O) /\ Cardinality(O) = Cardinality(0 .. k - 1)
  BY <1>5, <1>6, FS_Bijection
<1> QED
  BY <1>6, <1>7 DEF O

LEMMA OrbitLeaves ==
  ASSUME NEW p \in Nat, Prime(p), NEW a \in Below(p), NEW k, Order(a, p, k),
         NEW S, Closed(S, a, p), NEW x \in S
  PROVE  Orbit(x, a, p, k) \subseteq S /\ Closed(S \ Orbit(x, a, p, k), a, p)
<1> DEFINE O == Orbit(x, a, p, k)
           At(i) == (x * PowMod(a, i, p)) % p
<1>0. k \in Nat \ {0} /\ x \in Below(p) /\ S \subseteq Below(p)
  BY DEF Order, Closed
<1>1. \A i \in Nat : At(i) \in Below(p) /\ (At(i) * a) % p = At(i + 1)
  BY <1>0, NextOf
<1>2. At(0) = x /\ At(k) = x
  <2>1. PowMod(a, 0, p) = 1 /\ PowMod(a, k, p) = 1
    BY PowersBelow DEF Order
  <2>2. x * 1 = x /\ x % p = x
    BY <1>0 DEF Below
  <2> QED
    BY <2>1, <2>2
<1>3. O = {At(i) : i \in 0 .. k - 1}
  BY DEF Orbit
<1> HIDE DEF O, At
<1>4. \A i \in Nat : At(i) \in S
  <2> DEFINE T == {i \in Nat : At(i) \in S}
  <2>1. 0 \in T
    BY <1>2
  <2>2. ASSUME NEW i \in Nat, i \in T PROVE i + 1 \in T
    BY <1>1, <2>2 DEF Closed
  <2>3. Nat \subseteq T
    <3> HIDE DEF T
    <3> QED
      BY <2>1, <2>2, Induct
  <2> QED
    BY <2>3
<1>5. O \subseteq S
  BY <1>0, <1>3, <1>4
<1>6. ASSUME NEW y \in S \ O, (y * a) % p \in O PROVE FALSE
  <2>1. PICK i \in 0 .. k - 1 : (y * a) % p = At(i)
    BY <1>3, <1>6
  <2>2. PICK j \in 0 .. k - 1 : At(j + 1) = At(i)
    <3>1. CASE i = 0
      <4>1. k - 1 \in 0 .. k - 1 /\ (k - 1) + 1 = k
        BY <1>0
      <4> QED
        BY <1>2, <3>1, <4>1
    <3>2. CASE i # 0
      <4>1. i - 1 \in 0 .. k - 1 /\ (i - 1) + 1 = i
        BY <1>0, <3>2
      <4> QED
        BY <4>1
    <3> QED
      BY <3>1, <3>2
  <2>3. j \in Nat /\ At(j) \in Below(p) /\ (At(j) * a) % p = At(j + 1)
    BY <1>0, <1>1
  <2>4. y \in Below(p)
    BY <1>0
  <2>5. y = At(j)
    <3> DEFINE z == At(j)
    <3>1. z \in Below(p) /\ (y * a) % p = (z * a) % p
      BY <2>1, <2>2, <2>3
    <3> HIDE DEF z
    <3>2. y = z
      BY <2>4, <3>1, Cancel
    <3> QED
      BY <3>2 DEF z
  <2>6. y \in O
    BY <1>3, <2>5
  <2> QED
    BY <2>6
<1>7. Closed(S \ O, a, p)
  BY <1>0, <1>6 DEF Closed
<1> QED
  BY <1>5, <1>7 DEF O

\* The size of a closed set is a multiple of k.
LEMMA ClosedSize ==
  ASSUME NEW p \in Nat, Prime(p), NEW a \in Below(p), NEW k, Order(a, p, k),
         NEW S, Closed(S, a, p)
  PROVE  Divides(k, Cardinality(S))
<1>0. k \in Nat \ {0} /\ IsFiniteSet(Below(p))
  <2>1. IsFiniteSet(1 .. p - 1)
    <3>1. 1 \in Int /\ p - 1 \in Int
      OBVIOUS
    <3> QED
      BY <3>1, FS_Interval
  <2> QED
    BY <2>1 DEF Order, Below
<1>1. \A U : Closed(U, a, p) => IsFiniteSet(U) /\ Cardinality(U) \in Nat
  <2> SUFFICES ASSUME NEW U, Closed(U, a, p) PROVE IsFiniteSet(U) /\ Cardinality(U) \in Nat
    OBVIOUS
  <2>1. U \in SUBSET Below(p)
    BY DEF Closed
  <2>2. IsFiniteSet(U)
    BY <1>0, <2>1, FS_Subset
  <2> QED
    BY <2>2, FS_CardinalityType
<1> DEFINE Bad == {n \in Nat : ~Divides(k, n) /\ \E U \in SUBSET Below(p) : Closed(U, a, p) /\ Cardinality(U) = n}
<1>2. ASSUME Bad # {} PROVE FALSE
  <2>1. PICK n \in Bad : \A m \in Bad : n <= m
    <3>1. Bad \subseteq Nat
      OBVIOUS
    <3> HIDE DEF Bad
    <3> QED
      BY <1>2, <3>1, LeastOf
  <2>2. PICK U \in SUBSET Below(p) : Closed(U, a, p) /\ Cardinality(U) = n
    OBVIOUS
  <2>3. U # {}
    <3> SUFFICES ASSUME U = {} PROVE FALSE
      OBVIOUS
    <3>1. n = 0 /\ 0 = k * 0 /\ 0 \in Int
      BY <2>2, FS_EmptySet, <1>0
    <3>2. Divides(k, 0)
      BY <1>0, <3>1, Cofactor
    <3> QED
      BY <3>1, <3>2
  <2>4. PICK x \in U : TRUE
    BY <2>3
  <2> DEFINE O == Orbit(x, a, p, k)
             V == U \ O
  <2>5. O \subseteq U /\ Closed(V, a, p) /\ V \in SUBSET Below(p)
    BY <2>2, OrbitLeaves
  <2>6. Cardinality(O) = k
    BY OrbitSize
  <2>7. Cardinality(V) = n - k /\ Cardinality(V) \in Nat
    <3>1. Cardinality(U \ O) = Cardinality(U) - Cardinality(U \cap O)
      <4>1. IsFiniteSet(U)
        BY <1>1, <2>2
      <4> QED
        BY <4>1, FS_Difference
    <3>2. U \cap O = O
      BY <2>5
    <3>3. Cardinality(V) \in Nat
      BY <1>1, <2>5
    <3> QED
      BY <2>2, <2>6, <3>1, <3>2, <3>3
  <2> HIDE DEF O, V
  <2>8. n - k \in Nat /\ n - k < n /\ n = k + (n - k)
    BY <1>0, <2>7
  <2>9. Divides(k, n - k)
    <3>1. n - k \notin Bad
      BY <2>1, <2>8
    <3> QED
      BY <2>5, <2>7, <2>8, <3>1
  <2>10. Divides(k, k)
    <3>1. k = k * 1 /\ k \in Int /\ 1 \in Int
      BY <1>0
    <3> QED
      BY <1>0, <3>1, Cofactor
  <2>11. Divides(k, k + (n - k))
    <3>1. k \in Int /\ n - k \in Int
      BY <1>0, <2>8
    <3> QED
      BY <1>0, <2>9, <2>10, <3>1, DividesSum
  <2> QED
    BY <2>8, <2>11
<1>3. S \in SUBSET Below(p) /\ Cardinality(S) \in Nat
  BY <1>1 DEF Closed
<1> QED
  BY <1>2, <1>3

LEMMA Fermat ==
  ASSUME NEW p \in Nat, Prime(p), NEW a \in Below(p)
  PROVE  PowMod(a, p - 1, p) = 1
<1>0. p \in Nat \ {0} /\ p > 1 /\ a \in Nat
  BY DEF Prime, Below
<1>1. PICK k : Order(a, p, k)
  BY OrderExists
<1>2. Closed(Below(p), a, p)
  BY Cancel DEF Closed
<1>3. Cardinality(Below(p)) = p - 1
  <2>1. Cardinality(1 .. p - 1) = IF 1 > p - 1 THEN 0 ELSE p - 1 - 1 + 1
    <3>1. 1 \in Int /\ p - 1 \in Int
      OBVIOUS
    <3> QED
      BY <3>1, FS_Interval
  <2> QED
    BY <1>0, <2>1 DEF Below
<1>4. k \in Nat \ {0} /\ PowMod(a, k, p) = 1
  BY <1>1 DEF Order
<1>5. Divides(k, p - 1)
  BY <1>1, <1>2, <1>3, ClosedSize
<1>6. PICK j \in Nat : p - 1 = k * j
  <2>1. (p - 1) % k = 0 /\ p - 1 \in Nat
    BY <1>0, <1>5 DEF Divides
  <2>2. (p - 1) \div k \in Nat /\ p - 1 = k * ((p - 1) \div k) + ((p - 1) % k)
    BY <1>4, <2>1, Euclid
  <2>3. p - 1 = k * ((p - 1) \div k)
    BY <1>4, <2>1, <2>2
  <2> QED
    BY <2>2, <2>3
<1>7. PowMod(a, k * j, p) = PowMod(1, j, p)
  BY <1>0, <1>4, PowTimes
<1>8. PowMod(1, j, p) = 1
  <2>1. PowMod(a, 0, p) = 1
    BY PowersBelow
  <2>2. PowMod(PowMod(a, 0, p), j, p) = PowMod(a, 0 * j, p)
    BY <1>0, PowTimes
  <2>3. 0 * j = 0
    OBVIOUS
  <2> QED
    BY <2>1, <2>2, <2>3
<1> QED
  BY <1>6, <1>7, <1>8
-----------------------------------------------------------------------------
(***************************************************************************)
(* Textbook RSA: what is encrypted with e comes back with the inverse of   *)
(* e.  It comes back modulo either prime by Fermat's theorem, and so       *)
(* modulo their product.                                                   *)
(***************************************************************************)
\* A remainder modulo a multiple of p, modulo p.
LEMMA RestTwice ==
  ASSUME NEW p \in Nat \ {0}, NEW q \in Nat \ {0}, NEW m \in Nat \ {0}, m = p * q, NEW x \in Nat
  PROVE  (x % m) % p = x % p
<1> DEFINE k == x \div m
           r == x % m
<1>1. k \in Nat /\ r \in 0 .. m - 1 /\ x = m * k + r
  BY Euclid
<1> HIDE DEF k, r
<1>2. (p * q) * k = p * (q * k)
  BY <1>1
<1>3. x - r = p * (q * k) /\ q * k \in Int /\ x - r \in Int /\ r \in Int
  BY <1>1, <1>2
<1>4. Divides(p, x - r)
  BY <1>3, Cofactor
<1>5. x \in Int
  OBVIOUS
<1>6. x % p = r % p
  BY <1>3, <1>4, <1>5, SameRest
<1> QED
  BY <1>6 DEF r

LEMMA PowerRest ==
  ASSUME NEW p \in Nat \ {0}, NEW q \in Nat \ {0}, NEW x \in Nat, NEW n \in Nat
  PROVE  PowMod(x, n, p * q) % p = PowMod(x, n, p)
<1> DEFINE m == p * q
           S == {k \in Nat : PowMod(x, k, m) % p = PowMod(x, k, p)}
<1>1. m \in Nat \ {0}
  OBVIOUS
<1>2. \A u \in Nat : (u % m) % p = u % p
  BY <1>1, RestTwice
<1> HIDE DEF m
<1>3. 0 \in S
  <2>1. PowMod(x, 0, m) = 1 % m /\ PowMod(x, 0, p) = 1 % p
    BY <1>1, PowModStep
  <2> QED
    BY <1>2, <2>1
<1>4. ASSUME NEW k \in Nat, k \in S PROVE k + 1 \in S
  <2> DEFINE u == PowMod(x, k, m)
  <2>0. u \in 0 .. m - 1
    BY <1>1, PowModStep
  <2>1. u \in Nat /\ PowMod(x, k + 1, m) = (u * x) % m /\ PowMod(x, k + 1, p) = (PowMod(x, k, p) * x) % p
    BY <1>1, <2>0, PowModStep
  <2>2. u % p = PowMod(x, k, p)
    BY <1>4
  <2> HIDE DEF u
  <2>3. u * x \in Nat
    BY <2>1
  <2>4. ((u * x) % m) % p = (u * x) % p
    BY <1>2, <2>3
  <2>5. ((u % p) * x) % p = (u * x) % p
    BY <2>1, ModTimes
  <2> QED
    BY <2>1, <2>2, <2>4, <2>5
<1>5. Nat \subseteq S
  <2> HIDE DEF S
  <2> QED
    BY <1>3, <1>4, Induct
<1>6. PowMod(x, n, m) % p = PowMod(x, n, p)
  BY <1>5
<1> QED
  BY <1>6 DEF m

\* The base may be reduced.
LEMMA BaseRest ==
  ASSUME NEW p \in Nat \ {0}, NEW x \in Nat, NEW n \in Nat
  PROVE  PowMod(x % p, n, p) = PowMod(x, n, p)
<1> DEFINE r == x % p
           S == {k \in Nat : PowMod(r, k, p) = PowMod(x, k, p)}
<1>1. r \in Nat
  OBVIOUS
<1>2. \A u \in Nat : (u * r) % p = (u * x) % p
  <2> SUFFICES ASSUME NEW u \in Nat PROVE (u * r) % p = (u * x) % p
    OBVIOUS
  <2>1. ((x % p) * u) % p = (x * u) % p
    BY ModTimes
  <2>2. r * u = u * r /\ x * u = u * x
    BY <1>1
  <2> QED
    BY <2>1, <2>2
<1> HIDE DEF r
<1>3. 0 \in S
  BY <1>1, PowModStep
<1>4. ASSUME NEW k \in Nat, k \in S PROVE k + 1 \in S
  <2> DEFINE u == PowMod(x, k, p)
  <2>0. u \in 0 .. p - 1
    BY PowModStep
  <2>1. u \in Nat /\ PowMod(x, k + 1, p) = (u * x) % p /\ PowMod(r, k + 1, p) = (PowMod(r, k, p) * r) % p
    BY <1>1, <2>0, PowModStep
  <2>2. PowMod(r, k, p) = u
    BY <1>4
  <2> HIDE DEF u
  <2> QED
    BY <1>2, <2>1, <2>2
<1>5. Nat \subseteq S
  <2> HIDE DEF S
  <2> QED
    BY <1>3, <1>4, Induct
<1>6. PowMod(r, n, p) = PowMod(x, n, p)
  BY <1>5
<1> QED
  BY <1>6 DEF r

\* Fermat's theorem for every base: a power that is one more than a multiple
\* of p - 1 is the base again.
LEMMA PowerComesBack ==
  ASSUME NEW p \in Nat, Prime(p), NEW x \in Nat, NEW j \in Nat
  PROVE  PowMod(x, (p - 1) * j + 1, p) = x % p
<1> DEFINE n == (p - 1) * j
           u == PowMod(x, n, p)
<1>0. p \in Nat \ {0} /\ p - 1 \in Nat
  BY DEF Prime
<1>1. n \in Nat
  BY <1>0
<1> HIDE DEF n
<1>2. u \in Nat /\ PowMod(x, n + 1, p) = (u * x) % p
  <2>1. u \in 0 .. p - 1 /\ PowMod(x, n + 1, p) = (u * x) % p
    BY <1>0, <1>1, PowModStep
  <2> QED
    BY <1>0, <2>1
<1>3. CASE x % p = 0
  <2>1. Divides(p, x)
    BY <1>3 DEF Divides
  <2> HIDE DEF u
  <2>2. Divides(p, x * u)
    <3>1. x \in Int /\ u \in Int
      BY <1>2
    <3> QED
      BY <1>0, <2>1, <3>1, DividesSum
  <2>3. x * u = u * x
    BY <1>2
  <2>4. (u * x) % p = 0
    BY <2>2, <2>3 DEF Divides
  <2> QED
    BY <1>2, <1>3, <2>4 DEF n
<1>4. CASE x % p # 0
  <2> DEFINE r == x % p
  <2>1. r \in Below(p) /\ r \in Nat
    BY <1>0, <1>4 DEF Below
  <2>2. u = PowMod(r, n, p)
    BY <1>0, <1>1, BaseRest
  <2> HIDE DEF r
  <2>3. PowMod(PowMod(r, p - 1, p), j, p) = PowMod(r, (p - 1) * j, p)
    BY <1>0, <2>1, PowTimes
  <2>4. PowMod(r, p - 1, p) = 1 /\ PowMod(r, 0, p) = 1
    BY <2>1, Fermat, PowersBelow
  <2>5. PowMod(PowMod(r, 0, p), j, p) = PowMod(r, 0 * j, p)
    BY <1>0, <2>1, PowTimes
  <2>6. 0 * j = 0
    OBVIOUS
  <2>7. u = 1
    BY <2>2, <2>3, <2>4, <2>5, <2>6 DEF n
  <2>8. u * x = x
    BY <2>7
  <2> QED
    BY <1>2, <2>8 DEF n
<1> QED
  BY <1>3, <1>4

LEMMA RsaComesBack ==
  ASSUME NEW p \in Nat, Prime(p), NEW q \in Nat, Prime(q), p # q,
         NEW e \in Nat, NEW d \in Nat, (e * d) % ((p - 1) * (q - 1)) = 1,
         NEW x \in 0 .. p * q - 1
  PROVE  PowMod(PowMod(x, e, p * q), d, p * q) = x
<1> DEFINE m == p * q
           t == (p - 1) * (q - 1)
           y == PowMod(x, e * d, m)
<1>0. p \in Nat \ {0} /\ q \in Nat \ {0} /\ p - 1 \in Nat \ {0} /\ q - 1 \in Nat \ {0} /\ x \in Nat
  BY DEF Prime
<1>1. m \in Nat \ {0} /\ t \in Nat \ {0} /\ e * d \in Nat /\ m = q * p
  BY <1>0
<1>2. PowMod(PowMod(x, e, m), d, m) = y
  BY <1>0, <1>1, PowTimes
<1>3. PICK j \in Nat : e * d = t * j + 1
  <2>1. (e * d) \div t \in Nat /\ e * d = t * ((e * d) \div t) + ((e * d) % t)
    BY <1>1, Euclid
  <2> QED
    BY <2>1
<1>4. y % p = x % p
  <2>1. y % p = PowMod(x, e * d, p)
    BY <1>0, <1>1, PowerRest
  <2>2. (q - 1) * j \in Nat /\ t * j = (p - 1) * ((q - 1) * j)
    BY <1>0
  <2>3. PowMod(x, (p - 1) * ((q - 1) * j) + 1, p) = x % p
    BY <1>0, <2>2, PowerComesBack
  <2> QED
    BY <1>3, <2>1, <2>2, <2>3
<1>5. y % q = x % q
  <2>1. PowMod(x, e * d, q * p) % q = PowMod(x, e * d, q)
    BY <1>0, <1>1, PowerRest
  <2>2. (p - 1) * j \in Nat /\ t * j = (q - 1) * ((p - 1) * j)
    BY <1>0
  <2>3. PowMod(x, (q - 1) * ((p - 1) * j) + 1, q) = x % q
    BY <1>0, <2>2, PowerComesBack
  <2> QED
    BY <1>1, <1>3, <2>1, <2>2, <2>3
<1>6. y \in 0 .. m - 1
  BY <1>0, <1>1, PowModStep
<1>7. x \in 0 .. m - 1
  OBVIOUS
<1> HIDE DEF y, m
<1>8. Divides(p, y - x) /\ Divides(q, y - x) /\ x \in Int /\ y \in Int /\ y - x \in Int
  <2>1. x \in Int /\ y \in Int /\ y - x \in Int
    BY <1>0, <1>6
  <2>2. Divides(p, y - x)
    BY <1>0, <1>4, <2>1, SameRest
  <2>3. Divides(q, y - x)
    BY <1>0, <1>5, <2>1, SameRest
  <2> QED
    BY <2>1, <2>2, <2>3
<1>9. Divides(m, y - x)
  BY <1>8, TwoPrimes DEF m
<1>10. y % m = x % m
  BY <1>1, <1>8, <1>9, SameRest
<1>11. y % m = y /\ x % m = x
  BY <1>1, <1>6, <1>7
<1>12. y = x
  BY <1>10, <1>11
<1> QED
  BY <1>2, <1>12 DEF m
-----------------------------------------------------------------------------
(***************************************************************************)
(* The keys that MakeKeys makes.                                           *)
(***************************************************************************)
\* What RSAKeyGen() counts e up to.
LEMMA ExponentOf ==
  ASSUME NEW e \in Nat, NEW t \in Nat
  PROVE  /\ Exponent(e, t) \in Nat
         /\ e <= t => Coprime(Exponent(e, t), t)
<1> DEFINE top == Max({e, t + 1})
           Stop(x) == x > t \/ Coprime(x, t)
           Best(x) == Stop(x) /\ \A y \in e .. x - 1 : y <= t /\ ~Coprime(y, t)
<1>1. top \in Nat /\ top \in {e, t + 1} /\ e <= top /\ t + 1 <= top
  <2>1. \E x \in {e, t + 1} : \A y \in {e, t + 1} : x >= y
    <3>1. CASE e >= t + 1
      BY <3>1
    <3>2. CASE e < t + 1
      BY <3>2
    <3> QED
      BY <3>1, <3>2
  <2>2. top \in {e, t + 1} /\ \A y \in {e, t + 1} : top >= y
    BY <2>1 DEF Max
  <2> QED
    BY <2>2
<1> HIDE DEF top
<1>2. \E x \in e .. top : Best(x)
  <2> DEFINE S == {x \in e .. top : Stop(x)}
  <2>1. top \in S
    BY <1>1
  <2>2. PICK x \in S : \A y \in S : x <= y
    <3>1. S \subseteq Nat /\ S # {}
      BY <2>1
    <3> HIDE DEF S
    <3> QED
      BY <3>1, LeastOf
  <2>3. ASSUME NEW y \in e .. x - 1 PROVE y <= t /\ ~Coprime(y, t)
    <3>1. y \in e .. top /\ y < x /\ y \in Nat
      BY <1>1
    <3>2. ~Stop(y)
      BY <2>2, <3>1
    <3> QED
      BY <3>1, <3>2
  <2> QED
    BY <2>3
<1>3. Exponent(e, t) = CHOOSE x \in e .. top : Best(x)
  BY DEF Exponent, top
<1> HIDE DEF Best
<1>4. Exponent(e, t) \in e .. top /\ Best(Exponent(e, t))
  BY <1>2, <1>3
<1>5. ASSUME e <= t PROVE Coprime(Exponent(e, t), t)
  <2> DEFINE x == Exponent(e, t)
  <2>1. x \in e .. t + 1 /\ Stop(x)
    BY <1>1, <1>4, <1>5 DEF Best
  <2> HIDE DEF x
  <2> SUFFICES ASSUME x > t PROVE Coprime(x, t)
    BY <2>1 DEF x
  <2>2. x = t + 1
    BY <2>1
  <2>3. ASSUME NEW d \in 2 .. t, Divides(d, t + 1), Divides(d, t) PROVE FALSE
    <3>1. d \in Nat \ {0} /\ t + 1 \in Int /\ t \in Int /\ (t + 1) - t = 1
      OBVIOUS
    <3>2. Divides(d, 1)
      BY <2>3, <3>1, DividesSum
    <3> QED
      BY <2>3, <3>1, <3>2, NoMultiple
  <2> QED
    BY <2>2, <2>3 DEF Coprime
<1> QED
  BY <1>1, <1>4, <1>5

\* The numbers of one RSA object.
LEMMA KeyNumbers ==
  ASSUME NEW draw \in Draws, NEW f \in Files
  PROVE  LET r == RSAKeyGen(draw[f])
         IN  r.N \in Nat \ {0} /\ r.e \in Nat /\ r.d \in Nat
<1> DEFINE r == RSAKeyGen(draw[f])
           p == draw[f].p
           q == draw[f].q
           t == (p - 1) * (q - 1)
           e == Exponent(draw[f].e, t)
<1>1. p \in Nat /\ q \in Nat /\ draw[f].e \in Nat /\ Prime(p) /\ Prime(q)
  BY RsaKeysAssumption
<1>2. p - 1 \in Nat \ {0} /\ q - 1 \in Nat \ {0} /\ p * q \in Nat \ {0}
  BY <1>1 DEF Prime
<1>3. t \in Nat
  BY <1>2
<1>4. r.N = p * q /\ r.e = e /\ r.d = Invert(e, t)
  BY DEF RSAKeyGen
<1>5. e \in Nat
  BY <1>1, <1>3, ExponentOf
<1> HIDE DEF e, t
<1>6. Invert(e, t) \in Nat
  <2> DEFINE I == {d \in 0 .. t - 1 : (e * d) % t = 1}
  <2>1. Invert(e, t) = IF I = {} THEN 0 ELSE CHOOSE d \in I : TRUE
    BY DEF Invert
  <2>2. I \subseteq Nat
    BY <1>3
  <2> HIDE DEF I
  <2>3. I # {} => (CHOOSE d \in I : TRUE) \in I
    OBVIOUS
  <2>4. CASE I = {}
    BY <2>1, <2>4
  <2>5. CASE I # {}
    BY <2>1, <2>2, <2>3, <2>5
  <2> QED
    BY <2>4, <2>5
<1> QED
  BY <1>2, <1>4, <1>5, <1>6

\* What is encrypted with such a key is decrypted with it.
LEMMA KeyUndoes ==
  ASSUME NEW draw \in Draws, Regular(draw), NEW f \in Files
  PROVE  LET r == RSAKeyGen(draw[f])
         IN  \A m \in 0 .. r.N - 1 : PowMod(PowMod(m, r.e, r.N), r.d, r.N) = m
<1> DEFINE r == RSAKeyGen(draw[f])
           p == draw[f].p
           q == draw[f].q
           t == (p - 1) * (q - 1)
           e == Exponent(draw[f].e, t)
<1>1. p \in Nat /\ q \in Nat /\ draw[f].e \in Nat /\ Prime(p) /\ Prime(q)
  BY RsaKeysAssumption
<1>2. p # q /\ draw[f].e <= t
  BY DEF Regular
<1>3. t \in Nat /\ t > 1
  <2> DEFINE a == p - 1
             b == q - 1
  <2>1. a \in Nat \ {0} /\ b \in Nat \ {0} /\ a # b
    BY <1>1, <1>2 DEF Prime
  <2> HIDE DEF a, b
  <2>2. a * b \in Nat /\ a * b > 1
    <3>1. CASE a = 1
      BY <2>1, <3>1
    <3>2. CASE a > 1
      <4>1. a * b >= a * 1
        BY <2>1
      <4> QED
        BY <2>1, <3>2, <4>1
    <3> QED
      BY <2>1, <3>1, <3>2
  <2> QED
    BY <2>2 DEF a, b
<1>4. r.N = p * q /\ r.e = e /\ r.d = Invert(e, t)
  BY DEF RSAKeyGen
<1>5. e \in Nat /\ Coprime(e, t)
  BY <1>1, <1>2, <1>3, ExponentOf
<1> HIDE DEF e, r
<1>6. Invert(e, t) \in Nat /\ (e * Invert(e, t)) % t = 1
  <2> HIDE DEF t
  <2> DEFINE I == {d \in 0 .. t - 1 : (e * d) % t = 1}
  <2>1. Invert(e, t) = IF I = {} THEN 0 ELSE CHOOSE d \in I : TRUE
    BY DEF Invert
  <2>2. I # {}
    BY <1>3, <1>5, InverseIsThere
  <2>3. Invert(e, t) \in I
    <3> HIDE DEF I
    <3> QED
      BY <2>1, <2>2
  <2> QED
    BY <1>3, <2>3
<1>7. ASSUME NEW m \in 0 .. p * q - 1
      PROVE  PowMod(PowMod(m, e, p * q), Invert(e, t), p * q) = m
  BY <1>1, <1>2, <1>5, <1>6, RsaComesBack
<1> QED
  BY <1>4, <1>7 DEF r
-----------------------------------------------------------------------------
(***************************************************************************)
(* The key files.  D says what each run of MakeKeys has drawn: a file has  *)
(* a beginning of the lines of its run, and an RSA object what was there   *)
(* when it was loaded.                                                     *)
(***************************************************************************)
Made(draw, f) == Lines(SetKeys(RSAKeyGen(draw[f]), RSAKeyGen(draw[Other[f]])))

FileOf(file, f, D, n) ==
  /\ file = [run |-> file.run, lines |-> file.lines]
  /\ file.run \in 0 .. n /\ D[file.run] \in Draws
  /\ file.lines \in Seq(Nat) /\ Len(file.lines) <= 5
  /\ \A i \in 1 .. Len(file.lines) : file.lines[i] = Made(D[file.run], f)[i]

MakerOf(m, fs, D, n) ==
  /\ m = [rsa |-> m.rsa, todo |-> m.todo, opened |-> m.opened]
  /\ m.todo \in {<<"clientKeys", "serverKeys">>, <<"serverKeys">>}
  /\ D[n] \in Draws
  /\ \A f \in Files : Lines(m.rsa[f]) = Made(D[n], f)
  /\ m.opened => /\ FileOf(fs[Head(m.todo)], Head(m.todo), D, n)
                 /\ fs[Head(m.todo)].run = n
                 /\ Len(fs[Head(m.todo)].lines) < 5

RsaOf(r, f, D, n) ==
  /\ r.d \in Nat /\ r.N2 \in Nat /\ r.e2 \in Nat /\ r.N \in Nat
  /\ r.run # None =>
       /\ r.run \in 0 .. n /\ D[r.run] \in Draws
       /\ \E made \in {Made(D[r.run], f)} :
            r.d = made[1] /\ r.N2 = made[2] /\ r.e2 = made[3] /\ r.N = made[4]

KeysFrom(D) ==
  /\ runs \in Nat /\ DOMAIN files = Files
  /\ \A f \in Files : files[f] = None \/ FileOf(files[f], f, D, runs)
  /\ maker = None \/ MakerOf(maker, files, D, runs)
  /\ my_rsa = None \/ RsaOf(my_rsa, "clientKeys", D, runs)
  /\ rsa = None \/ RsaOf(rsa, "serverKeys", D, runs)

KeysInv == \E D : KeysFrom(D)

\* The five lines of a file.
LEMMA MadeIs ==
  ASSUME NEW draw \in Draws, NEW f \in Files
  PROVE  /\ Made(draw, f) \in Seq(Nat) /\ Len(Made(draw, f)) = 5
         /\ Made(draw, f) = <<RSAKeyGen(draw[f]).d, RSAKeyGen(draw[Other[f]]).N,
                              RSAKeyGen(draw[Other[f]]).e, RSAKeyGen(draw[f]).N,
                              RSAKeyGen(draw[f]).e>>
<1> DEFINE own == RSAKeyGen(draw[f])
           other == RSAKeyGen(draw[Other[f]])
<1>1. Other[f] \in Files
  BY DEF Other, Files
<1>2. own.d \in Nat /\ own.N \in Nat /\ own.e \in Nat /\ other.N \in Nat /\ other.e \in Nat
  BY <1>1, KeyNumbers
<1>3. own = [N |-> own.N, e |-> own.e, d |-> own.d, N2 |-> 0, e2 |-> 0]
  BY DEF RSAKeyGen
<1> HIDE DEF own, other
<1>4. Lines(SetKeys(own, other)) = <<own.d, other.N, other.e, own.N, own.e>>
  BY <1>3 DEF Lines, SetKeys
<1> DEFINE s == <<own.d, other.N, other.e, own.N, own.e>>
<1>5. s \in Seq(Nat) /\ Len(s) = 5
  BY <1>2
<1>6. Made(draw, f) = s
  BY <1>4 DEF Made, own, other
<1> QED
  BY <1>5, <1>6 DEF own, other

\* Loading gives four numbers, and those of the run if the file has four lines.
LEMMA LoadKeysOf ==
  ASSUME NEW D, NEW n \in Nat, NEW f \in Files, NEW file, FileOf(file, f, D, n)
  PROVE  RsaOf(LoadKeys(file), f, D, n)
<1> DEFINE word(i) == IF file.lines = <<>> THEN 0 ELSE file.lines[Min({i, Len(file.lines)})]
           r == LoadKeys(file)
<1>1. /\ r.d = word(1) /\ r.N2 = word(2) /\ r.e2 = word(3) /\ r.N = word(4)
      /\ r.run = IF Len(file.lines) < 4 THEN None ELSE file.run
  BY DEF LoadKeys
<1>2. file.lines \in Seq(Nat) /\ Len(file.lines) \in Nat /\ file.run \in 0 .. n
  BY DEF FileOf
<1>3. ASSUME NEW i \in 1 .. 4
      PROVE  word(i) \in Nat /\ (Len(file.lines) >= 4 => word(i) = file.lines[i])
  <2> DEFINE k == Len(file.lines)
             l == Min({i, k})
  <2>1. l \in {i, k} /\ \A y \in {i, k} : l <= y
    <3>1. \E x \in {i, k} : \A y \in {i, k} : x <= y
      <4>1. CASE i <= k
        BY <1>2, <4>1
      <4>2. CASE i > k
        BY <1>2, <4>2
      <4> QED
        BY <1>2, <4>1, <4>2
    <3> QED
      BY <3>1 DEF Min
  <2> HIDE DEF l
  <2>2. CASE file.lines = <<>>
    BY <2>2
  <2>3. CASE file.lines # <<>>
    <3>1. k \in Nat \ {0}
      BY <1>2, <2>3
    <3>2. l \in 1 .. k /\ (k >= 4 => l = i)
      BY <2>1, <3>1
    <3>3. word(i) = file.lines[l]
      BY <2>3 DEF l
    <3> QED
      BY <1>2, <3>2, <3>3
  <2> QED
    BY <2>2, <2>3
<1> HIDE DEF word, r
<1>4. r.d \in Nat /\ r.N2 \in Nat /\ r.e2 \in Nat /\ r.N \in Nat
  BY <1>1, <1>3
<1>5. ASSUME r.run # None
      PROVE  /\ r.run \in 0 .. n /\ D[r.run] \in Draws
             /\ \E made \in {Made(D[r.run], f)} :
                  r.d = made[1] /\ r.N2 = made[2] /\ r.e2 = made[3] /\ r.N = made[4]
  <2>1. Len(file.lines) >= 4 /\ r.run = file.run
    BY <1>1, <1>2, <1>5
  <2>2. \A i \in 1 .. 4 : word(i) = Made(D[file.run], f)[i]
    <3>1. \A i \in 1 .. Len(file.lines) : file.lines[i] = Made(D[file.run], f)[i]
      BY DEF FileOf
    <3>2. ASSUME NEW i \in 1 .. 4 PROVE i \in 1 .. Len(file.lines) /\ word(i) = file.lines[i]
      BY <1>2, <1>3, <2>1
    <3> QED
      BY <3>1, <3>2
  <2> QED
    BY <1>1, <1>2, <2>1, <2>2 DEF FileOf
<1> QED
  BY <1>4, <1>5 DEF RsaOf, r

\* A file is still one of its run when more runs have begun, and so is what was
\* loaded.
LEMMA Later ==
  ASSUME NEW D, NEW E, NEW n \in Nat, NEW k \in Nat, n <= k, \A i \in 0 .. n : E[i] = D[i],
         NEW f
  PROVE  /\ \A file : FileOf(file, f, D, n) => FileOf(file, f, E, k)
         /\ \A r : RsaOf(r, f, D, n) => RsaOf(r, f, E, k)
<1>1. \A i \in 0 .. n : i \in 0 .. k
  OBVIOUS
<1>2. ASSUME NEW file, FileOf(file, f, D, n) PROVE FileOf(file, f, E, k)
  BY <1>1, <1>2 DEF FileOf
<1>3. ASSUME NEW r, RsaOf(r, f, D, n) PROVE RsaOf(r, f, E, k)
  BY <1>1, <1>3 DEF RsaOf
<1> QED
  BY <1>2, <1>3

\* No file, or those of an earlier run.
LEMMA InitKeys == KeysInit => KeysInv
<1> SUFFICES ASSUME KeysInit PROVE KeysInv
  OBVIOUS
<1>1. CASE files = [f \in Files |-> None]
  <2>1. KeysFrom(0)
    BY <1>1 DEF KeysInit, KeysFrom
  <2> QED
    BY <2>1 DEF KeysInv
<1>2. ASSUME NEW draw \in Draws, files = Written(draw, 0)
      PROVE  KeysInv
  <2> DEFINE D == [i \in 0 .. 0 |-> draw]
  <2>1. DOMAIN files = Files /\ runs = 0
    BY <1>2 DEF Written, KeysInit
  <2>2. ASSUME NEW f \in Files PROVE FileOf(files[f], f, D, 0)
    <3>1. Other[f] \in Files
      BY DEF Other, Files
    <3>2. files[f] = [run |-> 0, lines |-> Made(draw, f)]
      BY <1>2, <3>1 DEF Written, Made
    <3>3. Made(draw, f) \in Seq(Nat) /\ Len(Made(draw, f)) = 5
      BY MadeIs
    <3> DEFINE file == files[f]
    <3>4. file.run = 0 /\ file.lines = Made(draw, f) /\ file = [run |-> 0, lines |-> Made(draw, f)]
      BY <3>2
    <3>5. D[0] = draw /\ 0 \in 0 .. 0
      OBVIOUS
    <3> HIDE DEF file, D
    <3>6. file = [run |-> file.run, lines |-> file.lines] /\ D[file.run] = draw
          /\ file.run \in 0 .. 0 /\ file.lines \in Seq(Nat) /\ Len(file.lines) = 5
      BY <3>3, <3>4, <3>5
    <3>7. \A i \in 1 .. Len(file.lines) : file.lines[i] = Made(D[file.run], f)[i]
      BY <3>4, <3>6
    <3>8. FileOf(file, f, D, 0)
      BY <3>6, <3>7 DEF FileOf
    <3> QED
      BY <3>8 DEF file
  <2> HIDE DEF D
  <2>3. KeysFrom(D)
    BY <2>1, <2>2 DEF KeysFrom, KeysInit
  <2> QED
    BY <2>3 DEF KeysInv
<1> QED
  BY <1>1, <1>2 DEF KeysInit

\* A run of MakeKeys begins: D goes on.
LEMMA MakeKeysKeeps == ASSUME KeysInv, MakeKeys PROVE KeysInv'
<1>1. PICK D : KeysFrom(D)
  BY DEF KeysInv
<1>2. PICK draw \in Draws :
        maker' = [rsa |-> [f \in Files |-> SetKeys(RSAKeyGen(draw[f]), RSAKeyGen(draw[Other[f]]))],
                  todo |-> <<"clientKeys", "serverKeys">>, opened |-> FALSE]
  <2>1. \A f \in Files : Other[f] \in Files
    BY DEF Other, Files
  <2> QED
    BY <2>1 DEF MakeKeys
<1>3. runs \in Nat /\ runs' = runs + 1 /\ runs + 1 \in Nat /\ runs <= runs + 1
      /\ files' = files /\ my_rsa' = my_rsa /\ rsa' = rsa
  BY <1>1 DEF MakeKeys, KeysFrom
<1>4. PICK E : E[runs + 1] = draw /\ \A i \in 0 .. runs : E[i] = D[i]
  <2> DEFINE F == [i \in 0 .. runs + 1 |-> IF i = runs + 1 THEN draw ELSE D[i]]
  <2>1. F[runs + 1] = draw /\ \A i \in 0 .. runs : F[i] = D[i]
    BY <1>3
  <2> QED
    BY <2>1
<1>5. /\ \A f, file : FileOf(file, f, D, runs) => FileOf(file, f, E, runs + 1)
      /\ \A f, r : RsaOf(r, f, D, runs) => RsaOf(r, f, E, runs + 1)
  <2>1. ASSUME NEW f
        PROVE  /\ \A file : FileOf(file, f, D, runs) => FileOf(file, f, E, runs + 1)
               /\ \A r : RsaOf(r, f, D, runs) => RsaOf(r, f, E, runs + 1)
    BY <1>3, <1>4, Later
  <2> QED
    BY <2>1
<1>6. MakerOf(maker', files', E, runs + 1)
  <2> DEFINE m == maker'
  <2>1. \A f \in Files : m.rsa[f] = SetKeys(RSAKeyGen(draw[f]), RSAKeyGen(draw[Other[f]]))
    BY <1>2
  <2>2. /\ m.todo = <<"clientKeys", "serverKeys">> /\ m.opened = FALSE
        /\ m = [rsa |-> m.rsa, todo |-> m.todo, opened |-> m.opened]
    BY <1>2
  <2> HIDE DEF m
  <2>3. MakerOf(m, files', E, runs + 1)
    BY <1>4, <2>1, <2>2 DEF MakerOf, Made
  <2> QED
    BY <2>3 DEF m
<1>7. KeysFrom(E)'
  BY <1>1, <1>3, <1>5, <1>6 DEF KeysFrom
<1> QED
  BY <1>7 DEF KeysInv

\* The last four cases change neither runs nor what was loaded.
LEMMA FilesKeep ==
  ASSUME NEW D, KeysFrom(D), UNCHANGED <<runs, my_rsa, rsa>>, DOMAIN files' = Files,
         \A f \in Files : files'[f] = files[f] \/ FileOf(files'[f], f, D, runs),
         maker' = None \/ MakerOf(maker', files', D, runs)
  PROVE  KeysInv'
<1>1. KeysFrom(D)'
  BY DEF KeysFrom
<1> QED
  BY <1>1 DEF KeysInv

\* What MakeKeys saves are the lines of its run.
LEMMA SaveKeeps == ASSUME KeysInv, SaveOpens \/ SaveFails \/ SaveLine PROVE KeysInv'
<1>1. PICK D : KeysFrom(D)
  BY DEF KeysInv
<1>2. /\ runs \in Nat /\ maker # None /\ MakerOf(maker, files, D, runs) /\ UNCHANGED <<runs, my_rsa, rsa>>
      /\ DOMAIN files = Files /\ \A f \in Files : files[f] = None \/ FileOf(files[f], f, D, runs)
  BY <1>1 DEF KeysFrom, SaveOpens, SaveFails, SaveLine
<1> DEFINE name == Head(maker.todo)
<1>3. /\ name \in Files
      /\ Len(maker.todo) # 1 => Tail(maker.todo) = <<"serverKeys">>
  <2>1. maker.todo = <<"clientKeys", "serverKeys">> \/ maker.todo = <<"serverKeys">>
    BY <1>2 DEF MakerOf
  <2>2. CASE maker.todo = <<"clientKeys", "serverKeys">>
    BY <2>2 DEF Files
  <2>3. CASE maker.todo = <<"serverKeys">>
    BY <2>3 DEF Files
  <2> QED
    BY <2>1, <2>2, <2>3
<1> HIDE DEF name
<1>4. ASSUME FileDone PROVE maker' = None \/ MakerOf(maker', files', D, runs)
  <2>1. CASE Len(maker.todo) = 1
    BY <1>4, <2>1 DEF FileDone
  <2>2. CASE Len(maker.todo) # 1
    <3>1. maker' = [maker EXCEPT !.todo = Tail(maker.todo), !.opened = FALSE]
      BY <1>4, <2>2 DEF FileDone
    <3> DEFINE m == maker'
               old == maker
    <3>2. /\ m = [rsa |-> m.rsa, todo |-> m.todo, opened |-> m.opened]
          /\ m.rsa = old.rsa /\ m.todo = <<"serverKeys">> /\ m.opened = FALSE
      BY <1>2, <1>3, <2>2, <3>1 DEF MakerOf
    <3>3. D[runs] \in Draws /\ \A f \in Files : Lines(old.rsa[f]) = Made(D[runs], f)
      BY <1>2 DEF MakerOf
    <3> HIDE DEF m, old
    <3>4. MakerOf(m, files', D, runs)
      BY <3>2, <3>3 DEF MakerOf
    <3> QED
      BY <3>4 DEF m
  <2> QED
    BY <2>1, <2>2
<1>5. CASE SaveOpens
  <2>1. /\ files' = [files EXCEPT ![name] = [run |-> runs, lines |-> <<>>]]
        /\ maker' = [maker EXCEPT !.opened = TRUE]
    BY <1>5 DEF SaveOpens, name
  <2> DEFINE new == [run |-> runs, lines |-> <<>>]
  <2>2. /\ files'[name] = new /\ DOMAIN files' = Files
        /\ \A f \in Files : f # name => files'[f] = files[f]
    BY <1>2, <1>3, <2>1
  <2>3. FileOf(new, name, D, runs) /\ new.run = runs /\ Len(new.lines) < 5
    <3>1. new = [run |-> new.run, lines |-> new.lines] /\ new.run = runs /\ new.lines = <<>>
      OBVIOUS
    <3>2. runs \in 0 .. runs /\ D[runs] \in Draws
      BY <1>2 DEF MakerOf
    <3>3. <<>> \in Seq(Nat) /\ Len(<<>>) = 0
      OBVIOUS
    <3> HIDE DEF new
    <3> QED
      BY <3>1, <3>2, <3>3 DEF FileOf
  <2> HIDE DEF new
  <2> DEFINE m == maker'
             old == maker
  <2>4. /\ m = [rsa |-> m.rsa, todo |-> m.todo, opened |-> m.opened]
        /\ m.rsa = old.rsa /\ m.todo = old.todo /\ Head(m.todo) = name
    BY <1>2, <2>1 DEF MakerOf, name
  <2>5. /\ D[runs] \in Draws /\ \A f \in Files : Lines(old.rsa[f]) = Made(D[runs], f)
        /\ old.todo \in {<<"clientKeys", "serverKeys">>, <<"serverKeys">>}
    BY <1>2 DEF MakerOf
  <2> HIDE DEF m, old
  <2>6. MakerOf(m, files', D, runs)
    BY <2>2, <2>3, <2>4, <2>5 DEF MakerOf
  <2>7. \A f \in Files : files'[f] = files[f] \/ FileOf(files'[f], f, D, runs)
    BY <2>2, <2>3
  <2>8. maker' = None \/ MakerOf(maker', files', D, runs)
    BY <2>6 DEF m
  <2> QED
    BY <1>1, <1>2, <2>2, <2>7, <2>8, FilesKeep
<1>6. CASE SaveFails
  <2>1. FileDone /\ files' = files
    BY <1>6 DEF SaveFails
  <2>2. maker' = None \/ MakerOf(maker', files', D, runs)
    BY <1>4, <2>1
  <2> QED
    BY <1>1, <1>2, <2>1, <2>2, FilesKeep
<1>7. CASE SaveLine
  <2> DEFINE file == files[name]
             s == file.lines
             line == Len(s) + 1
             m == Made(D[runs], name)
             new == [run |-> runs, lines |-> Append(s, m[line])]
  <2>1. FileOf(file, name, D, runs) /\ file.run = runs /\ Len(s) < 5
    BY <1>2, <1>7 DEF SaveLine, MakerOf, name
  <2>2. /\ files' = [files EXCEPT ![name].lines = Append(@, Lines(maker.rsa[name])[line])]
        /\ IF line = 5 THEN FileDone ELSE UNCHANGED maker
    BY <1>7 DEF SaveLine, name
  <2>3. /\ s \in Seq(Nat) /\ Len(s) \in Nat /\ D[runs] \in Draws
        /\ \A i \in 1 .. Len(s) : s[i] = m[i]
    BY <2>1 DEF FileOf
  <2>4. m \in Seq(Nat) /\ Len(m) = 5
    BY <1>3, <2>3, MadeIs
  <2>5. /\ files'[name] = new /\ DOMAIN files' = Files
        /\ \A f \in Files : f # name => files'[f] = files[f]
    <3>1. Lines(maker.rsa[name]) = m
      BY <1>2, <1>3 DEF MakerOf
    <3>2. file = [run |-> runs, lines |-> s]
      BY <2>1 DEF FileOf
    <3> DEFINE last == m[line]
    <3>3. Lines(maker.rsa[name])[line] = last
      BY <3>1
    <3> HIDE DEF m, line, last
    <3>4. files' = [files EXCEPT ![name].lines = Append(@, last)]
      BY <2>2, <3>3
    <3>5. /\ files'[name] = [file EXCEPT !.lines = Append(s, last)]
          /\ DOMAIN files' = Files /\ \A f \in Files : f # name => files'[f] = files[f]
      BY <1>2, <1>3, <3>4
    <3> HIDE DEF file, s
    <3>6. [file EXCEPT !.lines = Append(s, last)] = [run |-> runs, lines |-> Append(s, last)]
      BY <3>2
    <3> QED
      BY <3>5, <3>6 DEF last
  <2>6. FileOf(new, name, D, runs) /\ new.run = runs /\ Len(new.lines) = line
    <3> HIDE DEF m, s
    <3> DEFINE k == line
    <3>1. m[line] \in Nat
      <4>1. line \in 1 .. Len(m)
        BY <2>1, <2>3, <2>4
      <4> HIDE DEF line
      <4> QED
        BY <2>4, <4>1, ElementOfSeq
    <3> DEFINE last == m[line]
               longer == Append(s, last)
    <3>2. longer \in Seq(Nat) /\ Len(longer) = line /\ line <= 5
      BY <2>1, <2>3, <3>1
    <3>3. \A i \in 1 .. line : longer[i] = m[i]
      BY <2>3, <3>1
    <3>4. new = [run |-> new.run, lines |-> new.lines] /\ new.run = runs /\ new.lines = longer
      OBVIOUS
    <3>5. runs \in 0 .. runs
      BY <1>2
    <3> HIDE DEF new, longer, last, line
    <3>6. \A i \in 1 .. Len(new.lines) : new.lines[i] = Made(D[new.run], name)[i]
      BY <3>2, <3>3, <3>4 DEF m
    <3> QED
      BY <2>3, <3>2, <3>4, <3>5, <3>6 DEF FileOf
  <2> HIDE DEF new, m, s, line
  <2>7. maker' = None \/ MakerOf(maker', files', D, runs)
    <3>1. CASE line = 5
      BY <1>4, <2>2, <3>1
    <3>2. CASE line # 5
      <4>1. maker' = maker
        BY <2>2, <3>2
      <4>2. files'[name].run = runs /\ Len(files'[name].lines) < 5
            /\ FileOf(files'[name], name, D, runs)
        BY <2>1, <2>3, <2>5, <2>6, <3>2 DEF line
      <4>3. MakerOf(maker, files', D, runs)
        BY <1>2, <4>2 DEF MakerOf, name
      <4> QED
        BY <4>1, <4>3
    <3> QED
      BY <3>1, <3>2
  <2>8. \A f \in Files : files'[f] = files[f] \/ FileOf(files'[f], f, D, runs)
    BY <2>5, <2>6
  <2> QED
    BY <1>1, <1>2, <2>5, <2>7, <2>8, FilesKeep
<1> QED
  BY <1>5, <1>6, <1>7

\* What the two programs load.
LEMMA LoadKeeps == ASSUME KeysInv, AtmLoads \/ BankLoads PROVE KeysInv'
<1>1. PICK D : KeysFrom(D)
  BY DEF KeysInv
<1>2. "clientKeys" \in Files /\ "serverKeys" \in Files /\ runs \in Nat
  BY <1>1 DEF Files, KeysFrom
<1>3. CASE AtmLoads
  <2>1. FileOf(files["clientKeys"], "clientKeys", D, runs) /\ my_rsa' = LoadKeys(files["clientKeys"])
    BY <1>1, <1>2, <1>3 DEF AtmLoads, KeysFrom
  <2>2. RsaOf(my_rsa', "clientKeys", D, runs)
    BY <1>2, <2>1, LoadKeysOf
  <2>3. KeysFrom(D)'
    BY <1>1, <1>3, <2>2 DEF AtmLoads, KeysFrom
  <2> QED
    BY <2>3 DEF KeysInv
<1>4. CASE BankLoads
  <2>1. FileOf(files["serverKeys"], "serverKeys", D, runs) /\ rsa' = LoadKeys(files["serverKeys"])
    BY <1>1, <1>2, <1>4 DEF BankLoads, KeysFrom
  <2>2. RsaOf(rsa', "serverKeys", D, runs)
    BY <1>2, <2>1, LoadKeysOf
  <2>3. KeysFrom(D)'
    BY <1>1, <1>4, <2>2 DEF BankLoads, KeysFrom
  <2> QED
    BY <2>3 DEF KeysInv
<1> QED
  BY <1>3, <1>4

\* The keys of every session come from the files.
LEMMA KeysStep == KeysInv /\ [Next]_vars => KeysInv'
<1> SUFFICES ASSUME KeysInv, [Next]_vars PROVE KeysInv'
  OBVIOUS
<1>1. CASE UNCHANGED keyVars
  <2>1. PICK D : KeysFrom(D)
    BY DEF KeysInv
  <2>2. UNCHANGED <<files, runs, maker, my_rsa, rsa>>
    BY <1>1 DEF keyVars
  <2>3. KeysFrom(D)'
    BY <2>1, <2>2 DEF KeysFrom
  <2> QED
    BY <2>3 DEF KeysInv
<1>2. CASE LoadKeysStep
  BY <1>2, LoadKeeps DEF LoadKeysStep
<1>3. CASE MakeKeysStep
  BY <1>3, MakeKeysKeeps, SaveKeeps DEF MakeKeysStep, MakerStep
<1> QED
  BY <1>1, <1>2, <1>3 DEF Next, vars, NoKeyFile, HelloAborts, Hello, ClientOffers, ServerAborts,
     ServerAnswers, ClientAborts, ClientFinishes, Terminating

LEMMA KeysInvariant == Spec => []KeysInv
<1>1. Init => KeysInv
  BY InitKeys DEF Init
<1> QED
  BY <1>1, KeysStep, PTL DEF Spec

\* Both programs have read a whole file, and one run wrote both.
SameRun == None \notin {my_rsa.run, rsa.run} /\ my_rsa.run = rsa.run

Trust == Undoes(my_rsa, rsa) /\ Undoes(rsa, my_rsa)

\* The numbers that a program has read are numbers.
LEMMA LoadedNumbers ==
  ASSUME KeysInv, None \notin {my_rsa, rsa}
  PROVE  Numbers(my_rsa) /\ Numbers(rsa)
<1>1. PICK D : KeysFrom(D)
  BY DEF KeysInv
<1> QED
  BY <1>1 DEF KeysFrom, RsaOf, Numbers

\* Keys of one run belong together.
LEMMA FreshKeys ==
  ASSUME KeysInv, None \notin {my_rsa, rsa}, SameRun, \A draw \in Draws : Regular(draw)
  PROVE  /\ Trust
         /\ my_rsa.N2 = rsa.N /\ rsa.N2 = my_rsa.N
         /\ \E draw \in Draws : /\ my_rsa.N = draw["clientKeys"].p * draw["clientKeys"].q
                                /\ rsa.N = draw["serverKeys"].p * draw["serverKeys"].q
         /\ my_rsa.N # 0 /\ rsa.N # 0
<1>1. PICK D : KeysFrom(D)
  BY DEF KeysInv
<1> DEFINE draw == D[my_rsa.run]
           ours == RSAKeyGen(draw["clientKeys"])
           theirs == RSAKeyGen(draw["serverKeys"])
           mine == Made(draw, "clientKeys")
           others == Made(draw, "serverKeys")
<1>2. /\ draw \in Draws
      /\ my_rsa.d = mine[1] /\ my_rsa.N2 = mine[2] /\ my_rsa.e2 = mine[3] /\ my_rsa.N = mine[4]
      /\ rsa.d = others[1] /\ rsa.N2 = others[2] /\ rsa.e2 = others[3] /\ rsa.N = others[4]
  BY <1>1 DEF KeysFrom, RsaOf, SameRun
<1>3. "clientKeys" \in Files /\ "serverKeys" \in Files
      /\ Other["clientKeys"] = "serverKeys" /\ Other["serverKeys"] = "clientKeys"
  BY DEF Files, Other
<1> HIDE DEF draw
<1>4. /\ mine = <<ours.d, theirs.N, theirs.e, ours.N, ours.e>>
      /\ others = <<theirs.d, ours.N, ours.e, theirs.N, theirs.e>>
  <2> HIDE DEF mine, others, ours, theirs
  <2>1. mine = <<RSAKeyGen(draw["clientKeys"]).d, RSAKeyGen(draw[Other["clientKeys"]]).N,
                 RSAKeyGen(draw[Other["clientKeys"]]).e, RSAKeyGen(draw["clientKeys"]).N,
                 RSAKeyGen(draw["clientKeys"]).e>>
    BY <1>2, <1>3, MadeIs DEF mine
  <2>2. others = <<RSAKeyGen(draw["serverKeys"]).d, RSAKeyGen(draw[Other["serverKeys"]]).N,
                   RSAKeyGen(draw[Other["serverKeys"]]).e, RSAKeyGen(draw["serverKeys"]).N,
                   RSAKeyGen(draw["serverKeys"]).e>>
    BY <1>2, <1>3, MadeIs DEF others
  <2> QED
    BY <1>3, <2>1, <2>2 DEF ours, theirs
<1>5. Regular(draw)
  BY <1>2
<1>6. /\ ours.N \in Nat \ {0} /\ theirs.N \in Nat \ {0}
      /\ \A m \in 0 .. ours.N - 1 : PowMod(PowMod(m, ours.e, ours.N), ours.d, ours.N) = m
      /\ \A m \in 0 .. theirs.N - 1 : PowMod(PowMod(m, theirs.e, theirs.N), theirs.d, theirs.N) = m
  BY <1>2, <1>3, <1>5, KeyNumbers, KeyUndoes
<1>7. /\ ours.N = draw["clientKeys"].p * draw["clientKeys"].q
      /\ theirs.N = draw["serverKeys"].p * draw["serverKeys"].q
  BY DEF RSAKeyGen
<1> HIDE DEF mine, others, ours, theirs
<1>8. /\ my_rsa.d = ours.d /\ my_rsa.N2 = theirs.N /\ my_rsa.e2 = theirs.e /\ my_rsa.N = ours.N
      /\ rsa.d = theirs.d /\ rsa.N2 = ours.N /\ rsa.e2 = ours.e /\ rsa.N = theirs.N
  BY <1>2, <1>4
<1>9. Undoes(my_rsa, rsa)
  BY <1>6, <1>8 DEF Undoes
<1>10. Undoes(rsa, my_rsa)
  BY <1>6, <1>8 DEF Undoes
<1> QED
  BY <1>2, <1>6, <1>7, <1>8, <1>9, <1>10 DEF Trust

\* The HELLOs of both sides get through.
LEMMA HelloComesBack ==
  ASSUME KeysInv, None \notin {my_rsa, rsa}, SameRun, \A draw \in Draws : Regular(draw), HelloFits
  PROVE  HelloArrives(my_rsa, rsa) /\ HelloArrives(rsa, my_rsa) /\ ~NoModulus
<1>1. Numbers(my_rsa) /\ Numbers(rsa)
  BY LoadedNumbers
<1>2. /\ Trust /\ my_rsa.N2 = rsa.N /\ rsa.N2 = my_rsa.N /\ my_rsa.N # 0 /\ rsa.N # 0
      /\ \E draw \in Draws : /\ my_rsa.N = draw["clientKeys"].p * draw["clientKeys"].q
                             /\ rsa.N = draw["serverKeys"].p * draw["serverKeys"].q
  BY FreshKeys
<1>3. Fits(HELLO, my_rsa.N) /\ Fits(HELLO, rsa.N)
  BY <1>2 DEF HelloFits, Files
<1>4. Len(HELLO) \in Nat \ {0} /\ HELLO \in [1 .. Len(HELLO) -> 0 .. B - 1]
  <2> DEFINE Ds == 0 .. B - 1
  <2>1. HELLO \in Seq(Ds) /\ HELLO # <<>>
    BY KeyExchangeAssumption
  <2> HIDE DEF Ds
  <2>2. Len(HELLO) \in Nat \ {0} /\ HELLO \in [1 .. Len(HELLO) -> Ds]
    BY <2>1, EmptySeq, LenProperties
  <2> QED
    BY <2>2 DEF Ds
<1>5. Carries(HELLO, my_rsa, rsa)
  BY <1>1, <1>2, <1>3, <1>4, RsaCarries DEF Trust
<1>6. Carries(HELLO, rsa, my_rsa)
  BY <1>1, <1>2, <1>3, <1>4, RsaCarries DEF Trust
<1> QED
  BY <1>2, <1>5, <1>6 DEF Carries, HelloArrives, NoModulus

\* None is none of the records of the model.
NoneIsApart ==
  \A r, h, a : None # [hmac |-> h, aes |-> a] /\ None # [read |-> r, hmac |-> h, aes |-> a]

\* What there is at which point of the exchange.
PointInv ==
  /\ pc \notin {"load", "exited"} => None \notin {my_rsa, rsa}
  /\ pc = "start" \/ client # None => pc \notin {"load", "exited"} /\ ~NoModulus
  /\ pc \in {"answered", "done"} => server # None
  /\ pc = "aborted" /\ client # None /\ Reads => server # None

LEMMA PointStep ==
  ASSUME NoneIsApart, ExchangeInv, PointInv, [Next]_vars
  PROVE  PointInv'
<1>1. CASE LoadKeysStep \/ NoKeyFile \/ MakeKeysStep \/ HelloAborts \/ Hello
  <2>1. Before' /\ client' = None
    BY <1>1, BeforeKeeps DEF Before
  <2>2. CASE LoadKeysStep
    BY <2>1, <2>2 DEF LoadKeysStep, PointInv
  <2>3. CASE NoKeyFile
    BY <2>1, <2>3 DEF NoKeyFile, PointInv
  <2>4. CASE MakeKeysStep
    BY <2>1, <2>4 DEF MakeKeysStep, PointInv
  <2>5. CASE HelloAborts
    BY <2>1, <2>5 DEF HelloAborts, PointInv, keyVars
  <2>6. CASE Hello
    <3>1. NoModulus' <=> NoModulus
      BY <2>6 DEF Hello, NoModulus, keyVars
    <3> QED
      BY <2>1, <2>6, <3>1 DEF Hello, PointInv, keyVars
  <2> QED
    BY <1>1, <2>2, <2>3, <2>4, <2>5, <2>6
<1>2. CASE ClientOffers
  <2>1. UNCHANGED <<nrsa, my_rsa, rsa>> /\ pc = "start" /\ pc' = "offered"
    BY <1>2 DEF ClientOffers, keyVars
  <2>2. NoModulus' <=> NoModulus
    BY <2>1 DEF NoModulus
  <2> QED
    BY <2>1, <2>2 DEF PointInv
<1>3. CASE ServerAborts \/ ServerAnswers \/ ClientAborts \/ ClientFinishes
  <2>1. PICK h, a \in Side : During(h, a)
    BY <1>3, DuringIs
  <2>2. UNCHANGED <<nrsa, client, my_rsa, rsa>> /\ ClientIs(h, a)
    BY <1>3, <2>1, DuringIs DEF During
  <2>3. client # None /\ pc \notin {"load", "exited"}
    BY <2>1, <2>2 DEF NoneIsApart, ClientIs, During
  <2>4. (NoModulus' <=> NoModulus) /\ (Reads' <=> Reads)
    BY <2>2, SameCarries DEF NoModulus
  <2>5. CASE ServerAborts
    <3>1. ~Reads /\ pc' = "aborted"
      BY <2>1, <2>5, OfferIsRead DEF During, ServerAborts
    <3> QED
      BY <2>2, <2>3, <2>4, <3>1 DEF PointInv
  <2>6. CASE ServerAnswers
    <3>1. server' # None /\ pc' = "answered"
      BY <2>6 DEF ServerAnswers, NoneIsApart
    <3> QED
      BY <2>2, <2>3, <2>4, <3>1 DEF PointInv
  <2>7. CASE ClientAborts
    <3>1. server' = server /\ pc = "answered" /\ pc' = "aborted"
      BY <2>7 DEF ClientAborts, exchange
    <3> QED
      BY <2>2, <2>3, <2>4, <3>1 DEF PointInv
  <2>8. CASE ClientFinishes
    <3>1. server' = server /\ pc = "answered" /\ pc' = "done"
      BY <2>8 DEF ClientFinishes
    <3> QED
      BY <2>2, <2>3, <2>4, <3>1 DEF PointInv
  <2> QED
    BY <1>3, <2>5, <2>6, <2>7, <2>8
<1>4. CASE Terminating \/ UNCHANGED vars
  <2>1. UNCHANGED <<pc, nrsa, client, server, my_rsa, rsa>>
    BY <1>4 DEF Terminating, vars, exchange, keyVars
  <2>2. (NoModulus' <=> NoModulus) /\ (Reads' <=> Reads)
    BY <2>1, SameCarries DEF NoModulus
  <2> QED
    BY <2>1, <2>2 DEF PointInv
<1> QED
  BY <1>1, <1>2, <1>3, <1>4 DEF Next

LEMMA PointInvariant == ASSUME NoneIsApart PROVE Spec => [](ExchangeInv /\ KeysInv /\ PointInv)
<1>1. Init => PointInv
  BY DEF Init, PointInv
<1>2. ExchangeInv /\ PointInv /\ [Next]_vars => PointInv'
  BY PointStep
<1> QED
  BY <1>1, <1>2, ExchangeInvariant, KeysInvariant, PTL DEF Spec

\* Keys that undo each other carry an exchange that fits.
LEMMA TrustAgrees ==
  ASSUME NoneIsApart, ExchangeInv, KeysInv, PointInv, client # None => nrsa \/ Trust
  PROVE  FittingExchangeAgrees
<1> SUFFICES ASSUME client # None, \A i \in 1 .. 3 : Fits(Offered(client)[i], rsa.N),
                    server # None => Fits(Replied, my_rsa.N)
             PROVE  pc # "aborted" /\ (pc = "done" => ckeys = skeys)
  BY DEF FittingExchangeAgrees, Replied
<1>1. PICK h, a \in Side : During(h, a)
  BY DEF ExchangeInv, Before
<1>2. /\ h.p \in Primes /\ h.g \in Primes /\ h.x \in Primes
      /\ a.p \in Primes /\ a.g \in Primes /\ a.x \in Primes
      /\ Offered(client) = <<Keyhalf(h.p, h.g, h.x) \o String(h.p),
                             String(h.g) \o Keyhalf(a.p, a.g, a.x),
                             String(a.p) \o String(a.g)>>
  BY <1>1, OfferedAre DEF During
<1>3. Numbers(my_rsa) /\ Numbers(rsa)
  BY LoadedNumbers DEF PointInv
<1>4. ~nrsa => my_rsa.N # 0 /\ my_rsa.N2 # 0 /\ rsa.N # 0 /\ rsa.N2 # 0
  BY DEF PointInv, NoModulus
<1>5. CASE nrsa
  <2>1. Reads /\ Replies
    BY <1>5 DEF Reads, Replies, Carries, RSAgetmessage, RSAgetcryptotext
  <2> QED
    BY <1>1, <2>1 DEF During
<1>6. CASE ~nrsa
  <2>1. Reads
    <3> DEFINE D == 0 .. B - 1
    <3>1. /\ Offered(client)[1] \in [1 .. 2 * W -> D]
          /\ Offered(client)[2] \in [1 .. 2 * W -> D]
          /\ Offered(client)[3] \in [1 .. 2 * W -> D]
          /\ 2 * W \in Nat \ {0}
      <4>1. /\ Keyhalf(h.p, h.g, h.x) \in [1 .. W -> D] /\ String(h.p) \in [1 .. W -> D]
            /\ Keyhalf(a.p, a.g, a.x) \in [1 .. W -> D] /\ String(a.p) \in [1 .. W -> D]
            /\ String(h.g) \in [1 .. W -> D] /\ String(a.g) \in [1 .. W -> D]
        BY <1>2, FieldsBelow
      <4>2. /\ Keyhalf(h.p, h.g, h.x) \o String(h.p) \in [1 .. 2 * W -> D]
            /\ String(h.g) \o Keyhalf(a.p, a.g, a.x) \in [1 .. 2 * W -> D]
            /\ String(a.p) \o String(a.g) \in [1 .. 2 * W -> D]
            /\ 2 * W \in Nat \ {0}
        BY <4>1, GluedBelow
      <4> HIDE DEF D
      <4> QED
        BY <1>2, <4>2
    <3>2. \A i \in 1 .. 3 : Offered(client)[i] \in [1 .. 2 * W -> D]
      <4>1. \A i \in 1 .. 3 : i = 1 \/ i = 2 \/ i = 3
        OBVIOUS
      <4> QED
        BY <3>1, <4>1
    <3>3. \A i \in 1 .. 3 : Carries(Offered(client)[i], my_rsa, rsa)
      BY <1>3, <1>4, <1>6, <3>1, <3>2, RsaCarries DEF Trust
    <3> QED
      BY <3>3 DEF Reads
  <2>2. CASE pc = "offered"
    BY <2>2
  <2>3. CASE pc # "offered"
    <3>1. PICK y, z \in Primes : AnswerOf(h, a, y, z)
      BY <1>1, <2>1, <2>3 DEF During
    <3>2. server # None
      BY <1>1, <2>1, <2>3 DEF PointInv, During
    <3>3. 2 * W \in Nat \ {0} /\ Replied \in [1 .. 2 * W -> 0 .. B - 1]
      <4>1. /\ Keyhalf(h.p, h.g, y) \in [1 .. W -> 0 .. B - 1]
            /\ Keyhalf(a.p, a.g, z) \in [1 .. W -> 0 .. B - 1]
        BY <1>2, FieldsBelow
      <4>2. Replied = Keyhalf(h.p, h.g, y) \o Keyhalf(a.p, a.g, z)
        BY <3>1 DEF AnswerOf, Replied
      <4> QED
        BY <4>1, <4>2, GluedBelow
    <3>4. Fits(Replied, my_rsa.N)
      BY <3>2
    <3>5. Replies
      BY <1>3, <1>4, <1>6, <3>3, <3>4, RsaCarries DEF Trust, Replies
    <3> QED
      BY <1>1, <2>1, <3>5 DEF During
  <2> QED
    BY <2>2, <2>3
<1> QED
  BY <1>5, <1>6
-----------------------------------------------------------------------------
(***************************************************************************)
(* Keys that one run of MakeKeys has written, and that both programs have  *)
(* read in full, get through the HELLOs, however often MakeKeys has run    *)
(* before and whatever it writes in between, if it draws two different     *)
(* primes for each side and an exponent less than their toitent, and the   *)
(* HELLO is less than every modulus (MakeKeys.cpp:29-33, RSA.cpp:32-89).   *)
(***************************************************************************)
THEOREM FreshKeysPassHello ==
  ASSUME NoneIsApart, HelloFits, \A draw \in Draws : Regular(draw)
  PROVE  Spec => []FreshKeysMeet
<1>1. Init => FreshKeysMeet
  BY DEF Init, FreshKeysMeet
<1>2. ExchangeInv /\ KeysInv /\ PointInv /\ FreshKeysMeet /\ [Next]_vars => FreshKeysMeet'
  <2> SUFFICES ASSUME ExchangeInv, KeysInv, PointInv, FreshKeysMeet, [Next]_vars,
                      pc' \in {"refused", "aborted"}, client' = None
               PROVE  ~SameRun'
    BY DEF FreshKeysMeet, SameRun
  <2>1. CASE HelloAborts \/ Hello
    <3>1. None \notin {my_rsa, rsa}
      BY <2>1 DEF PointInv, HelloAborts, Hello
    <3>2. ~SameRun
      BY <2>1, <3>1, HelloComesBack DEF HelloAborts, Hello
    <3> QED
      BY <2>1, <3>2 DEF HelloAborts, Hello, SameRun, keyVars
  <2>2. CASE ServerAborts \/ ClientAborts
    <3>1. PICK h, a \in Side : During(h, a)
      BY <2>2, DuringIs
    <3>2. client' = client
      BY <2>2, DuringIs
    <3> QED
      BY <3>1, <3>2 DEF During, ClientIs, NoneIsApart
  <2>3. CASE Terminating \/ UNCHANGED vars
    BY <2>3 DEF Terminating, vars, exchange, keyVars, FreshKeysMeet, SameRun
  <2>4. CASE LoadKeysStep \/ NoKeyFile \/ MakeKeysStep \/ ClientOffers \/ ServerAnswers \/ ClientFinishes
    BY <2>4 DEF LoadKeysStep, NoKeyFile, MakeKeysStep, ClientOffers, ServerAnswers, ClientFinishes,
                ExchangeInv, Before, During
  <2> QED
    BY <2>1, <2>2, <2>3, <2>4 DEF Next
<1> QED
  BY <1>1, <1>2, PointInvariant, PTL DEF Spec

(***************************************************************************)
(* And with such keys every exchange whose plaintexts fit under the moduli *)
(* gives both sides the same keys (RSA.cpp:64-89, KeyGeneration.cpp).      *)
(***************************************************************************)
THEOREM FreshKeysAgree ==
  ASSUME NoneIsApart, \A draw \in Draws : Regular(draw)
  PROVE  Spec => [](SameRun => FittingExchangeAgrees)
<1>1. ExchangeInv /\ KeysInv /\ PointInv => (SameRun => FittingExchangeAgrees)
  <2> SUFFICES ASSUME ExchangeInv, KeysInv, PointInv, SameRun PROVE FittingExchangeAgrees
    OBVIOUS
  <2>1. client # None => Trust
    BY FreshKeys DEF PointInv
  <2> QED
    BY <2>1, TrustAgrees
<1> QED
  BY <1>1, PointInvariant, PTL

(***************************************************************************)
(* Whatever keys the two sides have loaded, of one run or of several or    *)
(* half written: if a HELLO that arrives vouches for them, every exchange  *)
(* that fits gives both sides the same keys (bank.cpp:110-114,             *)
(* client.cpp:109-112).                                                    *)
(***************************************************************************)
THEOREM VouchedKeysAgree ==
  ASSUME NoneIsApart
  PROVE  Spec /\ []HelloVouches => []FittingExchangeAgrees
<1> DEFINE Vouched == client # None => nrsa \/ Trust
<1>1. Init => Vouched
  BY DEF Init
<1>2. ExchangeInv /\ PointInv /\ HelloVouches /\ Vouched /\ [Next]_vars => Vouched'
  <2> SUFFICES ASSUME ExchangeInv, PointInv, HelloVouches, Vouched, [Next]_vars
               PROVE  Vouched'
    OBVIOUS
  <2>1. CASE LoadKeysStep \/ NoKeyFile \/ MakeKeysStep \/ HelloAborts \/ Hello
    BY <2>1, BeforeKeeps DEF Before
  <2>2. CASE ClientOffers
    <3>1. nrsa \/ Trust
      BY <2>2 DEF ClientOffers, HelloVouches, Trust
    <3>2. UNCHANGED <<nrsa, my_rsa, rsa>>
      BY <2>2 DEF ClientOffers, keyVars
    <3> QED
      BY <3>1, <3>2 DEF Trust, Undoes
  <2>3. CASE ServerAborts \/ ServerAnswers \/ ClientAborts \/ ClientFinishes
    BY <2>3, DuringIs DEF Trust, Undoes
  <2>4. CASE Terminating \/ UNCHANGED vars
    BY <2>4 DEF Terminating, vars, exchange, keyVars, Trust, Undoes
  <2> QED
    BY <2>1, <2>2, <2>3, <2>4 DEF Next
<1>3. ExchangeInv /\ KeysInv /\ PointInv /\ Vouched => FittingExchangeAgrees
  BY TrustAgrees
<1> HIDE DEF Vouched
<1> QED
  BY <1>1, <1>2, <1>3, PointInvariant, PTL DEF Spec
=============================================================================
