---------------------------- MODULE KeyExchange -----------------------------
(***************************************************************************)
(* The key exchange of one session: two Diffie-Hellman exchanges, one for  *)
(* the MAC key and one for the AES key and IV, whose numbers travel as     *)
(* decimal strings glued together in pairs, each pair encrypted with the   *)
(* other side's RSA key unless the build is NRSA.  The RSA keys are loaded *)
(* from the files of RsaKeys, and a HELLO each way tries them out.         *)
(*                                                                         *)
(* A string of digits is a sequence of 0 .. B-1, the code's base 10 with   *)
(* 128-digit primes being B = 10, W = 128.                                 *)
(***************************************************************************)
EXTENDS RsaKeys

CONSTANTS B,           \* KeyGen::base
          W,           \* KeyGen::diffiekeyhalfsize
          OCTAL,       \* the base a leading zero stands for in mpz_class(string): 8
          Primes,      \* what getRandPrime() may return
          MinKey,      \* the least number whose bytes fill an aes::Key or IV
          HELLO,       \* ssh::HELLO_MSG
          Modes        \* the values of nrsa

\* B to the power of k.
Power(k) ==
  LET power[i \in 0 .. k] == IF i = 0 THEN 1 ELSE B * power[i - 1]
  IN  power[k]

ASSUME KeyExchangeAssumption ==
  /\ B \in Nat \ {0, 1} /\ W \in Nat \ {0} /\ OCTAL \in 1 .. B
  /\ Primes \subseteq Power(W - 1) .. Power(W) - 1
  /\ MinKey \in Nat
  /\ HELLO \in Seq(0 .. B - 1) \ {<<>>}
  /\ Modes \subseteq BOOLEAN

VARIABLES pc,        \* how far the exchange has come
          nrsa,      \* both programs are built with -D NRSA
          client,    \* the vectors hmac_keys and aes_keys of ClientDiffieKeys
          offer,     \* CLIENT_KEYEX: three encrypted strings
          server,    \* what ServerDiffieKeys read, drew and computed
          answer,    \* SERVER_KEYEX: one encrypted string
          ckeys,     \* the ATM's Keys
          skeys      \* the bank's Keys

exchange == <<client, offer, server, answer, ckeys, skeys>>
vars == <<pc, nrsa, exchange, keyVars>>
-----------------------------------------------------------------------------
\* mpz_set_str; an empty string leaves the initial 0.
NumberIn(base, s) ==
  LET value[i \in 0 .. Len(s)] == IF i = 0 THEN 0 ELSE base * value[i - 1] + s[i]
  IN  value[Len(s)]

Number(s) == NumberIn(B, s)

\* The digits of n in k places, and how many places it takes.
Digits(n, k) == [i \in 1 .. k |-> (n \div Power(k - i)) % B]
Places(n) == CHOOSE k \in 1 .. n + 1 : n < Power(k) /\ (k = 1 \/ Power(k - 1) <= n)

\* mpz_class::get_str: no leading zeros.
String(n) == Digits(n, Places(n))

\* Faulty: no padding.
PaddedNot(s, width) == s

\* The two nested appendzero loops.
Padded(s, width) ==
  IF Len(s) >= width THEN s
  ELSE [i \in 1 .. width |-> IF i + Len(s) <= width THEN 0 ELSE s[i + Len(s) - width]]

\* Faulty: the second half begins a digit early.
RestEarly(s, n) == SubSeq(s, n, Len(s))

\* std::string::substr; from a position behind the end the second one throws.
First(s, n) == IF Len(s) <= n THEN s ELSE SubSeq(s, 1, n)
Rest(s, n) == SubSeq(s, n + 1, Len(s))
Throws(s, n) == Len(s) < n

\* mpz_class(s) guesses the base: a leading zero means octal.  It throws on an
\* empty string and on a digit that the base lacks.
Parse(s) == NumberIn(IF s[1] = 0 THEN OCTAL ELSE B, s)
ParseThrows(s) == s = <<>> \/ \E i \in DOMAIN s : s[1] = 0 /\ s[i] >= OCTAL

RSAgetcryptotext(s, r) ==
  IF nrsa THEN s ELSE Padded(String(PowMod(Number(s), r.e2, r.N2)), 2 * W)

RSAgetmessage(s, r) ==
  IF nrsa THEN s ELSE String(PowMod(Number(s), r.d, r.N))
-----------------------------------------------------------------------------
Keyhalf(p, g, pkb) == Padded(String(PowMod(g, pkb, p)), W)

CreateKeyhalf_client(p, g, pkb) ==
  [half |-> Keyhalf(p, g, pkb), p |-> String(p), g |-> String(g), priv |-> String(pkb)]

\* The half is computed from p and g in base 10, the two that are kept are
\* parsed again.
CreateKeyhalf_server(p, g, pkb) ==
  [half |-> Keyhalf(Number(p), Number(g), pkb),
   p |-> String(Parse(p)), g |-> String(Parse(g)), priv |-> String(pkb)]

GetSharedKey(keys, otherHalf) ==
  Padded(String(PowMod(Number(otherHalf), Number(keys.priv), Number(keys.p))), W)

\* ssh::genKeys: None where it returns -1, when aes::fill_key or aes::fill_iv
\* has fewer bytes than it needs.
GenKeys(hmacShared, aesShared) ==
  LET key == Number(First(aesShared, W \div 2))
      iv == Number(Rest(aesShared, W \div 2))
  IN  IF key < MinKey \/ iv < MinKey THEN None
      ELSE [hmac |-> First(hmacShared, W \div 2), aes |-> key, iv |-> iv]
-----------------------------------------------------------------------------
Init ==
  /\ KeysInit
  /\ pc = "load" /\ nrsa \in Modes
  /\ client = None /\ offer = None /\ server = None /\ answer = None
  /\ ckeys = None /\ skeys = None

\* The session can begin once both programs have their keys.  MakeKeys may go
\* on, but nothing reads the files again.
LoadKeysStep ==
  /\ pc = "load"
  /\ AtmLoads \/ BankLoads
  /\ pc' = IF None \in {my_rsa', rsa'} THEN "load" ELSE "hello"
  /\ UNCHANGED <<nrsa, exchange>>

\* exit(1) of LoadKeys.
NoKeyFile ==
  /\ pc = "load" /\ None \in {files[f] : f \in Files}
  /\ pc' = "exited"
  /\ UNCHANGED <<nrsa, exchange, keyVars>>

MakeKeysStep == pc = "load" /\ MakerStep /\ UNCHANGED <<pc, nrsa, exchange>>

\* mpz_powm divides by a modulus that was never read.
NoModulus == ~nrsa /\ 0 \in {my_rsa.N, my_rsa.N2, rsa.N, rsa.N2}

HelloAborts ==
  /\ pc = "hello" /\ NoModulus
  /\ pc' = "aborted"
  /\ UNCHANGED <<nrsa, exchange, keyVars>>

\* Faulty: the bank answers any HELLO.
HelloArrivesUnchecked(from, to) ==
  to = my_rsa => RSAgetmessage(RSAgetcryptotext(HELLO, from), to) = HELLO

HelloArrives(from, to) == RSAgetmessage(RSAgetcryptotext(HELLO, from), to) = HELLO

\* The bank checks the ATM's HELLO and sends its own, which the ATM checks.
Hello ==
  /\ pc = "hello" /\ ~NoModulus
  /\ pc' = IF HelloArrives(my_rsa, rsa) /\ HelloArrives(rsa, my_rsa) THEN "start" ELSE "refused"
  /\ UNCHANGED <<nrsa, exchange, keyVars>>

\* The plaintexts of ClientDiffieKeys::ClientDiffieKeys.
Offered(keys) == <<keys.hmac.half \o keys.hmac.p,
                   keys.hmac.g \o keys.aes.half,
                   keys.aes.p \o keys.aes.g>>

ClientOffers ==
  /\ pc = "start"
  /\ \E p1, g1, x1, p2, g2, x2 \in Primes :
       client' = [hmac |-> CreateKeyhalf_client(p1, g1, x1),
                  aes |-> CreateKeyhalf_client(p2, g2, x2)]
  /\ offer' = [i \in 1 .. 3 |-> RSAgetcryptotext(Offered(client')[i], my_rsa)]
  /\ pc' = "offered"
  /\ UNCHANGED <<nrsa, server, answer, ckeys, skeys, keyVars>>

\* What ServerDiffieKeys makes of the three strings.
Received ==
  LET text == [i \in 1 .. 3 |-> RSAgetmessage(offer[i], rsa)]
  IN  [hmac |-> [half |-> First(text[1], W), p |-> Rest(text[1], W), g |-> First(text[2], W)],
       aes |-> [half |-> Rest(text[2], W), p |-> First(text[3], W), g |-> Rest(text[3], W)]]

\* substr or mpz_class throws, or mpz_powm divides by zero; nothing catches that.
ServerChokes ==
  \/ \E i \in 1 .. 3 : Throws(RSAgetmessage(offer[i], rsa), W)
  \/ 0 \in {Number(Received.hmac.p), Number(Received.aes.p)}
  \/ \E keys \in {Received.hmac, Received.aes} : ParseThrows(keys.p) \/ ParseThrows(keys.g)

ServerAborts ==
  /\ pc = "offered" /\ ServerChokes
  /\ pc' = "aborted"
  /\ UNCHANGED <<nrsa, exchange, keyVars>>

\* keyex(): the constructor, send() and genKeys().
ServerAnswers ==
  /\ pc = "offered" /\ ~ServerChokes
  /\ \E x1, x2 \in Primes :
       server' = [read |-> Received,
                  hmac |-> CreateKeyhalf_server(Received.hmac.p, Received.hmac.g, x1),
                  aes |-> CreateKeyhalf_server(Received.aes.p, Received.aes.g, x2)]
  /\ answer' = RSAgetcryptotext(server'.hmac.half \o server'.aes.half, rsa)
  /\ skeys' = GenKeys(GetSharedKey(server'.hmac, Received.hmac.half),
                      GetSharedKey(server'.aes, Received.aes.half))
  /\ pc' = "answered"
  /\ UNCHANGED <<nrsa, client, offer, ckeys, keyVars>>

ClientAborts ==
  /\ pc = "answered"
  /\ Throws(RSAgetmessage(answer, my_rsa), W)
  /\ pc' = "aborted"
  /\ UNCHANGED <<nrsa, exchange, keyVars>>

\* ClientDiffieKeys::genKeys.
ClientFinishes ==
  /\ pc = "answered"
  /\ LET text == RSAgetmessage(answer, my_rsa) IN
     /\ ~Throws(text, W)
     /\ ckeys' = GenKeys(GetSharedKey(client.hmac, First(text, W)),
                         GetSharedKey(client.aes, Rest(text, W)))
  /\ pc' = "done"
  /\ UNCHANGED <<nrsa, client, offer, server, answer, skeys, keyVars>>

Terminating == pc \in {"done", "aborted", "exited", "refused"} /\ UNCHANGED vars

Next == LoadKeysStep \/ NoKeyFile \/ MakeKeysStep \/ HelloAborts \/ Hello
        \/ ClientOffers \/ ServerAborts \/ ServerAnswers \/ ClientAborts
        \/ ClientFinishes \/ Terminating

Spec == Init /\ [][Next]_vars
-----------------------------------------------------------------------------
(***************************************************************************)
(* Keys that one run of MakeKeys has written and both programs have read   *)
(* in full get through the two HELLOs (MakeKeys.cpp:29-33, RSA.cpp:52-62). *)
(***************************************************************************)
FreshKeysMeet ==
  pc \in {"refused", "aborted"} /\ client = None =>
    None \in {my_rsa.run, rsa.run} \/ my_rsa.run # rsa.run

(***************************************************************************)
(* No key half is sent unless each side can read what the other encrypts:  *)
(* keys of different runs, or read while MakeKeys was writing, end the     *)
(* session in HELLO, before the bank splits strings that make it throw     *)
(* (bank.cpp:110-114, client.cpp:109-112).                                 *)
(***************************************************************************)
HelloVouches ==
  pc = "start" /\ ~nrsa => Undoes(my_rsa, rsa) /\ Undoes(rsa, my_rsa)

(***************************************************************************)
(* Without RSA both sides end with the same keys, or both give up because  *)
(* the shared secret is too small, and neither process is aborted: the     *)
(* padding keeps every field at its width (KeyGeneration.cpp:94-101,       *)
(* 134-141, 166-173).                                                      *)
(***************************************************************************)
PlainExchangeAgrees ==
  nrsa => /\ pc \notin {"aborted", "refused"}
          /\ pc = "done" => ckeys = skeys

\* A string of 2W digits that RSA returns as it was.
Fits(s, N) == Number(s) < N /\ s[1] # 0

\* The HELLO is such a string under every modulus.
HelloFits == \A draw \in Draws, f \in Files : Fits(HELLO, draw[f].p * draw[f].q)

(***************************************************************************)
(* With RSA the same holds of every exchange whose four plaintexts are     *)
(* below the receiver's modulus and do not begin with a zero.              *)
(***************************************************************************)
FittingExchangeAgrees ==
  /\ client # None
  /\ \A i \in 1 .. 3 : Fits(Offered(client)[i], rsa.N)
  /\ server # None => Fits(server.hmac.half \o server.aes.half, my_rsa.N)
  => /\ pc # "aborted"
     /\ pc = "done" => ckeys = skeys

(***************************************************************************)
(* What the bank decrypts is what the ATM encrypted.                       *)
(***************************************************************************)
OfferArrives ==
  pc = "answered" => \A field \in {"half", "p", "g"} :
                       /\ server.read.hmac[field] = client.hmac[field]
                       /\ server.read.aes[field] = client.aes[field]
=============================================================================
