------------------------------ MODULE RsaKeys -------------------------------
(***************************************************************************)
(* Where the RSA keys come from: MakeKeys draws two pairs and writes the   *)
(* files clientKeys and serverKeys line by line; the ATM reads the one     *)
(* when it starts, the bank the other at the start of every session.       *)
(* Nothing keeps MakeKeys from running in between.                         *)
(***************************************************************************)
EXTENDS Integers, SequencesExt

CONSTANTS Draws,      \* what getRandPrime() returns in one run, [p, q, e] a side
          MaxRuns,    \* how often MakeKeys runs again
          None

Files == {"clientKeys", "serverKeys"}
Other == [clientKeys |-> "serverKeys", serverKeys |-> "clientKeys"]

Divides(d, n) == n % d = 0
Prime(n) == n > 1 /\ \A d \in 2 .. n - 1 : ~Divides(d, n)

ASSUME RsaKeysAssumption ==
  /\ Draws \subseteq [Files -> [p : Nat, q : Nat, e : Nat]]
  /\ \A draw \in Draws, f \in Files : Prime(draw[f].p) /\ Prime(draw[f].q)
  /\ MaxRuns \in Nat

VARIABLES files,     \* per name, the lines and the run of MakeKeys that wrote them
          runs,      \* how often MakeKeys was started
          maker,     \* MakeKeys at work: its two RSA objects and how far it has come
          my_rsa,    \* the RSA object of the ATM's main()
          rsa        \* the one of the bank's serve()

keyVars == <<files, runs, maker, my_rsa, rsa>>
-----------------------------------------------------------------------------
\* mpz_powm.
PowMod(x, y, m) ==
  LET power[i \in 0 .. y] == IF i = 0 THEN 1 % m ELSE (power[i - 1] * x) % m
  IN  power[y]

Coprime(x, y) == \A d \in 2 .. y : ~(Divides(d, x) /\ Divides(d, y))

\* The loop counts up to the first number that has an inverse, or past toitent.
Exponent(e, toitent) ==
  CHOOSE x \in e .. Max({e, toitent + 1}) :
    /\ x > toitent \/ Coprime(x, toitent)
    /\ \A y \in e .. x - 1 : y <= toitent /\ ~Coprime(y, toitent)

\* mpz_invert leaves its target, 0, alone when there is no inverse.
Invert(e, toitent) ==
  LET inverses == {d \in 0 .. toitent - 1 : (e * d) % toitent = 1}
  IN  IF inverses = {} THEN 0 ELSE CHOOSE d \in inverses : TRUE

RSAKeyGen(draw) ==
  LET toitent == (draw.p - 1) * (draw.q - 1)
      e == Exponent(draw.e, toitent)
  IN  [N |-> draw.p * draw.q, e |-> e, d |-> Invert(e, toitent), N2 |-> 0, e2 |-> 0]

\* Faulty: each object gets its own key back.
SetKeysOwn(own, other) == [own EXCEPT !.e2 = own.e, !.N2 = own.N]

SetKeys(own, other) == [own EXCEPT !.e2 = other.e, !.N2 = other.N]

Lines(r) == <<r.d, r.N2, r.e2, r.N, r.e>>

\* Four words are read.  At the end of the file the last word stays in x, and
\* an empty x leaves a number 0.  e is not read.  For the properties, run says
\* which run wrote the file, None if not all four words were there.
LoadKeys(file) ==
  LET word(i) == IF file.lines = <<>> THEN 0 ELSE file.lines[Min({i, Len(file.lines)})]
  IN  [d |-> word(1), N2 |-> word(2), e2 |-> word(3), N |-> word(4), e |-> 0,
       run |-> IF Len(file.lines) < 4 THEN None ELSE file.run]

Written(draw, run) ==
  LET made == [f \in Files |-> RSAKeyGen(draw[f])]
  IN  [f \in Files |-> [run |-> run, lines |-> Lines(SetKeys(made[f], made[Other[f]]))]]
-----------------------------------------------------------------------------
\* No file, or those of an earlier run.
KeysInit ==
  /\ files \in {[f \in Files |-> None]} \cup {Written(draw, 0) : draw \in Draws}
  /\ runs = 0 /\ maker = None /\ my_rsa = None /\ rsa = None

MakeKeys ==
  /\ maker = None /\ runs < MaxRuns
  /\ runs' = runs + 1
  /\ \E draw \in Draws :
       LET made == [f \in Files |-> RSAKeyGen(draw[f])]
       IN  maker' = [rsa |-> [f \in Files |-> SetKeys(made[f], made[Other[f]])],
                     todo |-> <<"clientKeys", "serverKeys">>, opened |-> FALSE]
  /\ UNCHANGED <<files, my_rsa, rsa>>

FileDone ==
  maker' = IF Len(maker.todo) = 1 THEN None
           ELSE [maker EXCEPT !.todo = Tail(@), !.opened = FALSE]

\* SaveKeys: opening empties the file; a failure is reported and forgotten.
SaveOpens ==
  /\ maker # None /\ ~maker.opened
  /\ files' = [files EXCEPT ![Head(maker.todo)] = [run |-> runs, lines |-> <<>>]]
  /\ maker' = [maker EXCEPT !.opened = TRUE]
  /\ UNCHANGED <<runs, my_rsa, rsa>>

SaveFails ==
  /\ maker # None /\ ~maker.opened
  /\ FileDone
  /\ UNCHANGED <<files, runs, my_rsa, rsa>>

\* std::endl flushes after each number.
SaveLine ==
  /\ maker # None /\ maker.opened
  /\ LET name == Head(maker.todo)
         line == Len(files[name].lines) + 1
     IN  /\ files' = [files EXCEPT ![name].lines = Append(@, Lines(maker.rsa[name])[line])]
         /\ IF line = 5 THEN FileDone ELSE UNCHANGED maker
  /\ UNCHANGED <<runs, my_rsa, rsa>>

\* The ATM starts, and a session of the bank.
AtmLoads ==
  /\ my_rsa = None /\ files["clientKeys"] # None
  /\ my_rsa' = LoadKeys(files["clientKeys"])
  /\ UNCHANGED <<files, runs, maker, rsa>>

BankLoads ==
  /\ rsa = None /\ files["serverKeys"] # None
  /\ rsa' = LoadKeys(files["serverKeys"])
  /\ UNCHANGED <<files, runs, maker, my_rsa>>

MakerStep == MakeKeys \/ SaveOpens \/ SaveFails \/ SaveLine
-----------------------------------------------------------------------------
\* What one side encrypts for the other comes back.
Undoes(from, to) ==
  \A m \in 0 .. to.N - 1 : PowMod(PowMod(m, from.e2, from.N2), to.d, to.N) = m

\* Two different primes, and an exponent that the loop can count up from.  The
\* primes of 128 digits that the code draws are all less than the toitent.
Regular(draw) ==
  \A f \in Files : /\ draw[f].p # draw[f].q
                   /\ draw[f].e <= (draw[f].p - 1) * (draw[f].q - 1)
=============================================================================
