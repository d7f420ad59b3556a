--------------------------- MODULE MCKeyExchange ----------------------------
\* KeyExchange with two-digit primes in base 4 and textbook RSA moduli.
EXTENDS KeyExchange

MCPrimes == {5, 7, 13}
MCTwoPrimes == {5, 13}

\* N = 7 * 13 with e = 5, and N = 11 * 13 with e = 7: four digits in base 4.
\* The server's e is drawn as 5, which divides the toitent.
MCDraw == [clientKeys |-> [p |-> 7, q |-> 13, e |-> 5],
           serverKeys |-> [p |-> 11, q |-> 13, e |-> 5]]
MCNextDraw == [clientKeys |-> [p |-> 5, q |-> 13, e |-> 11],
               serverKeys |-> [p |-> 7, q |-> 11, e |-> 13]]
MCDraws == {MCDraw, MCNextDraw}
MCOneDraw == {MCDraw}

\* 46, below every modulus.  With numbers this small some other HELLO comes back
\* right by accident under keys that do not belong together.
MCHello == <<2, 3, 2>>

\* What the theorems about keys of one run assume of the constants.
ASSUME MCKeysAreRegular == HelloFits /\ \A draw \in Draws : Regular(draw)
=============================================================================
