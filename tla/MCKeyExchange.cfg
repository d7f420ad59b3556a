\* Key files written anew or not, exchanges with RSA and without.
CONSTANTS
  B = 4
  W = 2
  OCTAL = 3
  Primes <- MCTwoPrimes
  MinKey = 1
  Draws <- MCDraws
  MaxRuns = 1
  HELLO <- MCHello
  Modes = {TRUE, FALSE}
  None = None
SPECIFICATION Spec
INVARIANTS PlainExchangeAgrees FittingExchangeAgrees FreshKeysMeet HelloVouches
