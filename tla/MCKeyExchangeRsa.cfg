\* Every RSA exchange.
CONSTANTS
  B = 4
  W = 2
  OCTAL = 3
  Primes <- MCPrimes
  MinKey = 1
  Draws <- MCOneDraw
  MaxRuns = 0
  HELLO <- MCHello
  Modes = {FALSE}
  None = None
SPECIFICATION Spec
INVARIANT OfferArrives
