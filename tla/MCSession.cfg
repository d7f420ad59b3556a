\* Three orders of two customers whose ATMs may die; any outcome of the key exchange.
CONSTANTS
  a1 = a1  a2 = a2  c1 = c1  c2 = c2  c3 = c3  k1 = k1  k2 = k2
  None = None
  Atms = {a1, a2}
  Conns = {c1, c2, c3}
  Keys = {k1, k2}
  Requests <- MCRequests
  KeyOutcomes <- MCKeyOutcomes
  Builds <- MCNrsa
  Uids <- MCUids
  Amounts <- MCAmounts
  UCHAR_MAX = 2
  UINT64_MAX = 3
  BACKLOG = 2
  MayKill = TRUE
  Preempt = FALSE
  OsFaults = FALSE
SYMMETRY MCSymmetry
SPECIFICATION Spec
INVARIANTS TypeOK CleanInv InStep NeverSendsOnReset BankDiesOnlyOfCrash Conservation
PROPERTY ImplementsTeller
