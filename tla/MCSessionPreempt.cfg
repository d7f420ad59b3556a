\* The bank loses the CPU between alarm() and recv().
CONSTANTS
  a1 = a1  a2 = a2  c1 = c1  c2 = c2  c3 = c3  k1 = k1  k2 = k2
  None = None
  Atms = {a1}
  Conns = {c1}
  Keys = {k1, k2}
  Requests <- MCRequests
  KeyOutcomes <- MCGoodKeys
  Builds <- MCNrsa
  Uids <- MCUids
  Amounts <- MCAmounts
  UCHAR_MAX = 2
  UINT64_MAX = 3
  BACKLOG = 1
  MayKill = FALSE
  Preempt = TRUE
  OsFaults = FALSE
SPECIFICATION BankFairSpec
PROPERTY SessionEnds
