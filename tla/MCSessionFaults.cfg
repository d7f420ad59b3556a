\* Any system call may fail.
CONSTANTS
  a1 = a1  a2 = a2  c1 = c1  c2 = c2  c3 = c3  k1 = k1  k2 = k2
  None = None
  Atms = {a1, a2}
  Conns = {c1, c2}
  Keys = {k1, k2}
  Requests <- MCRequests
  KeyOutcomes <- MCKeyOutcomes
  Builds <- MCPairs
  Uids <- MCUids
  Amounts <- MCAmounts
  UCHAR_MAX = 2
  UINT64_MAX = 3
  BACKLOG = 1
  MayKill = TRUE
  Preempt = FALSE
  OsFaults = TRUE
SYMMETRY MCSymmetry
SPECIFICATION Spec
INVARIANTS SInv InStep NeverSendsOnReset Conservation ToldTruly
