\* Everything ends, for two ATMs and a full backlog.
CONSTANTS
  a1 = a1  a2 = a2  c1 = c1  c2 = c2  c3 = c3  k1 = k1  k2 = k2
  None = None
  Atms = {a1, a2}
  Conns = {c1, c2}
  Keys = {k1, k2}
  Requests <- MCOneRequest
  KeyOutcomes <- MCKeyOutcomes
  Builds <- MCNrsa
  Uids <- MCUids
  Amounts <- MCAmounts
  UCHAR_MAX = 2
  UINT64_MAX = 3
  BACKLOG = 1
  MayKill = TRUE
  Preempt = FALSE
  OsFaults = FALSE
SPECIFICATION BankFairSpec
PROPERTIES SessionEnds EveryAtmAnswered
