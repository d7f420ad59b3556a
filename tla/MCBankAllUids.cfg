\* Every account number an unsigned char can hold, the last one included.
CONSTANTS
  UCHAR_MAX = 2
  UINT64_MAX = 3
  Uids <- MCAllUids
  Amounts <- MCAmounts
SPECIFICATION BankSpec
INVARIANT ReportedStands
