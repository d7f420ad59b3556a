\* Account numbers that lie inside the array.
CONSTANTS
  UCHAR_MAX = 2
  UINT64_MAX = 3
  Uids <- MCUids
  Amounts <- MCAmounts
SPECIFICATION BankSpec
INVARIANTS BankTypeOK ReportedStands
PROPERTY ImplementsAccounts
