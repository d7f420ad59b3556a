\* Lines, orders and pairs of processes of MCOrderPath, with ten AES rounds.
CONSTANTS
  NUM_ROUNDS = 10
  Ids <- MCIds
  Lines <- MCLines
  Balances <- MCBalances
  Processes <- MCProcesses
  None = None
SPECIFICATION Spec
INVARIANTS OrderTypeOK OrderArrives AnswerArrives AcceptedWasSent SentAsTyped TagIsFull
PROPERTY GoodInputAccepted
