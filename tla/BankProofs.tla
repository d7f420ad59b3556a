----------------------------- MODULE BankProofs -----------------------------
(***************************************************************************)
(* For every size of the array and of uint64_t: the balances stay in range *)
(* (BankTypeCorrect), the balance last told is the balance kept, as long   *)
(* as requests name accounts inside the array (ReportedIsKept), and the    *)
(* array then implements ideal accounts (BankImplementsAccounts).          *)
(***************************************************************************)
EXTENDS Bank, TLAPS

\* Account numbers for which safe[uid] is inside the array.
InsideTheArray == UCHAR_MAX \notin Uids

\* A sum or difference that stays in range does not wrap.
LEMMA NoWrap ==
  ASSUME NEW x \in Uint64
  PROVE  x % (UINT64_MAX + 1) = x
BY BankAssumption DEF Uint64

\* What the guards of the switch guarantee about its arithmetic.
LEMMA Add64InRange ==
  ASSUME NEW x \in Uint64, NEW n \in Uint64, ~(n > Sub64(UINT64_MAX, x))
  PROVE  /\ Add64(x, n) = x + n
         /\ x + n \in Uint64
<1>1. UINT64_MAX - x \in Uint64
  BY BankAssumption DEF Uint64
<1>2. Sub64(UINT64_MAX, x) = UINT64_MAX - x
  BY <1>1, NoWrap DEF Sub64
<1>3. x + n \in Uint64
  BY <1>2, BankAssumption DEF Uint64
<1> QED
  BY <1>3, NoWrap DEF Add64

LEMMA Sub64InRange ==
  ASSUME NEW x \in Uint64, NEW n \in Uint64, ~(n > x)
  PROVE  /\ Sub64(x, n) = x - n
         /\ x - n \in Uint64
<1>1. x - n \in Uint64
  BY BankAssumption DEF Uint64
<1> QED
  BY <1>1, NoWrap DEF Sub64

\* The guard of a deposit is the ideal one.
LEMMA TooMuchIsNoRoom ==
  ASSUME NEW x \in Uint64, NEW n \in Uint64
  PROVE  n > Sub64(UINT64_MAX, x) <=> x + n > UINT64_MAX
<1>1. UINT64_MAX - x \in Uint64
  BY BankAssumption DEF Uint64
<1>2. Sub64(UINT64_MAX, x) = UINT64_MAX - x
  BY <1>1, NoWrap DEF Sub64
<1> QED
  BY <1>2, BankAssumption DEF Uint64
-----------------------------------------------------------------------------
\* Every case of the switch keeps the balances in range, and tells the balance
\* of the account it touches.
LEMMA BankKeepsType ==
  ASSUME BankTypeOK, NEW m \in Msg, NEW r, Bank(m, r)
  PROVE  /\ BankTypeOK'
         /\ r \in Msg
<1> USE DEF BankTypeOK
<1> DEFINE u == m.uid
<1>1. /\ u \in Uchar /\ m.amt \in Uint64 /\ m.type \in MsgTypes
      /\ safe[u] \in Uint64 /\ 0 \in Uint64
  BY BankAssumption DEF Msg, Uint64
<1>2. ASSUME NEW type \in MsgTypes, Refuse(m, r, type)
      PROVE  BankTypeOK' /\ r \in Msg
  BY <1>1, <1>2 DEF Refuse, Message, Msg, bankVars
<1>3. ASSUME NEW v \in Uint64, safe' = [safe EXCEPT ![u] = v], Report(m, r)
      PROVE  BankTypeOK' /\ r \in Msg
  BY <1>1, <1>3 DEF Report, Line, Message, Msg, MsgTypes
<1>4. CASE Deposit(m, r)
  <2>1. CASE TooMuch(m) /\ Refuse(m, r, "TOO_MUCH_BANK")
    BY <1>2, <2>1 DEF MsgTypes
  <2>2. CASE ~TooMuch(m) /\ safe' = [safe EXCEPT ![u] = Add64(@, m.amt)] /\ Report(m, r)
    <3>1. Add64(safe[u], m.amt) \in Uint64
      BY <1>1, <2>2, Add64InRange DEF TooMuch
    <3> QED
      BY <1>3, <2>2, <3>1
  <2> QED
    BY <1>4, <2>1, <2>2 DEF Deposit
<1>5. CASE Withdraw(m, r)
  <2>1. CASE NotEnough(m) /\ Refuse(m, r, "NOT_ENOUGH_DOUGH")
    BY <1>2, <2>1 DEF MsgTypes
  <2>2. CASE ~NotEnough(m) /\ safe' = [safe EXCEPT ![u] = Sub64(@, m.amt)] /\ Report(m, r)
    <3>1. Sub64(safe[u], m.amt) \in Uint64
      BY <1>1, <2>2, Sub64InRange DEF NotEnough
    <3> QED
      BY <1>3, <2>2, <3>1
  <2> QED
    BY <1>5, <2>1, <2>2 DEF Withdraw
<1>6. CASE Balance(m, r)
  <2>1. safe' = [safe EXCEPT ![u] = safe[u]] /\ Report(m, r)
    BY <1>1, <1>6 DEF Balance
  <2> QED
    BY <1>1, <1>3, <2>1
<1>7. CASE BadFormat(m, r)
  BY <1>2, <1>7 DEF BadFormat, MsgTypes
<1> QED
  BY <1>4, <1>5, <1>6, <1>7 DEF Bank

\* A case of the switch leaves every other account alone, and leaves account
\* and report equal where they were.
LEMMA BankKeepsReport ==
  ASSUME BankTypeOK, NEW m \in Msg, NEW r, Bank(m, r),
         NEW u \in Uchar, reported[u].left = safe[u]
  PROVE  reported'[u].left = safe'[u]
<1>1. m.uid \in Uchar
  BY DEF Msg
<1>2. ASSUME Report(m, r), \E v : safe' = [safe EXCEPT ![m.uid] = v]
      PROVE  reported'[u].left = safe'[u]
  BY <1>1, <1>2 DEF Report, Line, BankTypeOK
<1>3. ASSUME Report(m, r), UNCHANGED safe
      PROVE  reported'[u].left = safe'[u]
  BY <1>1, <1>3 DEF Report, Line, BankTypeOK
<1>4. ASSUME UNCHANGED bankVars
      PROVE  reported'[u].left = safe'[u]
  BY <1>4 DEF bankVars
<1> QED
  BY <1>2, <1>3, <1>4 DEF Bank, Deposit, Withdraw, Balance, BadFormat, Refuse

(***************************************************************************)
(* safe stays an array of uint64_t and reported one of requests, whatever  *)
(* is requested and whatever the neighbour of the array does.              *)
(***************************************************************************)
THEOREM BankTypeCorrect == BankSpec => []BankTypeOK
<1>1. BankInit => BankTypeOK
  BY BankAssumption DEF BankInit, BankTypeOK, Line, MsgTypes, Uchar, Uint64
<1>2. BankTypeOK /\ [BankNext]_bankVars => BankTypeOK'
  <2> SUFFICES ASSUME BankTypeOK, [BankNext]_bankVars
               PROVE  BankTypeOK'
    OBVIOUS
  <2>1. CASE Neighbour
    BY <2>1 DEF Neighbour, BankTypeOK
  <2>2. ASSUME NEW m \in Incoming, NEW r \in Msg, Bank(m, r)
        PROVE  BankTypeOK'
    BY <2>2, BankKeepsType, BankAssumption DEF Incoming, Msg, Uchar, Uint64
  <2>3. CASE UNCHANGED bankVars
    BY <2>3 DEF BankTypeOK, bankVars
  <2> QED
    BY <2>1, <2>2, <2>3 DEF BankNext
<1> QED
  BY <1>1, <1>2, PTL DEF BankSpec

(***************************************************************************)
(* The balance an account was last told is the balance it has, for         *)
(* accounts inside the array: nothing between two requests changes it.     *)
(***************************************************************************)
THEOREM ReportedIsKept ==
  ASSUME InsideTheArray
  PROVE  BankSpec => []ReportedStands
<1>1. BankInit => ReportedStands
  BY BankAssumption DEF BankInit, ReportedStands, Line, Uchar
<1>2. BankTypeOK /\ ReportedStands /\ [BankNext]_bankVars => ReportedStands'
  <2> SUFFICES ASSUME BankTypeOK, ReportedStands, [BankNext]_bankVars, NEW u \in Uids
               PROVE  reported'[u].left = safe'[u]
    BY DEF ReportedStands
  <2>1. u \in Uchar /\ u # UCHAR_MAX /\ reported[u].left = safe[u]
    BY BankAssumption DEF InsideTheArray, ReportedStands, Uchar
  <2>2. CASE Neighbour
    BY <2>1, <2>2 DEF Neighbour, BankTypeOK
  <2>3. ASSUME NEW m \in Incoming, NEW r \in Msg, Bank(m, r)
        PROVE  reported'[u].left = safe'[u]
    BY <2>1, <2>3, BankKeepsReport, BankAssumption DEF Incoming, Msg, Uchar, Uint64
  <2>4. CASE UNCHANGED bankVars
    BY <2>1, <2>4 DEF bankVars
  <2> QED
    BY <2>2, <2>3, <2>4 DEF BankNext
<1> QED
  BY <1>1, <1>2, BankTypeCorrect, PTL DEF BankSpec

(***************************************************************************)
(* The array implements ideal accounts, for accounts inside it: no request *)
(* wraps, and an accepted one moves exactly its amount on its account.     *)
(***************************************************************************)
THEOREM BankImplementsAccounts ==
  ASSUME InsideTheArray
  PROVE  BankSpec => ImplementsAccounts
<1> DEFINE balance == [u \in Uids |-> safe[u]]
           line == [u \in Uids |-> reported[u]]
<1> USE DEF A!Balances
<1>1. Uids \subseteq Uchar \ {UCHAR_MAX}
  BY BankAssumption DEF InsideTheArray, Uchar
<1>2. BankInit => A!AccountsInit
  BY <1>1 DEF BankInit, Line, A!AccountsInit, A!Line
<1>3. BankTypeOK /\ [BankNext]_bankVars => [A!AccountsNext]_(A!ledger)
  <2> SUFFICES ASSUME BankTypeOK, [BankNext]_bankVars
               PROVE  A!AccountsNext \/ UNCHANGED <<balance, line>>
    BY DEF A!ledger
  <2>1. CASE Neighbour
    <3>1. \A u \in Uids : safe'[u] = safe[u] /\ reported'[u] = reported[u]
      BY <1>1, <2>1 DEF Neighbour, BankTypeOK
    <3> QED
      BY <3>1
  <2>2. ASSUME NEW m \in Incoming, NEW r \in Msg, Bank(m, r)
        PROVE  A!AccountsNext \/ UNCHANGED <<balance, line>>
    <3> DEFINE o == m.uid
               n == m.amt
    <3>1. o \in Uids /\ o \in Uchar /\ n \in Uint64 /\ safe[o] \in Uint64
      BY <1>1, <2>2, BankAssumption DEF Incoming, BankTypeOK, Uint64
    <3>2. ASSUME NEW v, safe' = [safe EXCEPT ![o] = v]
          PROVE  balance' = [balance EXCEPT ![o] = v] /\ safe'[o] = v
      BY <1>1, <3>1, <3>2 DEF BankTypeOK
    <3>3. ASSUME Report(m, r)
          PROVE  line' = [line EXCEPT ![o] = A!Line(m.type, n, safe'[o])]
      BY <1>1, <3>1, <3>3 DEF Report, Line, A!Line, BankTypeOK
    <3>4. CASE Deposit(m, r) /\ ~TooMuch(m)
      <4>1. Add64(safe[o], n) = safe[o] + n /\ safe[o] + n \in Uint64
        BY <3>1, <3>4, Add64InRange DEF TooMuch
      <4>2. /\ safe' = [safe EXCEPT ![o] = safe[o] + n]
            /\ Report(m, r) /\ m.type = "DEPOSIT"
        BY <3>1, <3>4, <4>1 DEF Deposit, Refuse, BankTypeOK
      <4>3. A!HasRoom(o, n)
        BY <3>1, <4>1 DEF A!HasRoom, Uint64
      <4>4. A!Credit(o, n)
        BY <3>1, <3>2, <3>3, <4>2, <4>3 DEF A!Credit
      <4> QED
        BY <3>1, <4>4 DEF A!AccountsNext, Uint64
    <3>5. CASE Withdraw(m, r) /\ ~NotEnough(m)
      <4>1. Sub64(safe[o], n) = safe[o] - n /\ safe[o] - n \in Uint64
        BY <3>1, <3>5, Sub64InRange DEF NotEnough
      <4>2. /\ safe' = [safe EXCEPT ![o] = safe[o] - n]
            /\ Report(m, r) /\ m.type = "WITHDRAW"
        BY <3>1, <3>5, <4>1 DEF Withdraw, Refuse, BankTypeOK
      <4>3. A!HasFunds(o, n)
        BY <3>1, <3>5 DEF A!HasFunds, NotEnough, Uint64
      <4>4. A!Debit(o, n)
        BY <3>1, <3>2, <3>3, <4>2, <4>3 DEF A!Debit
      <4> QED
        BY <3>1, <4>4 DEF A!AccountsNext, Uint64
    <3>6. CASE Balance(m, r)
      <4>1. UNCHANGED safe /\ Report(m, r) /\ m.type = "BALANCE"
        BY <3>6 DEF Balance
      <4>2. A!Inquire(o, n)
        BY <3>1, <3>3, <4>1 DEF A!Inquire
      <4> QED
        BY <3>1, <4>2 DEF A!AccountsNext, Uint64
    <3>7. CASE UNCHANGED bankVars
      BY <3>7 DEF bankVars
    <3> QED
      BY <2>2, <3>4, <3>5, <3>6, <3>7 DEF Bank, Deposit, Withdraw, BadFormat, Refuse
  <2>3. CASE UNCHANGED bankVars
    BY <2>3 DEF bankVars
  <2> QED
    BY <2>1, <2>2, <2>3 DEF BankNext
<1> QED
  BY <1>2, <1>3, BankTypeCorrect, PTL DEF BankSpec, ImplementsAccounts, A!AccountsSpec
=============================================================================
