-------------------------------- MODULE Bank --------------------------------
(***************************************************************************)
(* The ledger of the bank process: the array `safe' of bank.cpp and the    *)
(* switch of bank() that reads one decoded message and computes one reply. *)
(*                                                                         *)
(* `safe' is declared with UCHAR_MAX elements, 0 .. UCHAR_MAX-1, and is    *)
(* indexed with an unsigned char, 0 .. UCHAR_MAX.  Index UCHAR_MAX is the  *)
(* eight bytes behind the array: the build may keep another object there,  *)
(* so the model gives that word to a Neighbour that writes it at will.     *)
(***************************************************************************)
EXTENDS Integers

CONSTANTS UCHAR_MAX,    \* <climits>: 255
          UINT64_MAX,   \* <cstdint>: 2^64 - 1
          Uids,         \* the account numbers that requests name
          Amounts       \* the amounts that requests name

ASSUME BankAssumption ==
  /\ UCHAR_MAX \in Nat \ {0}
  /\ UINT64_MAX \in Nat \ {0}
  /\ Uids \subseteq 0 .. UCHAR_MAX
  /\ Amounts \subseteq 0 .. UINT64_MAX

VARIABLES safe,      \* the array, and the word behind it
          reported   \* history, per account: the request last accepted and the
                     \* balance it was told

bankVars == <<safe, reported>>

Uchar == 0 .. UCHAR_MAX
Uint64 == 0 .. UINT64_MAX

\* ssh::MsgType::Type
MsgTypes == {"DEPOSIT", "WITHDRAW", "BALANCE", "OK", "BAD_FORMAT",
             "TOO_MUCH_BANK", "NOT_ENOUGH_DOUGH", "INVALID"}

\* A decoded message (ssh::RecvMsg) or one about to be encoded (ssh::SendMsg).
Msg == [type : MsgTypes, uid : Uchar, amt : Uint64]

Message(type, uid, amt) == [type |-> type, uid |-> uid, amt |-> amt]

\* uint64_t addition and subtraction.
Add64(x, y) == (x + y) % (UINT64_MAX + 1)
Sub64(x, y) == (x - y) % (UINT64_MAX + 1)

Line(type, amt, left) == [type |-> type, amt |-> amt, left |-> left]

BankTypeOK ==
  /\ safe \in [Uchar -> Uint64]
  /\ reported \in [Uchar -> [type : MsgTypes, amt : Uint64, left : Uint64]]

\* Static storage: every element starts at zero.
BankInit ==
  /\ safe = [u \in Uchar |-> 0]
  /\ reported = [u \in Uchar |-> Line("BALANCE", 0, 0)]
-----------------------------------------------------------------------------
(***************************************************************************)
(* bank(): one action per case of the switch.  m is the message received,  *)
(* r the message that SendMsg is given.                                    *)
(***************************************************************************)
\* Faulty: the sum is compared after it has wrapped.
TooMuchWrapped(m) == Add64(safe[m.uid], m.amt) > UINT64_MAX

TooMuch(m) == m.amt > Sub64(UINT64_MAX, safe[m.uid])

NotEnough(m) == m.amt > safe[m.uid]

\* msgType stays OK and msgAmt is the balance after the operation.
Report(m, r) ==
  /\ r = Message("OK", m.uid, safe'[m.uid])
  /\ reported' = [reported EXCEPT ![m.uid] = Line(m.type, m.amt, safe'[m.uid])]

\* msgType is set to type, msgAmt stays 0, no balance changes.
Refuse(m, r, type) ==
  /\ r = Message(type, m.uid, 0)
  /\ UNCHANGED bankVars

\* Faulty: the balance outgrows 64 bits, only the reply is cut to them.
DepositUnbounded(m, r) ==
  /\ m.type = "DEPOSIT"
  /\ safe' = [safe EXCEPT ![m.uid] = @ + m.amt]
  /\ r = Message("OK", m.uid, Add64(safe[m.uid], m.amt))
  /\ UNCHANGED reported

Deposit(m, r) ==
  /\ m.type = "DEPOSIT"
  /\ \/ TooMuch(m) /\ Refuse(m, r, "TOO_MUCH_BANK")
     \/ /\ ~TooMuch(m)
        /\ safe' = [safe EXCEPT ![m.uid] = Add64(@, m.amt)]
        /\ Report(m, r)

\* Faulty: the reply is composed before the subtraction.
WithdrawTellsOld(m, r) ==
  /\ m.type = "WITHDRAW" /\ ~NotEnough(m)
  /\ safe' = [safe EXCEPT ![m.uid] = Sub64(@, m.amt)]
  /\ r = Message("OK", m.uid, safe[m.uid])
  /\ reported' = [reported EXCEPT ![m.uid] = Line(m.type, m.amt, safe[m.uid])]

Withdraw(m, r) ==
  /\ m.type = "WITHDRAW"
  /\ \/ NotEnough(m) /\ Refuse(m, r, "NOT_ENOUGH_DOUGH")
     \/ /\ ~NotEnough(m)
        /\ safe' = [safe EXCEPT ![m.uid] = Sub64(@, m.amt)]
        /\ Report(m, r)

Balance(m, r) ==
  /\ m.type = "BALANCE"
  /\ UNCHANGED safe
  /\ Report(m, r)

\* default: a type that is no request, or INVALID because msg.error was set.
BadFormat(m, r) ==
  /\ m.type \notin {"DEPOSIT", "WITHDRAW", "BALANCE"}
  /\ Refuse(m, r, "BAD_FORMAT")

Bank(m, r) == Deposit(m, r) \/ Withdraw(m, r) \/ Balance(m, r) \/ BadFormat(m, r)

\* Whatever object the build keeps behind the array changes.
Neighbour ==
  /\ \E v \in Uint64 : safe' = [safe EXCEPT ![UCHAR_MAX] = v]
  /\ UNCHANGED reported

Incoming == [type : MsgTypes, uid : Uids, amt : Amounts]

BankNext == Neighbour \/ \E m \in Incoming, r \in Msg : Bank(m, r)

BankSpec == BankInit /\ [][BankNext]_bankVars
-----------------------------------------------------------------------------
(***************************************************************************)
(* The balance an account was last told is the balance it has: between two *)
(* requests nothing in the process changes an account                      *)
(* (bank.cpp:168-195, the only code that touches safe).                    *)
(***************************************************************************)
ReportedStands == \A u \in Uids : reported[u].left = safe[u]

(***************************************************************************)
(* The uint64_t array implements ideal accounts: under the guards of the   *)
(* switch no addition and no subtraction ever wraps, every accepted        *)
(* request moves exactly its amount on exactly its account, and nothing    *)
(* else in the program changes a balance (bank.cpp:174-189).               *)
(***************************************************************************)
A == INSTANCE Accounts WITH Owners <- Uids, MaxBalance <- UINT64_MAX,
                            balance <- [u \in Uids |-> safe[u]],
                            line <- [u \in Uids |-> reported[u]]

ImplementsAccounts == A!AccountsSpec
=============================================================================
