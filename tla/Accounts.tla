------------------------------ MODULE Accounts ------------------------------
(***************************************************************************)
(* What the bank promises about money: every owner has a balance that is   *)
(* an ordinary natural number, a deposit adds exactly its amount, a        *)
(* withdrawal takes exactly its amount, no balance goes below zero or      *)
(* above MaxBalance, and no operation on one owner touches another.        *)
(* There is no machine arithmetic and no array here; Bank.tla has both.    *)
(***************************************************************************)
EXTENDS Integers

CONSTANTS Owners,      \* who may have money
          MaxBalance   \* a natural number, the largest balance an account can show

VARIABLES balance,   \* what each owner has
          line       \* per owner, the last line of the account's statement

ledger == <<balance, line>>

Balances == 0 .. MaxBalance

\* An operation, its amount, and the balance after it.
Line(type, amt, left) == [type |-> type, amt |-> amt, left |-> left]

AccountsInit ==
  /\ balance = [o \in Owners |-> 0]
  /\ line = [o \in Owners |-> Line("BALANCE", 0, 0)]

HasRoom(o, n) == balance[o] + n <= MaxBalance

HasFunds(o, n) == n <= balance[o]

Credit(o, n) ==
  /\ HasRoom(o, n)
  /\ balance' = [balance EXCEPT ![o] = @ + n]
  /\ line' = [line EXCEPT ![o] = Line("DEPOSIT", n, balance[o] + n)]

Debit(o, n) ==
  /\ HasFunds(o, n)
  /\ balance' = [balance EXCEPT ![o] = @ - n]
  /\ line' = [line EXCEPT ![o] = Line("WITHDRAW", n, balance[o] - n)]

\* The amount of an inquiry means nothing.
Inquire(o, n) ==
  /\ line' = [line EXCEPT ![o] = Line("BALANCE", n, balance[o])]
  /\ UNCHANGED balance

AccountsNext ==
  \E o \in Owners, n \in Balances : Credit(o, n) \/ Debit(o, n) \/ Inquire(o, n)

AccountsSpec == AccountsInit /\ [][AccountsNext]_ledger
=============================================================================
