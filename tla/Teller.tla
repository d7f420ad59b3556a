------------------------------- MODULE Teller -------------------------------
(***************************************************************************)
(* What the bank and its cash machines promise a customer together.  An    *)
(* order is given once, is posted to the accounts at most once and         *)
(* atomically, and ends in one of three ways: the customer is told the     *)
(* outcome that was posted; the customer is told that it failed, and then  *)
(* it is never posted; or the machine dies in front of the customer, and   *)
(* only then may an order be posted without its customer knowing.          *)
(***************************************************************************)
EXTENDS Accounts

CONSTANTS Tickets,    \* identities of orders
          Requests,   \* the orders a customer can give
          None        \* no order, no entry, no receipt

VARIABLES order,     \* per ticket, the request
          entry,     \* per ticket, the reply the bank decided on
          receipt,   \* per ticket, what the machine displayed
          fate       \* per ticket: idle, waiting, told, failed or gone

tellerVars == <<ledger, order, entry, receipt, fate>>

Entry(type, uid, amt) == [type |-> type, uid |-> uid, amt |-> amt]

TellerInit ==
  /\ AccountsInit
  /\ order = [t \in Tickets |-> None]
  /\ entry = [t \in Tickets |-> None]
  /\ receipt = [t \in Tickets |-> None]
  /\ fate = [t \in Tickets |-> "idle"]

Invoke(t, m) ==
  /\ fate[t] = "idle"
  /\ order' = [order EXCEPT ![t] = m]
  /\ fate' = [fate EXCEPT ![t] = "waiting"]
  /\ UNCHANGED <<ledger, entry, receipt>>

Enter(t, r) ==
  /\ entry' = [entry EXCEPT ![t] = r]
  /\ UNCHANGED <<order, receipt, fate>>

Accepted(t, m) ==
  /\ \/ m.type = "DEPOSIT" /\ Credit(m.uid, m.amt)
     \/ m.type = "WITHDRAW" /\ Debit(m.uid, m.amt)
     \/ m.type = "BALANCE" /\ Inquire(m.uid, m.amt)
  /\ Enter(t, Entry("OK", m.uid, balance'[m.uid]))

Refused(t, m) ==
  /\ \/ /\ m.type = "DEPOSIT" /\ ~HasRoom(m.uid, m.amt)
        /\ Enter(t, Entry("TOO_MUCH_BANK", m.uid, 0))
     \/ /\ m.type = "WITHDRAW" /\ ~HasFunds(m.uid, m.amt)
        /\ Enter(t, Entry("NOT_ENOUGH_DOUGH", m.uid, 0))
  /\ UNCHANGED ledger

\* The bank could not read the order.
Unread(t) == Enter(t, Entry("BAD_FORMAT", 0, 0)) /\ UNCHANGED ledger

Post(t) ==
  /\ fate[t] \in {"waiting", "gone"} /\ entry[t] = None
  /\ \/ Accepted(t, order[t])
     \/ Refused(t, order[t])
     \/ Unread(t)

\* A machine that cannot read the refusal of an unread order says so.
Answer(t) ==
  /\ fate[t] = "waiting" /\ entry[t] # None
  /\ \/ receipt' = [receipt EXCEPT ![t] = entry[t]]
     \/ /\ entry[t].type = "BAD_FORMAT"
        /\ receipt' = [receipt EXCEPT ![t] = Entry("INVALID", 0, 0)]
  /\ fate' = [fate EXCEPT ![t] = "told"]
  /\ UNCHANGED <<ledger, order, entry>>

Fail(t) ==
  /\ fate[t] = "waiting" /\ entry[t] = None
  /\ fate' = [fate EXCEPT ![t] = "failed"]
  /\ UNCHANGED <<ledger, order, entry, receipt>>

Die(t) ==
  /\ fate[t] = "waiting"
  /\ fate' = [fate EXCEPT ![t] = "gone"]
  /\ UNCHANGED <<ledger, order, entry, receipt>>

TellerNext ==
  \E t \in Tickets : \/ \E m \in Requests : Invoke(t, m)
                     \/ Post(t) \/ Answer(t) \/ Fail(t) \/ Die(t)

TellerSpec == TellerInit /\ [][TellerNext]_tellerVars
=============================================================================
