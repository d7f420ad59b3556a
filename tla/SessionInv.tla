----------------------------- MODULE SessionInv -----------------------------
(***************************************************************************)
(* The inductive invariant of Session: where each connection stands        *)
(* between its ATM and the bank.  A connection is in listen()'s queue, is  *)
(* the one being served, or is closed; one side has the turn, and what is  *)
(* on the wire, in the bank's buffer and in the accounts follows from      *)
(* whose turn it is and in which of the three exchanges.                   *)
(***************************************************************************)
EXTENDS Session

\* What an ATM or a bank in the middle of a session works on.
Placed ==
  /\ \A a \in Atms : atm[a].pc \in {"send", "recv"} =>
       atm[a].sd \in Conns /\ order[atm[a].sd] \in Requests
  /\ bank.pc \notin {"accept", "exit"} => bank.cd \in Conns
  /\ bank.pc = "handle" => bank.buf \in Packet

Live(a) == atm[a].pc \in {"send", "recv"}

\* The connections in listen()'s queue.
Queued == {backlog[i] : i \in DOMAIN backlog}

\* The bank has yet to receive on c, has a packet of c in its buffer, or is
\* about to close c.
Awaits(c) ==
  /\ bank.cd = c
  /\ bank.pc \in {"arm", "enter", "recv"} \/ (bank.pc = "disarm" /\ bank.buf = None)

Holds(c) ==
  /\ bank.cd = c
  /\ bank.pc = "handle" \/ (bank.pc = "disarm" /\ bank.buf # None)

Closes(c) == bank.cd = c /\ bank.pc = "shutdown"

\* The bank's next read on c will be that of stage s.
Expects(c, s) == (c \in Queued /\ s = "hello") \/ (Awaits(c) /\ bank.stage = s)

After == [hello |-> "keyex", keyex |-> "bank", bank |-> "over"]

\* p is what an ATM writes to connection c in stage s.
Letter(p, c, s) ==
  /\ p.kind = CASE s = "hello" -> AtmHello
                [] s = "keyex" -> "client_half"
                [] s = "bank" -> "msg"
  /\ s = "bank" => p.body = order[c]

\* A connection is one ATM's, and in use.
Owned ==
  /\ \A a \in Atms : atm[a].pc = "prompt" => atm[a].sd = None
  /\ \A a, b \in Atms : atm[a].sd = atm[b].sd /\ atm[a].sd # None => a = b
  /\ \A a \in Atms : atm[a].sd # None => tcp[atm[a].sd] # "free"
  /\ \A a \in Atms : Live(a) => fate[atm[a].sd] = "waiting"
  /\ \A c \in Conns : fate[c] = "waiting" => tcp[c] \in {"open", "shut"}
  /\ \A c \in Conns : fate[c] = "idle" <=> tcp[c] = "free"
  /\ \A c \in Conns : tcp[c] = "free" =>
       up[c] = <<>> /\ down[c] = <<>> /\ order[c] = None

\* Each connection waits in the queue once, and is not served before.
LinedUp ==
  /\ \A i, j \in DOMAIN backlog : backlog[i] = backlog[j] => i = j
  /\ bank.pc = "accept" => bank.cd = None
  /\ bank.pc \notin {"accept", "exit"} => tcp[bank.cd] \notin {"free", "shut"}
  /\ \A c \in Queued :
       /\ bank.cd # c /\ down[c] = <<>>
       /\ tcp[c] \in IF bank.pc = "exit" THEN {"shut"} ELSE {"open", "fin"}

\* One packet is in flight on c, the bank's buffer included; it is of the
\* stage that the bank is in; and a connection that is being reset has
\* nothing more for the bank.
InOrder(c) ==
  /\ Len(up[c]) + Len(down[c]) <= 1
  /\ \A s \in Stages : Expects(c, s) /\ up[c] # <<>> => Letter(Head(up[c]), c, s)
  /\ Holds(c) => up[c] = <<>> /\ down[c] = <<>> /\ Letter(bank.buf, c, bank.stage)
  /\ tcp[c] \in {"rst_due", "rst"} => up[c] = <<>> /\ ~Holds(c)

OnePacket == \A c \in Conns : InOrder(c)

\* Whose turn it is on the connection c of ATM a, which is in a session.
Turn(a, c) ==
  /\ atm[a].pc = "send" => up[c] = <<>> /\ down[c] = <<>>
  /\ up[c] # <<>> => Head(up[c]) = AtmPacket(a)
  /\ down[c] # <<>> => Head(down[c]).kind = AtmAwaits(a)
  /\ tcp[c] = "open" /\ ~Closes(c) =>
       /\ atm[a].pc = "send" \/ up[c] # <<>> => Expects(c, atm[a].stage)
       /\ down[c] # <<>> => Expects(c, After[atm[a].stage])
       /\ atm[a].pc = "recv" /\ up[c] = <<>> /\ down[c] = <<>> =>
            Holds(c) /\ bank.stage = atm[a].stage /\ bank.buf = AtmPacket(a)

Turns == \A a \in Atms, c \in Conns : Live(a) /\ atm[a].sd = c => Turn(a, c)

\* The order of a connection is posted when its session ends, and the reply
\* on the wire is the one that was posted; an ATM can open it unless the bank
\* could not open the order.
Posted ==
  /\ \A c \in Conns : entry[c] # None => tcp[c] = "shut" \/ Closes(c)
  /\ \A c \in Conns : fate[c] = "told" => entry[c] # None
  /\ \A a \in Atms, c \in Conns :
       Live(a) /\ atm[a].sd = c /\ atm[a].stage = "bank" /\ down[c] # <<>> =>
         /\ entry[c] # None /\ Head(down[c]).body = entry[c]
         /\ \/ Head(down[c]).key = CipherKey(build.atm, atm[a].key)
            \/ build.bank = "raw" \/ entry[c].type = "BAD_FORMAT"

\* An ATM that is done with connection c leaves the bank nothing to read there.
Left(c) ==
  \/ tcp[c] = "shut"
  \/ tcp[c] = "fin" /\ up[c] = <<>> /\ ~Holds(c)

\* While no system call fails, an ATM that gives up has had nothing posted,
\* and only a killed one has its connection reset.
FailsClean ==
  /\ \A a \in Atms, c \in Conns : Live(a) /\ atm[a].sd = c /\ entry[c] # None =>
       atm[a].stage = "bank" /\ down[c] # <<>>
  /\ \A c \in Conns : fate[c] \in {"told", "failed"} => Left(c)
  /\ \A c \in Conns : tcp[c] \in {"rst_due", "rst"} => fate[c] = "gone"

\* A bank that waits for an encrypted HELLO reads nothing of an ATM that sends
\* a plain one, which is shorter.
Unheard ==
  AtmHello = "hello_plain" /\ BankHello = "hello_rsa" =>
    bank.stage = "hello" /\ ~Holds(bank.cd) /\ \A c \in Conns : entry[c] = None

SInv == Owned /\ LinedUp /\ OnePacket /\ Turns /\ Posted /\ Unheard

CleanInv == ~OsFaults => FailsClean
=============================================================================
