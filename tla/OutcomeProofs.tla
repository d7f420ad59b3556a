---------------------------- MODULE OutcomeProofs ----------------------------
(***************************************************************************)
(* What the customers can rely on, for any number of ATMs and connections. *)
(* All of it rests on SessionProofs: whoever reads has what the other side *)
(* wrote for the stage.                                                    *)
(*                                                                         *)
(* Outcomes: an ATM displays the reply that was decided for its order, an  *)
(* ATM that gives up has had nothing posted, and only a killed ATM can end *)
(* the bank.                                                               *)
(*                                                                         *)
(* The ledger: each step of Session is a step of Teller on the order of    *)
(* one connection, or changes nothing that Teller speaks of.  That needs   *)
(* all of the invariant: Sync, so that what bank() reads is the order;     *)
(* Posted, so that it posts once and the ATM shows what was posted;        *)
(* FailsClean, so that an ATM that reports failure has had nothing posted. *)
(*                                                                         *)
(* Conservation: what the accounts hold is the sum of the accepted orders, *)
(* each counted once.  The sum is a fold over the connections, so a part   *)
(* of its own proves, by induction over finite sets, what a sum is and     *)
(* what one more summand makes of it; the induction is Smallest: among the *)
(* subsets of a finite set some smallest one breaks a claim, if any does.  *)
(* The last part is about the steps: bank() alone adds a summand, and it   *)
(* adds the order of the connection that it serves, because what it reads  *)
(* is that order (Sync) and the connection was not served before (Posted). *)
(***************************************************************************)
EXTENDS SessionProofs, FiniteSetTheorems

\* What of the bank and of the accounts the steps of an ATM leave alone.
BankSide == <<safe, reported, build, bank, entry>>
-----------------------------------------------------------------------------
(***************************************************************************)
(* The forms of an ATM's step.                                             *)
(***************************************************************************)
\* ATM a is done with connection c, its order's fate is how, and unread is
\* what it leaves on the wire.
Ends(a, c, how, unread) ==
  /\ Live(a) /\ atm[a].sd = c
  /\ atm'[a].pc \in {"prompt", "exit"} /\ \A b \in Atms \ {a} : atm'[b] = atm[b]
  /\ fate' = [fate EXCEPT ![c] = how]
  /\ Hangup(c, unread)
  /\ unread = down[c] \/ (down[c] # <<>> /\ unread = Tail(down[c]))
  /\ down' = [down EXCEPT ![c] = unread]
  /\ UNCHANGED <<BankSide, backlog, up, order>>

\* Why an ATM is done: it has displayed a reply; it was killed; or it lost the
\* bank, was refused in an earlier stage, or was aborted in one before its send.
Reason(a, c, how, unread) ==
  \/ how = "told" /\ AtmRecvReply(a) /\ down[c] # <<>> /\ unread = Tail(down[c])
  \/ how = "gone" /\ UNCHANGED receipt
  \/ /\ how = "failed" /\ UNCHANGED receipt
     /\ \/ OsFaults
        \/ tcp[c] = "shut" /\ down[c] = <<>>
        \/ atm[a].stage # "bank" /\ down[c] # <<>> /\ unread = Tail(down[c])
        \/ atm[a].stage # "bank" /\ atm[a].pc = "send" /\ down[c] = <<>>

\* ATM a has read the bank's answer and goes on to the next stage.
MovesOn(a, c) ==
  /\ Live(a) /\ atm[a].sd = c /\ atm[a].stage # "bank" /\ down[c] # <<>>
  /\ down' = [down EXCEPT ![c] = Tail(@)]
  /\ \A b \in Atms \ {a} : atm'[b] = atm[b]
  /\ atm'[a].sd = c /\ atm'[a].pc = "send" /\ up[c] = <<>> /\ down'[c] = <<>>
  /\ UNCHANGED <<BankSide, backlog, tcp, up, order, receipt, fate>>

\* ATM a has sent, if the bank is still there.
Sends(a, c) ==
  /\ Live(a) /\ atm[a].sd = c /\ up[c] = <<>> /\ down[c] = <<>>
  /\ \A d \in Conns \ {c} : up'[d] = up[d]
  /\ atm'[a].sd = c /\ \A b \in Atms \ {a} : atm'[b] = atm[b]
  /\ UNCHANGED <<BankSide, backlog, tcp, down, order, receipt, fate>>

\* A killed or failing ATM in one of those forms.
LEMMA ExitEnds ==
  ASSUME Sync, NEW a \in Atms, Live(a), NEW c \in Conns, c = atm[a].sd, NEW how, NEW unread,
         AtmExits(a, how, unread),
         unread = down[c] \/ (down[c] # <<>> /\ unread = Tail(down[c])),
         down' = [down EXCEPT ![c] = unread],
         UNCHANGED <<safe, reported, build, bank, backlog, up>>
  PROVE  Ends(a, c, how, unread) /\ UNCHANGED receipt
<1>1. /\ atm'[a].pc = "exit" /\ \A b \in Atms \ {a} : atm'[b] = atm[b]
      /\ fate' = [fate EXCEPT ![c] = how] /\ Hangup(c, unread)
      /\ UNCHANGED <<order, entry, receipt>>
  BY DEF AtmExits, AtmGoes, AtmBecomes, AtmState, Sync, IInv, TypeOK
<1> QED
  BY <1>1 DEF Ends, BankSide

\* An ATM that fails to send, fails to read or is killed.
LEMMA GivesUpEnds ==
  ASSUME Sync, NEW a \in Atms, AtmSendFails(a) \/ AtmRecvFails(a) \/ AtmKilled(a)
  PROVE  \E c \in Conns, how \in {"failed", "gone"} : \E unread :
           Ends(a, c, how, unread) /\ Reason(a, c, how, unread)
<1>1. Live(a) /\ UNCHANGED <<safe, reported, build, bank, backlog, up, down>>
  BY DEF AtmSendFails, AtmRecvFails, AtmKilled, Live
<1>2. PICK c \in Conns : c = atm[a].sd /\ tcp[c] \in {"open", "shut"} /\ Turn(a, c)
  BY <1>1, LiveConnection
<1>3. down' = [down EXCEPT ![c] = down[c]]
  BY <1>1 DEF Sync, IInv, TypeOK
<1>4. CASE AtmKilled(a)
  <2>1. AtmExits(a, "gone", down[c])
    BY <1>2, <1>4 DEF AtmKilled
  <2>2. Ends(a, c, "gone", down[c]) /\ UNCHANGED receipt
    BY <1>1, <1>2, <1>3, <2>1, ExitEnds
  <2> QED
    BY <2>2 DEF Reason
<1>5. CASE AtmSendFails(a) \/ AtmRecvFails(a)
  <2>1. AtmExits(a, "failed", down[c])
    BY <1>2, <1>5 DEF AtmSendFails, AtmRecvFails
  <2>2. Ends(a, c, "failed", down[c]) /\ UNCHANGED receipt
    BY <1>1, <1>2, <1>3, <2>1, ExitEnds
  <2>3. \/ OsFaults
        \/ tcp[c] = "shut" /\ down[c] = <<>>
        \/ atm[a].stage # "bank" /\ atm[a].pc = "send" /\ down[c] = <<>>
    BY <1>2, <1>5 DEF AtmSendFails, AtmRecvFails, AtmEncryptsFirst, Turn
  <2> QED
    BY <2>2, <2>3 DEF Reason
<1> QED
  BY <1>4, <1>5

\* An ATM that reads.
LEMMA ReadForms ==
  ASSUME Sync, NEW a \in Atms, AtmRecvHello(a) \/ AtmRecvKeyex(a) \/ AtmRecvReply(a)
  PROVE  \/ \E c \in Conns : MovesOn(a, c)
         \/ \E c \in Conns, how \in {"told", "failed"} : \E unread :
              Ends(a, c, how, unread) /\ Reason(a, c, how, unread)
<1>1. Live(a) /\ atm[a].pc = "recv" /\ UNCHANGED <<safe, reported, build, bank, backlog, up>>
  BY DEF AtmRecvHello, AtmRecvKeyex, AtmRecvReply, AtmReads, Live
<1>2. PICK c \in Conns : /\ c = atm[a].sd /\ InOrder(c)
                         /\ up[c] \in Seq(Packet) /\ down[c] \in Seq(Packet)
  BY <1>1, LiveConnection
<1>3. /\ down[c] # <<>> /\ down' = [down EXCEPT ![c] = Tail(down[c])]
      /\ atm[a].stage # "bank" \/ AtmRecvReply(a)
  <2>1. down[c] # <<>> /\ down' = [down EXCEPT ![c] = Tail(down[c])]
    BY <1>2 DEF AtmRecvHello, AtmRecvKeyex, AtmRecvReply, AtmReads
  <2>2. atm[a].stage # "bank" \/ AtmRecvReply(a)
    BY DEF AtmRecvHello, AtmRecvKeyex
  <2> QED
    BY <2>1, <2>2
<1>4. up[c] = <<>> /\ down'[c] = <<>>
  <2>1. up[c] = <<>> /\ Len(down[c]) = 1
    BY <1>2, <1>3, AtMostOne DEF InOrder
  <2> QED
    BY <1>2, <1>3, <2>1, OnlyPacket DEF Sync, IInv, TypeOK
<1>5. CASE AtmRecvReply(a)
  <2>1. /\ atm'[a].pc = "prompt" /\ \A b \in Atms \ {a} : atm'[b] = atm[b]
        /\ fate' = [fate EXCEPT ![c] = "told"] /\ Hangup(c, Tail(down[c]))
        /\ UNCHANGED <<order, entry>>
    BY <1>2, <1>5 DEF AtmRecvReply, AtmBecomes, AtmState, Sync, IInv, TypeOK
  <2>2. Ends(a, c, "told", Tail(down[c]))
    BY <1>1, <1>2, <1>3, <2>1 DEF Ends, BankSide
  <2> QED
    BY <1>3, <1>5, <2>2 DEF Reason
<1>6. CASE AtmExits(a, "failed", Tail(down[c])) /\ atm[a].stage # "bank"
  <2>1. Ends(a, c, "failed", Tail(down[c])) /\ UNCHANGED receipt
    BY <1>1, <1>2, <1>3, <1>6, ExitEnds
  <2> QED
    BY <1>3, <1>6, <2>1 DEF Reason
<1>7. CASE /\ \E stage, key : AtmBecomes(a, "send", stage, c, key)
           /\ UNCHANGED <<tcp, book>> /\ atm[a].stage # "bank"
  <2>1. /\ atm'[a].pc = "send" /\ atm'[a].sd = c
        /\ \A b \in Atms \ {a} : atm'[b] = atm[b]
    BY <1>7 DEF AtmBecomes, AtmState, Sync, IInv, TypeOK
  <2>2. MovesOn(a, c)
    BY <1>1, <1>2, <1>3, <1>4, <1>7, <2>1 DEF MovesOn, BankSide, book
  <2> QED
    BY <2>2
<1> QED
  BY <1>2, <1>5, <1>6, <1>7 DEF AtmRecvHello, AtmRecvKeyex, AtmGoes

\* An ATM that sends.
LEMMA SendForm ==
  ASSUME Sync, NEW a \in Atms, AtmSend(a)
  PROVE  \E c \in Conns : Sends(a, c)
<1>1. PICK c \in Conns : c = atm[a].sd /\ up[c] = <<>> /\ down[c] = <<>> /\ Live(a)
  BY LiveConnection DEF AtmSend, Live, Turn
<1>2. \A d \in Conns \ {c} : up'[d] = up[d]
  BY <1>1 DEF AtmSend, Sync, IInv, TypeOK
<1>3. atm'[a].sd = c /\ \A b \in Atms \ {a} : atm'[b] = atm[b]
  BY <1>1 DEF AtmSend, AtmGoes, AtmBecomes, AtmState, Sync, IInv, TypeOK
<1> QED
  BY <1>1, <1>2, <1>3 DEF Sends, BankSide, AtmSend, book

\* Every step of an ATM in a session has one of the forms.
LEMMA AtmForms ==
  ASSUME Sync, NEW a \in Atms, AtmStep(a) \/ AtmKilled(a)
  PROVE  \/ \E c \in Conns : Sends(a, c) \/ MovesOn(a, c)
         \/ \E c \in Conns, how \in {"told", "failed", "gone"} : \E unread :
              Ends(a, c, how, unread) /\ Reason(a, c, how, unread)
BY GivesUpEnds, ReadForms, SendForm DEF AtmStep
-----------------------------------------------------------------------------
(***************************************************************************)
(* The forms of a step of the bank.                                        *)
(***************************************************************************)
\* The bank accepts, waits, reads or gives up a session; it answers nothing.
Quiet ==
  /\ UNCHANGED <<safe, reported, build, atm, tcp, down, book>>
  /\ Queued' \subseteq Queued /\ bank'.pc # "exit"
  /\ \A d \in Conns : /\ Closes(d) => Closes(d)'
                      /\ Holds(d)' => Holds(d) \/ up[d] # <<>>
                      /\ up[d] = <<>> => up'[d] = <<>>

\* The bank dies of a fault of the system, of a connection that was reset, or
\* of what RSA gave back in an early stage.
Dies ==
  /\ BankExits /\ UNCHANGED <<safe, reported, build, atm, backlog, up, down, book>>
  /\ \/ OsFaults
     \/ bank.cd \in Conns /\ tcp[bank.cd] = "rst"
     \/ ~PlainBuilds /\ bank.stage \in {"hello", "keyex"} /\ bank.buf # None

\* The bank closes connection c.
ClosesNow(c) ==
  /\ bank'.pc = "accept" /\ bank'.cd = None
  /\ \A d \in Conns : tcp'[d] = IF d = c THEN "shut" ELSE tcp[d]
  /\ \A d \in Conns \ {c} : ~Closes(d)
  /\ UNCHANGED <<safe, reported, build, atm, backlog, up, down, book>>

\* The bank answers what it has of connection c with p, if c's ATM still
\* listens, and goes on to pc; or the system fails to send it.
Replies(c, p, pc) ==
  /\ Holds(c) /\ bank'.cd = c /\ bank'.pc \in {pc, "shutdown"}
  /\ UNCHANGED <<build, atm, backlog, up, order, receipt, fate>>
  /\ \A d \in Conns \ {c} : tcp'[d] = tcp[d] /\ down'[d] = down[d]
  /\ \/ /\ down'[c] = IF tcp[c] = "open" THEN Append(<<>>, p) ELSE <<>>
        /\ tcp'[c] = IF tcp[c] = "fin" THEN "rst_due" ELSE tcp[c]
     \/ OsFaults /\ tcp'[c] = tcp[c] /\ down'[c] = <<>>

\* A handler that answers.
LEMMA BankSendsForm ==
  ASSUME Sync, bank.pc = "handle", NEW p \in Packet, NEW pc, NEW stage, NEW k,
         BankSends(p, pc, stage, k),
         UNCHANGED <<build, atm, backlog, up, order, receipt, fate>>
  PROVE  Replies(bank.cd, p, pc) /\ bank.cd \in Conns
<1>1. PICK c \in Conns : c = bank.cd /\ Holds(c)
  BY ServedConnection DEF Holds
<1>2. down[c] = <<>> /\ tcp[c] \in {"open", "fin"}
  BY <1>1, HeldConnection
<1>3. CASE OsFaults /\ bank' = [bank EXCEPT !.pc = "shutdown"] /\ UNCHANGED <<tcp, down>>
  BY <1>1, <1>2, <1>3 DEF Replies, Sync, IInv, TypeOK, BankStates
<1>4. CASE /\ down' = [down EXCEPT ![c] = IF tcp[c] = "open" THEN Append(@, p) ELSE @]
           /\ tcp' = [tcp EXCEPT ![c] = IF @ = "fin" THEN "rst_due" ELSE @]
           /\ bank' = [bank EXCEPT !.pc = pc, !.stage = stage, !.key = k]
  <2>1. bank'.cd = c /\ bank'.pc = pc
    BY <1>1, <1>4 DEF Sync, IInv, TypeOK, BankStates
  <2>2. /\ \A d \in Conns \ {c} : tcp'[d] = tcp[d] /\ down'[d] = down[d]
        /\ tcp'[c] = IF tcp[c] = "fin" THEN "rst_due" ELSE tcp[c]
        /\ down'[c] = IF tcp[c] = "open" THEN Append(<<>>, p) ELSE <<>>
    BY <1>2, <1>4 DEF Sync, IInv, TypeOK
  <2> QED
    BY <1>1, <2>1, <2>2 DEF Replies
<1> QED
  BY <1>1, <1>2, <1>3, <1>4 DEF BankSends

\* The bank in try_recv(), and when it accepts.
LEMMA WaitsQuietly ==
  ASSUME Sync, \/ Accept \/ Arm \/ EnterRecv \/ BankReads \/ BankReadFails
               \/ AlarmFires \/ Disarm
  PROVE  Quiet
<1> USE DEF Sync
<1>1. CASE Accept
  <2>1. bank' = [bank EXCEPT !.pc = "arm", !.stage = "hello", !.key = None, !.cd = Head(backlog)]
    BY <1>1 DEF Accept
  <2>2. bank'.pc = "arm" /\ bank.pc = "accept"
    BY <1>1, <2>1 DEF Accept, IInv, TypeOK, BankStates
  <2>3. Queued' \subseteq Queued
    BY <1>1, QueueShrinks DEF Accept
  <2> QED
    BY <1>1, <2>2, <2>3 DEF Accept, Quiet, Closes, Holds, wire
<1>2. CASE BankReads
  <2>1. PICK c \in Conns : c = bank.cd
    BY <1>2, ServedConnection DEF BankReads
  <2>2. /\ bank.pc = "recv" /\ up[c] # <<>> /\ up' = [up EXCEPT ![c] = Tail(@)]
        /\ bank'.pc = "disarm" /\ bank'.cd = c
        /\ UNCHANGED <<safe, reported, build, atm, backlog, tcp, down, book>>
    BY <1>2, <2>1 DEF BankReads, IInv, TypeOK, BankStates
  <2>3. \A d \in Conns : up[d] = <<>> => up'[d] = <<>>
    BY <2>2 DEF IInv, TypeOK
  <2> QED
    BY <2>1, <2>2, <2>3 DEF Quiet, Closes, Holds, Queued
<1>3. CASE Arm \/ EnterRecv \/ BankReadFails \/ AlarmFires \/ Disarm
  <2>1. /\ UNCHANGED <<safe, reported, build, atm, backlog, wire, book>> /\ bank'.cd = bank.cd
        /\ bank.pc \in {"arm", "enter", "recv", "disarm"} /\ bank'.pc # "exit"
        /\ (bank.pc = "disarm" /\ bank'.buf = bank.buf) \/ bank'.pc \in {"enter", "recv", "shutdown"}
             \/ (bank'.pc = "disarm" /\ bank'.buf = None)
    <3> USE DEF IInv, TypeOK, BankStates
    <3>1. CASE Arm
      BY <3>1 DEF Arm
    <3>2. CASE EnterRecv
      BY <3>2 DEF EnterRecv
    <3>3. CASE BankReadFails
      BY <3>3 DEF BankReadFails
    <3>4. CASE AlarmFires
      BY <3>4 DEF AlarmFires
    <3>5. CASE Disarm
      BY <3>5 DEF Disarm
    <3> QED
      BY <1>3, <3>1, <3>2, <3>3, <3>4, <3>5
  <2>2. \A d \in Conns : ~Closes(d) /\ (Holds(d)' => Holds(d))
    <3>1. CASE Disarm
      BY <2>1, <3>1 DEF Disarm, Closes, Holds, IInv, TypeOK, BankStates
    <3>2. CASE ~Disarm
      <4>1. bank'.pc # "handle"
        BY <1>3, <3>2 DEF Arm, EnterRecv, BankReadFails, AlarmFires, IInv, TypeOK, BankStates
      <4> QED
        BY <2>1, <4>1 DEF Closes, Holds
    <3> QED
      BY <3>1, <3>2
  <2> QED
    BY <2>1, <2>2 DEF Quiet, wire, Queued
<1> QED
  BY <1>1, <1>2, <1>3

\* Every step of the bank but that of bank() has one of the forms.
LEMMA BankForms ==
  ASSUME Sync, BankStep \/ AlarmFires
  PROVE  \/ Quiet \/ Dies \/ Serve
         \/ \E c \in Conns : ClosesNow(c)
         \/ /\ bank.stage # "bank" /\ UNCHANGED <<safe, reported, entry>>
            /\ \E c \in Conns, p \in Packet, pc \in {"arm", "shutdown"} : Replies(c, p, pc)
<1> USE DEF Sync
<1>1. CASE AcceptFails
  BY <1>1 DEF AcceptFails, Dies
<1>2. CASE Shutdown
  <2>1. PICK c \in Conns : c = bank.cd /\ bank.pc = "shutdown"
    BY <1>2, ServedConnection DEF Shutdown
  <2>2. CASE BankExits /\ (OsFaults \/ tcp[c] = "rst")
    BY <1>2, <2>1, <2>2 DEF Shutdown, Dies
  <2>3. CASE /\ tcp' = [tcp EXCEPT ![c] = "shut"]
             /\ bank' = [bank EXCEPT !.pc = "accept", !.cd = None, !.buf = None]
    <3>1. bank'.pc = "accept" /\ bank'.cd = None
      BY <2>3 DEF IInv, TypeOK, BankStates
    <3>2. \A d \in Conns : tcp'[d] = IF d = c THEN "shut" ELSE tcp[d]
      BY <2>3 DEF IInv, TypeOK
    <3>3. \A d \in Conns \ {c} : ~Closes(d)
      BY <2>1 DEF Closes
    <3>4. UNCHANGED <<safe, reported, build, atm, backlog, up, down, book>>
      BY <1>2 DEF Shutdown
    <3> QED
      BY <3>1, <3>2, <3>3, <3>4 DEF ClosesNow
  <2> QED
    BY <1>2, <2>1, <2>2, <2>3 DEF Shutdown
<1>3. CASE Hello
  <2>1. /\ bank.pc = "handle" /\ bank.stage = "hello" /\ bank.stage # "bank"
        /\ UNCHANGED <<safe, reported, build, atm, backlog, up, order, entry, receipt, fate>>
    BY <1>3 DEF Hello, book
  <2>2. CASE BankSends(Plain(BankHello, None), "arm", "keyex", None)
    <3>1. Plain(BankHello, None) \in Packet
      BY DEF Plain, BankHello, Packet, Handshake, Length, CipherKeys
    <3> QED
      BY <2>1, <2>2, <3>1, BankSendsForm
  <2>3. CASE bank' = [bank EXCEPT !.pc = "shutdown"] /\ UNCHANGED <<tcp, down>>
    <3>1. bank'.pc = "shutdown"
      BY <2>3 DEF IInv, TypeOK, BankStates
    <3> QED
      BY <2>1, <2>3, <3>1 DEF Quiet, Closes, Holds, Queued, book
  <2> QED
    BY <1>3, <2>2, <2>3 DEF Hello
<1>4. CASE Keyex
  <2>1. /\ bank.pc = "handle" /\ bank.stage # "bank"
        /\ UNCHANGED <<safe, reported, build, atm, backlog, up, order, entry, receipt, fate>>
    BY <1>4 DEF Keyex, book
  <2>2. PICK o \in KeyOutcomes :
          \/ BankSends(Plain("server_half", o[2]), "shutdown", "keyex", None)
          \/ BankSends(Plain("server_half", o[2]), "arm", "bank", o[1])
    BY <1>4 DEF Keyex
  <2>3. Plain("server_half", o[2]) \in Packet
    <3>1. o[2] \in Keys \cup {None}
      BY SessionAssumption
    <3> QED
      BY <3>1 DEF Plain, Packet, Handshake, Length, CipherKeys
  <2> QED
    BY <2>1, <2>2, <2>3, BankSendsForm
<1>5. CASE BankAborts
  <2>1. bank.buf # None
    BY <1>5, NoneAssumption DEF BankAborts, IInv, Placed
  <2> QED
    BY <1>5, <2>1 DEF BankAborts, Dies, PlainBuilds, BankHello
<1> QED
  BY <1>1, <1>2, <1>3, <1>4, <1>5, WaitsQuietly DEF BankStep
-----------------------------------------------------------------------------
(***************************************************************************)
(* Posted is kept.                                                         *)
(***************************************************************************)
Over(c) == tcp[c] = "shut" \/ Closes(c)

\* A step that posts nothing and answers no order.
LEMMA NothingPosted ==
  ASSUME Posted, UNCHANGED <<entry, build>>,
         \A c \in Conns : Over(c) => Over(c)',
         \A c \in Conns : fate'[c] = "told" => fate[c] = "told" \/ entry[c] # None,
         \A a \in Atms, c \in Conns :
           (Live(a) /\ atm[a].sd = c /\ atm[a].stage = "bank" /\ down[c] # <<>>)' =>
             atm'[a] = atm[a] /\ down'[c] = down[c]
  PROVE  Posted'
<1>1. \A c \in Conns : (entry[c] # None)' => Over(c)'
  BY DEF Posted, Over
<1>2. ASSUME NEW a \in Atms, NEW c \in Conns,
             (Live(a) /\ atm[a].sd = c /\ atm[a].stage = "bank" /\ down[c] # <<>>)'
      PROVE  (/\ entry[c] # None /\ Head(down[c]).body = entry[c]
              /\ \/ Head(down[c]).key = CipherKey(build.atm, atm[a].key)
                 \/ build.bank = "raw" \/ entry[c].type = "BAD_FORMAT")'
  <2>1. /\ Live(a) /\ atm[a].sd = c /\ atm[a].stage = "bank" /\ down[c] # <<>>
        /\ atm'[a] = atm[a] /\ down'[c] = down[c]
    BY <1>2 DEF Live
  <2>2. /\ entry[c] # None /\ Head(down[c]).body = entry[c]
        /\ \/ Head(down[c]).key = CipherKey(build.atm, atm[a].key)
           \/ build.bank = "raw" \/ entry[c].type = "BAD_FORMAT"
    BY <2>1 DEF Posted
  <2> QED
    BY <2>1, <2>2 DEF CipherKey
<1>3. \A c \in Conns : (fate[c] = "told" => entry[c] # None)'
  BY DEF Posted
<1> QED
  BY <1>1, <1>2, <1>3 DEF Posted, Over

\* A connection that is free or was not reached has nothing posted.
LEMMA OpenNotPosted ==
  ASSUME Sync, Posted, NEW c \in Conns, ~Closes(c) \/ tcp[c] = "free", tcp[c] # "shut"
  PROVE  entry[c] = None
BY DEF Posted, Sync, LinedUp, Closes

\* The steps of an ATM keep Posted.
LEMMA AtmPosted ==
  ASSUME Sync, Posted, NEW a \in Atms,
         \/ \E c \in Conns, m \in Requests : Connect(a, c, m)
         \/ ConnectFails(a) \/ Quit(a) \/ AtmStep(a) \/ AtmKilled(a)
  PROVE  Posted'
<1> USE DEF Sync
<1>1. ASSUME NEW c \in Conns, NEW m \in Requests, Connect(a, c, m)
      PROVE  Posted'
  <2>1. /\ tcp[c] = "free" /\ tcp' = [tcp EXCEPT ![c] = "open"]
        /\ fate' = [fate EXCEPT ![c] = "waiting"]
        /\ UNCHANGED <<build, bank, down, entry>>
    BY <1>1 DEF Connect
  <2>2. ~Closes(c) /\ \A d \in Conns : Over(d) => Over(d)'
    BY <2>1 DEF Over, Closes, LinedUp, IInv, TypeOK
  <2>3. \A b \in Atms : (Live(b) /\ atm[b].stage = "bank")' => atm'[b] = atm[b]
    BY <1>1 DEF Connect, AtmBecomes, AtmState, IInv, TypeOK
  <2>4. \A d \in Conns : fate'[d] = "told" => fate[d] = "told"
    BY <2>1 DEF IInv, TypeOK
  <2> QED
    BY <2>1, <2>2, <2>3, <2>4, NothingPosted
<1>2. CASE ConnectFails(a) \/ Quit(a)
  <2>1. UNCHANGED <<build, bank, tcp, down, entry, fate>>
    BY <1>2 DEF ConnectFails, Quit, wire, book
  <2>2. \A b \in Atms : Live(b)' => atm'[b] = atm[b]
    BY <1>2 DEF ConnectFails, Quit, AtmGoes, AtmBecomes, AtmState, Live, IInv, TypeOK
  <2> QED
    BY <2>1, <2>2, NothingPosted DEF Over, Closes
<1>3. ASSUME NEW c \in Conns, Sends(a, c)
      PROVE  Posted'
  <2>1. UNCHANGED <<build, bank, tcp, down, entry, fate>> /\ down[c] = <<>>
    BY <1>3 DEF Sends, BankSide
  <2>2. \A b \in Atms, d \in Conns : (atm[b].sd = d /\ down[d] # <<>>)' => atm'[b] = atm[b]
    BY <1>3, <2>1 DEF Sends
  <2> QED
    BY <2>1, <2>2, NothingPosted DEF Over, Closes
<1>4. ASSUME NEW c \in Conns, MovesOn(a, c)
      PROVE  Posted'
  <2>1. UNCHANGED <<build, bank, tcp, entry, fate>>
    BY <1>4 DEF MovesOn, BankSide
  <2>2. \A b \in Atms, d \in Conns : (atm[b].sd = d /\ down[d] # <<>>)' =>
          atm'[b] = atm[b] /\ down'[d] = down[d]
    BY <1>4 DEF MovesOn, IInv, TypeOK
  <2> QED
    BY <2>1, <2>2, NothingPosted DEF Over, Closes
<1>5. ASSUME NEW c \in Conns, NEW how \in {"told", "failed", "gone"}, NEW unread,
             Ends(a, c, how, unread), Reason(a, c, how, unread)
      PROVE  Posted'
  <2>1. /\ UNCHANGED <<build, bank, entry>> /\ Live(a) /\ atm[a].sd = c
        /\ fate' = [fate EXCEPT ![c] = how] /\ Hangup(c, unread)
        /\ down' = [down EXCEPT ![c] = unread]
        /\ ~Live(a)' /\ \A b \in Atms \ {a} : atm'[b] = atm[b]
    BY <1>5 DEF Ends, BankSide, Live
  <2>2. \A d \in Conns : Over(d) => Over(d)'
    BY <2>1 DEF Over, Closes, Hangup, IInv, TypeOK
  <2>3. how = "told" => entry[c] # None
    <3> SUFFICES ASSUME how = "told" PROVE entry[c] # None
      OBVIOUS
    <3>1. atm[a].stage = "bank" /\ down[c] # <<>>
      BY <1>5 DEF Reason, AtmRecvReply
    <3> QED
      BY <2>1, <3>1 DEF Posted
  <2>4. \A d \in Conns : fate'[d] = "told" => fate[d] = "told" \/ entry[d] # None
    BY <2>1, <2>3 DEF IInv, TypeOK
  <2>5. \A b \in Atms, d \in Conns : (Live(b) /\ atm[b].sd = d)' =>
          atm'[b] = atm[b] /\ down'[d] = down[d]
    <3> SUFFICES ASSUME NEW b \in Atms, NEW d \in Conns, (Live(b) /\ atm[b].sd = d)'
                 PROVE  atm'[b] = atm[b] /\ down'[d] = down[d]
      OBVIOUS
    <3>1. b # a /\ atm'[b] = atm[b]
      BY <2>1
    <3>2. d # c
      BY <2>1, <3>1, LiveConnection
    <3> QED
      BY <2>1, <3>1, <3>2 DEF IInv, TypeOK
  <2> QED
    BY <2>1, <2>2, <2>4, <2>5, NothingPosted
<1> QED
  BY <1>1, <1>2, <1>3, <1>4, <1>5, AtmForms

\* What bank() makes of a packet: the order in it, or a refusal.
LEMMA ServeForm ==
  ASSUME Sync, Serve
  PROVE  \E c \in Conns, p \in Packet, m \in Msg, r \in Msg :
           /\ Replies(c, p, "shutdown") /\ Closes(c)' /\ bank.stage = "bank"
           /\ p = Sealed(CipherKey(build.bank, bank.key), r)
           /\ m \in RecvMsg(bank.buf, build.bank, bank.key)
           /\ Bank(m, r) /\ entry' = [entry EXCEPT ![c] = r]
<1> USE DEF Sync
<1>1. /\ UNCHANGED <<build, atm, backlog, up, order, receipt, fate>>
      /\ bank.pc = "handle" /\ bank.stage = "bank" /\ bank.key \in Keys \cup {None}
  BY DEF Serve, IInv, TypeOK, BankStates
<1>2. PICK c \in Conns : c = bank.cd /\ bank.buf \in Packet
  BY <1>1 DEF IInv, Placed
<1>3. PICK m \in RecvMsg(bank.buf, build.bank, bank.key), r \in Msg :
        /\ Bank(m, r) /\ entry' = [entry EXCEPT ![c] = r]
        /\ BankSends(Sealed(CipherKey(build.bank, bank.key), r), "shutdown", "bank", bank.key)
  BY <1>2 DEF Serve
<1>4. m \in Msg
  BY <1>2, RecvMsgTyped
<1> DEFINE p == Sealed(CipherKey(build.bank, bank.key), r)
<1>5. p \in Packet
  BY <1>1 DEF Sealed, CipherKey, Packet, CipherKeys
<1>6. Replies(c, p, "shutdown")
  BY <1>1, <1>2, <1>3, <1>5, BankSendsForm
<1>7. Closes(c)'
  BY <1>6 DEF Replies, Closes
<1> QED
  BY <1>1, <1>3, <1>4, <1>5, <1>6, <1>7

\* bank() posts what it sends.
LEMMA ServePosted ==
  ASSUME Sync, Posted, Serve
  PROVE  Posted'
<1> USE DEF Sync
<1>1. PICK c \in Conns, p \in Packet, m \in Msg, r \in Msg :
        /\ Replies(c, p, "shutdown") /\ Closes(c)' /\ bank.stage = "bank"
        /\ p = Sealed(CipherKey(build.bank, bank.key), r)
        /\ m \in RecvMsg(bank.buf, build.bank, bank.key)
        /\ Bank(m, r) /\ entry' = [entry EXCEPT ![c] = r]
  BY ServeForm
<1>2. /\ Holds(c) /\ bank'.cd = c /\ r # None
      /\ UNCHANGED <<build, atm, fate>>
      /\ \A d \in Conns \ {c} : tcp'[d] = tcp[d] /\ down'[d] = down[d] /\ entry'[d] = entry[d]
      /\ entry'[c] = r /\ (down'[c] = <<>> \/ down'[c] = Append(<<>>, p))
  BY <1>1, NoneAssumption DEF Replies, IInv, TypeOK
<1>3. \A d \in Conns : (entry[d] # None => tcp[d] = "shut" \/ Closes(d))'
  <2>1. ~\E d \in Conns : Closes(d)
    BY <1>2 DEF Holds, Closes
  <2> QED
    BY <1>1, <1>2, <2>1 DEF Posted
<1>4. \A d \in Conns : (fate[d] = "told" => entry[d] # None)'
  BY <1>2 DEF Posted
<1>5. ASSUME NEW a \in Atms, NEW d \in Conns,
             (Live(a) /\ atm[a].sd = d /\ atm[a].stage = "bank" /\ down[d] # <<>>)'
      PROVE  (/\ entry[d] # None /\ Head(down[d]).body = entry[d]
              /\ \/ Head(down[d]).key = CipherKey(build.atm, atm[a].key)
                 \/ build.bank = "raw" \/ entry[d].type = "BAD_FORMAT")'
  <2>1. Live(a) /\ atm[a].sd = d /\ atm[a].stage = "bank"
    BY <1>2, <1>5 DEF Live
  <2>2. CASE d # c
    BY <1>2, <1>5, <2>1, <2>2 DEF Posted, CipherKey
  <2>3. CASE d = c
    <3>1. Head(down'[c]) = p /\ p.body = r /\ p.key = CipherKey(build.bank, bank.key)
      BY <1>1, <1>2, <1>5, <2>3, FirstPacket DEF Sealed
    <3>2. bank.buf = Sealed(CipherKey(build.atm, atm[a].key), order[c])
      BY <1>1, <1>2, <2>1, <2>3, HeldConnection DEF AtmPacket
    <3>3. CASE bank.buf.key = CipherKey(build.bank, bank.key)
      BY <1>2, <2>3, <3>1, <3>2, <3>3 DEF Sealed, CipherKey
    <3>4. CASE bank.buf.key # CipherKey(build.bank, bank.key) /\ build.bank # "raw"
      <4>1. m = Message("INVALID", 0, 0)
        BY <1>1, <3>4 DEF RecvMsg
      <4>2. r.type = "BAD_FORMAT"
        BY <1>1, <4>1 DEF Bank, Deposit, Withdraw, Balance, BadFormat, Refuse, Message
      <4> QED
        BY <1>2, <2>3, <3>1, <4>2
    <3>5. CASE build.bank = "raw"
      BY <1>2, <2>3, <3>1, <3>5
    <3> QED
      BY <3>3, <3>4, <3>5
  <2> QED
    BY <2>2, <2>3
<1> QED
  BY <1>3, <1>4, <1>5 DEF Posted

\* The steps of the bank keep Posted.
LEMMA BankPosted ==
  ASSUME Sync, Posted, BankStep \/ AlarmFires
  PROVE  Posted'
<1> USE DEF Sync
<1>1. CASE Quiet
  <2>1. UNCHANGED <<build, atm, tcp, down, entry, fate>> /\ \A d \in Conns : Closes(d) => Closes(d)'
    BY <1>1 DEF Quiet, book
  <2> QED
    BY <2>1, NothingPosted DEF Over
<1>2. CASE Dies
  <2>1. UNCHANGED <<build, atm, down, entry, fate>>
    BY <1>2 DEF Dies, book
  <2>2. \A d \in Conns : Over(d) => tcp'[d] = "shut"
    BY <1>2 DEF Dies, BankExits, Over, Closes, LinedUp, IInv, TypeOK
  <2> QED
    BY <2>1, <2>2, NothingPosted DEF Over
<1>3. ASSUME NEW c \in Conns, ClosesNow(c)
      PROVE  Posted'
  <2>1. UNCHANGED <<build, atm, down, entry, fate>>
    BY <1>3 DEF ClosesNow, book
  <2>2. \A d \in Conns : Over(d) => tcp'[d] = "shut"
    BY <1>3 DEF ClosesNow, Over
  <2> QED
    BY <2>1, <2>2, NothingPosted DEF Over
<1>4. ASSUME NEW c \in Conns, NEW p, NEW pc, Replies(c, p, pc), bank.stage # "bank",
             UNCHANGED entry
      PROVE  Posted'
  <2>1. /\ Holds(c) /\ UNCHANGED <<build, atm, entry, fate>>
        /\ \A d \in Conns \ {c} : tcp'[d] = tcp[d] /\ down'[d] = down[d]
    BY <1>4 DEF Replies
  <2>2. tcp[c] # "shut" /\ \A a \in Atms : Live(a) /\ atm[a].sd = c => atm[a].stage # "bank"
    BY <1>4, <2>1, HeldConnection
  <2>3. \A d \in Conns : Over(d) => tcp'[d] = "shut"
    BY <2>1, <2>2 DEF Over, Holds, Closes
  <2> QED
    BY <2>1, <2>2, <2>3, NothingPosted DEF Over, Live
<1> QED
  BY <1>1, <1>2, <1>3, <1>4, ServePosted, BankForms

\* Every step keeps Posted.
LEMMA NextPosted ==
  ASSUME Sync, Posted, [Next]_vars
  PROVE  Posted'
<1>1. ASSUME NEW c \in Conns, RstArrives(c)
      PROVE  Posted'
  <2>1. UNCHANGED <<build, atm, bank, down, entry, fate>>
    BY <1>1 DEF RstArrives, book
  <2>2. \A d \in Conns : Over(d) => Over(d)'
    BY <1>1 DEF RstArrives, Over, Closes, Sync, IInv, TypeOK
  <2> QED
    BY <2>1, <2>2, NothingPosted
<1>2. CASE UNCHANGED vars
  BY <1>2, NothingPosted DEF vars, wire, book, Over, Closes
<1> QED
  BY <1>1, <1>2, AtmPosted, BankPosted DEF Next, Terminating
-----------------------------------------------------------------------------
(***************************************************************************)
(* A reply that is displayed is the one that was decided.                  *)
(***************************************************************************)
\* Both programs encrypt, or neither does.
CiphersMatch == \A b \in Builds : b.atm = "raw" <=> b.bank = "raw"

\* What an ATM makes of the reply.
LEMMA ReplyRead ==
  ASSUME CiphersMatch, Sync, Posted, Unheard, NEW a \in Atms, AtmRecvReply(a),
         NEW c \in Conns, c = atm[a].sd
  PROVE  /\ entry[c] # None
         /\ \E m : /\ receipt' = [receipt EXCEPT ![c] = m]
                   /\ \/ m = entry[c]
                      \/ m = Message("INVALID", 0, 0) /\ entry[c].type = "BAD_FORMAT"
<1> USE DEF Sync
<1>1. /\ Live(a) /\ atm[a].pc = "recv" /\ atm[a].stage = "bank" /\ down[c] # <<>>
      /\ entry[c] # None /\ Head(down[c]).body = entry[c]
      /\ \/ Head(down[c]).key = CipherKey(build.atm, atm[a].key)
         \/ build.bank = "raw" \/ entry[c].type = "BAD_FORMAT"
  BY DEF AtmRecvReply, AtmReads, Live, Posted
<1>2. Head(down[c]).kind = "msg"
  BY <1>1, LiveConnection DEF Turn, AtmAwaits
<1>3. build.atm # "raw" /\ build.bank # "raw"
  <2>1. build \in Builds
    BY DEF IInv, TypeOK
  <2>2. ~(AtmHello = "hello_plain" /\ BankHello = "hello_rsa")
    BY <1>1 DEF Unheard
  <2> QED
    BY <2>1, <2>2 DEF CiphersMatch, AtmHello, BankHello
<1>4. PICK m \in RecvMsg(Head(down[c]), build.atm, atm[a].key) :
        receipt' = [receipt EXCEPT ![c] = m]
  BY DEF AtmRecvReply
<1>5. m = entry[c] \/ (m = Message("INVALID", 0, 0) /\ entry[c].type = "BAD_FORMAT")
  BY <1>1, <1>2, <1>3, <1>4 DEF RecvMsg
<1> QED
  BY <1>1, <1>4, <1>5

\* An order that was displayed is over: no later step changes it.
LEMMA NextTold ==
  ASSUME CiphersMatch, Sync, Posted, Unheard, ToldTruly, [Next]_vars
  PROVE  ToldTruly'
<1> USE DEF Sync
<1>1. ASSUME UNCHANGED <<entry, receipt>>, \A c \in Conns : fate'[c] = "told" => fate[c] = "told"
      PROVE  ToldTruly'
  BY <1>1 DEF ToldTruly
<1>2. ASSUME NEW a \in Atms, NEW c \in Conns, NEW m \in Requests, Connect(a, c, m)
      PROVE  ToldTruly'
  BY <1>1, <1>2 DEF Connect, IInv, TypeOK
<1>3. ASSUME NEW a \in Atms, ConnectFails(a) \/ Quit(a)
      PROVE  ToldTruly'
  BY <1>1, <1>3 DEF ConnectFails, Quit, book
<1>4. ASSUME NEW a \in Atms, AtmStep(a) \/ AtmKilled(a)
      PROVE  ToldTruly'
  <2>1. ASSUME NEW c \in Conns, Sends(a, c) \/ MovesOn(a, c)
        PROVE  ToldTruly'
    BY <1>1, <2>1 DEF Sends, MovesOn, BankSide
  <2>2. ASSUME NEW c \in Conns, NEW how \in {"failed", "gone"}, NEW unread,
               Ends(a, c, how, unread), UNCHANGED receipt
        PROVE  ToldTruly'
    BY <1>1, <2>2 DEF Ends, BankSide, IInv, TypeOK
  <2>3. ASSUME NEW c \in Conns, NEW unread, Ends(a, c, "told", unread), AtmRecvReply(a)
        PROVE  ToldTruly'
    <3>1. /\ c = atm[a].sd /\ UNCHANGED entry /\ fate' = [fate EXCEPT ![c] = "told"]
      BY <2>3 DEF Ends, BankSide
    <3>2. PICK m : /\ receipt' = [receipt EXCEPT ![c] = m]
                   /\ \/ m = entry[c]
                      \/ m = Message("INVALID", 0, 0) /\ entry[c].type = "BAD_FORMAT"
      BY <2>3, <3>1, ReplyRead
    <3>3. \A d \in Conns \ {c} : fate'[d] = fate[d] /\ receipt'[d] = receipt[d]
      BY <3>1, <3>2 DEF IInv, TypeOK
    <3>4. receipt'[c] = m
      BY <3>2 DEF IInv, TypeOK
    <3> QED
      BY <3>1, <3>2, <3>3, <3>4 DEF ToldTruly, Message
  <2> QED
    BY <1>4, <2>1, <2>2, <2>3, AtmForms DEF Reason
<1>5. ASSUME NEW c \in Conns, RstArrives(c)
      PROVE  ToldTruly'
  BY <1>1, <1>5 DEF RstArrives, book
<1>6. CASE BankStep \/ AlarmFires
  <2>1. CASE UNCHANGED <<entry, receipt, fate>>
    BY <1>1, <2>1
  <2>2. CASE Serve
    <3>1. PICK c \in Conns, p \in Packet, r \in Msg :
            Replies(c, p, "shutdown") /\ entry' = [entry EXCEPT ![c] = r]
      BY <2>2, ServeForm
    <3>2. UNCHANGED <<receipt, fate>> /\ Holds(c)
      BY <3>1 DEF Replies
    <3>3. entry[c] = None
      <4>1. ~Closes(c) /\ tcp[c] # "shut"
        BY <3>2, HeldConnection DEF Holds, Closes
      <4> QED
        BY <4>1, OpenNotPosted
    <3>4. fate[c] # "told"
      BY <3>3 DEF Posted
    <3> QED
      BY <3>1, <3>2, <3>4 DEF ToldTruly, IInv, TypeOK
  <2> QED
    BY <1>6, <2>1, <2>2, BankForms DEF Quiet, Dies, ClosesNow, Replies, book
<1>7. CASE UNCHANGED vars
  BY <1>1, <1>7 DEF vars, book
<1> QED
  BY <1>2, <1>3, <1>4, <1>5, <1>6, <1>7 DEF Next, Terminating

\* At the start nothing is posted, and nobody was told anything.
LEMMA InitPosted == Init => Posted /\ ToldTruly
BY DEF Init, Posted, ToldTruly, Live, IdleAtm, AtmState

\* The invariant on which the theorems about orders rest.
LEMMA PostedKept == Spec => []Posted
BY InitPosted, NextPosted, SyncKept, PTL DEF Spec

(***************************************************************************)
(* For any number of ATMs and connections, any faults of the system and    *)
(* any two builds of which both encrypt or neither does: what a customer   *)
(* is shown is what the bank decided on for that order.                    *)
(***************************************************************************)
THEOREM CustomersAreToldTruly ==
  ASSUME CiphersMatch
  PROVE  Spec => []ToldTruly
BY InitPosted, NextTold, PostedKept, SyncKept, PTL DEF Spec
-----------------------------------------------------------------------------
(***************************************************************************)
(* FailsClean is kept while no system call fails, and with it the claim    *)
(* about what ends the bank.                                               *)
(***************************************************************************)
Clean == FailsClean /\ BankDiesOnlyOfCrash

\* A new order: nothing is posted for it.
LEMMA ConnectClean ==
  ASSUME Sync, Posted, Clean, NEW a \in Atms, NEW c \in Conns, NEW m \in Requests, Connect(a, c, m)
  PROVE  Clean'
<1> USE DEF Sync, Clean
<1>1. /\ tcp' = [tcp EXCEPT ![c] = "open"] /\ fate' = [fate EXCEPT ![c] = "waiting"]
      /\ tcp[c] = "free" /\ backlog' = Append(backlog, c) /\ bank.pc # "exit"
      /\ UNCHANGED <<bank, up, down, entry>>
  BY DEF Connect
<1>2. Queued' = Queued \cup {c} /\ entry[c] = None
  BY <1>1, QueueGrows, OpenNotPosted
<1>3. \A d \in Conns \ {c} : fate'[d] = fate[d] /\ tcp'[d] = tcp[d] /\ (Left(d) => Left(d)')
  BY <1>1, <1>2 DEF Left, Holds, IInv, TypeOK
<1>4. \A b \in Atms : (Live(b) /\ atm[b].sd # c)' => atm'[b] = atm[b]
  BY DEF Connect, AtmBecomes, AtmState, IInv, TypeOK
<1>5. FailsClean'
  <2>1. fate'[c] = "waiting" /\ tcp'[c] = "open"
    BY <1>1 DEF IInv, TypeOK
  <2>2. \A b \in Atms, d \in Conns : (Live(b) /\ atm[b].sd = d /\ entry[d] # None)' =>
          atm'[b].stage = "bank" /\ down'[d] # <<>>
    BY <1>1, <1>2, <1>4 DEF FailsClean, Live
  <2> QED
    BY <1>3, <2>1, <2>2 DEF FailsClean
<1> QED
  BY <1>1, <1>5 DEF BankDiesOnlyOfCrash

\* An ATM that goes on, or leaves before it has a connection.
LEMMA GoesOnClean ==
  ASSUME Sync, Posted, Clean, NEW a \in Atms,
         \/ ConnectFails(a) \/ Quit(a) \/ \E c \in Conns : Sends(a, c) \/ MovesOn(a, c)
  PROVE  Clean'
<1> USE DEF Sync, Clean
<1>1. CASE ConnectFails(a) \/ Quit(a)
  <2>1. UNCHANGED <<build, bank, backlog, tcp, up, down, entry, fate>>
    BY <1>1 DEF ConnectFails, Quit, wire, book
  <2>2. \A b \in Atms : Live(b)' => atm'[b] = atm[b]
    BY <1>1 DEF ConnectFails, Quit, AtmGoes, AtmBecomes, AtmState, Live, IInv, TypeOK
  <2>3. FailsClean'
    BY <2>1, <2>2 DEF FailsClean, Left, Live, Holds, Queued
  <2> QED
    BY <2>1, <2>3 DEF BankDiesOnlyOfCrash, PlainBuilds
<1>2. ASSUME NEW c \in Conns, Sends(a, c) \/ MovesOn(a, c)
      PROVE  Clean'
  <2>1. /\ UNCHANGED <<build, bank, backlog, tcp, entry, fate>> /\ Live(a) /\ atm[a].sd = c
        /\ \A d \in Conns \ {c} : up'[d] = up[d] /\ down'[d] = down[d]
        /\ atm'[a].sd = c /\ \A b \in Atms \ {a} : atm'[b] = atm[b]
    BY <1>2 DEF Sends, MovesOn, BankSide, IInv, TypeOK
  <2>2. entry[c] = None /\ fate[c] = "waiting" /\ \A b \in Atms : atm[b].sd = c => b = a
    BY <1>2, <2>1, LiveConnection DEF Sends, MovesOn, FailsClean
  <2>3. FailsClean'
    <3>1. \A d \in Conns \ {c} : Left(d) => Left(d)'
      BY <2>1 DEF Left, Holds, Queued
    <3>2. \A b \in Atms, d \in Conns : (Live(b) /\ atm[b].sd = d /\ entry[d] # None)' =>
            atm'[b].stage = "bank" /\ down'[d] # <<>>
      BY <2>1, <2>2 DEF FailsClean, Live
    <3> QED
      BY <2>1, <2>2, <3>1, <3>2 DEF FailsClean
  <2> QED
    BY <2>1, <2>3 DEF BankDiesOnlyOfCrash, PlainBuilds
<1> QED
  BY <1>1, <1>2

\* An ATM that is done.
LEMMA EndsClean ==
  ASSUME ~OsFaults, Sync, Posted, Clean, NEW a \in Atms, NEW c \in Conns,
         NEW how \in {"told", "failed", "gone"}, NEW unread,
         Ends(a, c, how, unread), Reason(a, c, how, unread)
  PROVE  Clean'
<1> USE DEF Sync, Clean
<1>1. /\ UNCHANGED <<build, bank, backlog, up, entry>> /\ Live(a) /\ atm[a].sd = c
      /\ fate' = [fate EXCEPT ![c] = how] /\ Hangup(c, unread)
      /\ down' = [down EXCEPT ![c] = unread]
      /\ ~Live(a)' /\ \A b \in Atms \ {a} : atm'[b] = atm[b]
  BY DEF Ends, BankSide, Live
<1>2. /\ tcp[c] \in {"open", "shut"} /\ fate[c] = "waiting" /\ InOrder(c) /\ Turn(a, c)
      /\ up[c] \in Seq(Packet) /\ down[c] \in Seq(Packet)
      /\ \A b \in Atms : atm[b].sd = c => b = a
  BY <1>1, LiveConnection
<1>3. tcp'[c] = IF tcp[c] # "open" THEN tcp[c] ELSE IF unread = <<>> THEN "fin" ELSE "rst"
  BY <1>1 DEF Hangup, IInv, TypeOK
<1>4. \A d \in Conns \ {c} : fate'[d] = fate[d] /\ tcp'[d] = tcp[d] /\ down'[d] = down[d]
  BY <1>1 DEF Hangup, IInv, TypeOK
<1>5. ASSUME how # "gone" PROVE Left(c)' /\ tcp'[c] \in {"fin", "shut"}
  <2>1. CASE tcp[c] = "shut"
    BY <1>3, <2>1 DEF Left
  <2>2. CASE down[c] # <<>> /\ unread = Tail(down[c])
    <3>1. up[c] = <<>> /\ unread = <<>>
      <4>1. up[c] = <<>> /\ Len(down[c]) = 1
        BY <1>2, <2>2, AtMostOne DEF InOrder
      <4> QED
        BY <1>2, <2>2, <4>1, OnlyPacket
    <3>2. ~Holds(c)
      BY <1>2, <2>2 DEF InOrder
    <3>3. ~Holds(c)' /\ up'[c] = <<>>
      BY <1>1, <3>1, <3>2 DEF Holds
    <3> QED
      BY <1>2, <1>3, <3>1, <3>3 DEF Left
  <2>3. CASE tcp[c] = "open" /\ atm[a].pc = "send" /\ down[c] = <<>>
    <3>1. up[c] = <<>> /\ unread = <<>>
      BY <1>2, <2>3 DEF Turn, Ends
    <3>2. ~Holds(c)
      <4>1. Closes(c) \/ Expects(c, atm[a].stage)
        BY <1>2, <2>3 DEF Turn
      <4> QED
        BY <4>1 DEF Closes, Expects, Awaits, Holds, LinedUp
    <3>3. ~Holds(c)' /\ up'[c] = <<>>
      BY <1>1, <3>1, <3>2 DEF Holds
    <3> QED
      BY <1>3, <2>3, <3>1, <3>3 DEF Left
  <2> QED
    BY <1>2, <1>5, <2>1, <2>2, <2>3 DEF Reason
<1>6. FailsClean'
  <2>1. \A d \in Conns \ {c} : Left(d) => Left(d)'
    BY <1>1, <1>4 DEF Left, Holds, Queued
  <2>2. \A b \in Atms, d \in Conns : (Live(b) /\ atm[b].sd = d /\ entry[d] # None)' =>
          atm'[b].stage = "bank" /\ down'[d] # <<>>
    BY <1>1, <1>2, <1>4 DEF FailsClean, Live
  <2>3. fate'[c] = how
    BY <1>1 DEF IInv, TypeOK
  <2> QED
    BY <1>4, <1>5, <2>1, <2>2, <2>3 DEF FailsClean
<1>7. \A d \in Conns : fate[d] = "gone" => fate'[d] = "gone"
  BY <1>2, <1>4
<1> QED
  BY <1>1, <1>6, <1>7 DEF BankDiesOnlyOfCrash, PlainBuilds

\* A bank that answers.
LEMMA RepliesClean ==
  ASSUME ~OsFaults, Sync, Posted, Clean, NEW c \in Conns, NEW p, NEW pc \in {"arm", "shutdown"},
         Replies(c, p, pc), \A d \in Conns \ {c} : entry'[d] = entry[d],
         bank.stage = "bank" \/ UNCHANGED entry
  PROVE  Clean'
<1> USE DEF Sync, Clean
<1>1. /\ Holds(c) /\ UNCHANGED <<atm, backlog, up, fate>> /\ bank'.pc \in {"arm", "shutdown"}
      /\ \A d \in Conns \ {c} : tcp'[d] = tcp[d] /\ down'[d] = down[d]
      /\ down'[c] = IF tcp[c] = "open" THEN Append(<<>>, p) ELSE <<>>
      /\ tcp'[c] = IF tcp[c] = "fin" THEN "rst_due" ELSE tcp[c]
  BY DEF Replies
<1>2. /\ tcp[c] \in {"open", "fin"} /\ c \notin Queued /\ ~Closes(c)
      /\ \A a \in Atms : Live(a) /\ atm[a].sd = c => tcp[c] = "open" /\ atm[a].stage = bank.stage
  BY <1>1, HeldConnection DEF Holds, Closes
<1>3. \A d \in Conns : ~Holds(d)'
  BY <1>1 DEF Holds
<1>4. fate[c] \notin {"told", "failed"} /\ (tcp[c] = "fin" => fate[c] = "gone")
  <2>1. fate[c] \notin {"told", "failed"}
    BY <1>1, <1>2 DEF FailsClean, Left
  <2> QED
    BY <2>1 DEF Owned, IInv, TypeOK, Fates
<1>5. \A a \in Atms, d \in Conns : (Live(a) /\ atm[a].sd = d /\ entry[d] # None)' =>
        atm'[a].stage = "bank" /\ down'[d] # <<>>
  <2> SUFFICES ASSUME NEW a \in Atms, NEW d \in Conns, Live(a), atm[a].sd = d, entry'[d] # None
               PROVE  atm[a].stage = "bank" /\ down'[d] # <<>>
    BY <1>1 DEF Live
  <2>1. CASE d # c
    BY <1>1, <2>1 DEF FailsClean
  <2>2. CASE d = c
    <3>1. entry[c] = None
      BY <1>2, OpenNotPosted
    <3>2. Append(<<>>, p) # <<>>
      BY FirstPacket
    <3> QED
      BY <1>1, <1>2, <2>2, <3>1, <3>2
  <2> QED
    BY <2>1, <2>2
<1>6. \A d \in Conns : fate[d] \in {"told", "failed"} => Left(d)'
  BY <1>1, <1>3, <1>4 DEF FailsClean, Left, Queued
<1>7. FailsClean'
  BY <1>1, <1>2, <1>4, <1>5, <1>6 DEF FailsClean
<1> QED
  BY <1>1, <1>7 DEF BankDiesOnlyOfCrash

\* The steps of the bank.
LEMMA BankClean ==
  ASSUME ~OsFaults, Sync, Posted, Clean, BankStep \/ AlarmFires
  PROVE  Clean'
<1> USE DEF Sync, Clean
<1>1. CASE Quiet
  <2>1. UNCHANGED <<atm, tcp, down, entry, fate>> /\ bank'.pc # "exit"
    BY <1>1 DEF Quiet, book
  <2>2. \A d \in Conns : Left(d) => Left(d)'
    BY <1>1 DEF Quiet, Left
  <2> QED
    BY <2>1, <2>2 DEF FailsClean, BankDiesOnlyOfCrash, Live
<1>2. CASE Dies
  <2>1. UNCHANGED <<atm, down, entry, fate>>
    BY <1>2 DEF Dies, book
  <2>2. \A d \in Conns : tcp'[d] = IF tcp[d] = "free" THEN "free" ELSE "shut"
    BY <1>2 DEF Dies, BankExits
  <2>3. \/ \E d \in Conns : fate[d] = "gone"
        \/ ~PlainBuilds /\ bank.stage \in {"hello", "keyex"} /\ bank.buf # None
    BY <1>2 DEF Dies, FailsClean
  <2>4. FailsClean'
    BY <2>1, <2>2 DEF FailsClean, Left, Owned, Live
  <2>5. UNCHANGED build /\ bank'.stage = bank.stage /\ bank'.buf = bank.buf
    BY <1>2 DEF Dies, BankExits, IInv, TypeOK, BankStates
  <2> QED
    BY <2>1, <2>3, <2>4, <2>5 DEF BankDiesOnlyOfCrash, PlainBuilds
<1>3. ASSUME NEW c \in Conns, ClosesNow(c)
      PROVE  Clean'
  <2>1. UNCHANGED <<atm, backlog, up, down, entry, fate>> /\ bank'.pc = "accept"
    BY <1>3 DEF ClosesNow, book
  <2>2. \A d \in Conns : tcp'[d] = IF d = c THEN "shut" ELSE tcp[d]
    BY <1>3 DEF ClosesNow
  <2>3. \A d \in Conns : Left(d) => Left(d)'
    BY <2>1, <2>2 DEF Left, Holds, Queued
  <2> QED
    BY <2>1, <2>2, <2>3 DEF FailsClean, BankDiesOnlyOfCrash, Live
<1>4. CASE Serve
  <2>1. PICK c \in Conns, p \in Packet, r \in Msg :
          Replies(c, p, "shutdown") /\ bank.stage = "bank" /\ entry' = [entry EXCEPT ![c] = r]
    BY <1>4, ServeForm
  <2>2. \A d \in Conns \ {c} : entry'[d] = entry[d]
    BY <2>1 DEF IInv, TypeOK
  <2> QED
    BY <2>1, <2>2, RepliesClean
<1> QED
  BY <1>1, <1>2, <1>3, <1>4, RepliesClean, BankForms

\* Every step, if no system call fails by itself.
LEMMA NextClean ==
  ASSUME ~OsFaults, Sync, Posted, Clean, [Next]_vars
  PROVE  Clean'
<1>1. ASSUME NEW a \in Atms, AtmStep(a) \/ AtmKilled(a)
      PROVE  Clean'
  BY <1>1, GoesOnClean, EndsClean, AtmForms
<1>2. ASSUME NEW c \in Conns, RstArrives(c)
      PROVE  Clean'
  <2>1. UNCHANGED <<build, bank, atm, backlog, up, down, entry, fate>>
    BY <1>2 DEF RstArrives, book
  <2>2. \A d \in Conns : /\ Left(d) => Left(d)'
                         /\ tcp'[d] \in {"rst_due", "rst"} => tcp[d] \in {"rst_due", "rst"}
    BY <1>2, <2>1 DEF RstArrives, Left, Holds, Queued, Sync, IInv, TypeOK
  <2> QED
    BY <2>1, <2>2 DEF FailsClean, Clean, BankDiesOnlyOfCrash, PlainBuilds, Live
<1>3. CASE UNCHANGED vars
  BY <1>3 DEF vars, wire, book, Clean, FailsClean, Left, BankDiesOnlyOfCrash, PlainBuilds, Live,
              Holds, Queued
<1> QED
  BY <1>1, <1>2, <1>3, ConnectClean, GoesOnClean, BankClean DEF Next, Terminating

\* At the start no connection is in use.
LEMMA InitClean == Init => Clean
BY DEF Init, Clean, FailsClean, BankDiesOnlyOfCrash, Live, IdleAtm, AtmState, IdleBank

\* The invariant of a system whose calls do not fail.
LEMMA CleanKept == ASSUME ~OsFaults PROVE Spec => []Clean
BY InitClean, NextClean, PostedKept, SyncKept, PTL DEF Spec

(***************************************************************************)
(* For any number of ATMs and connections, any builds and any faults, the  *)
(* whole agreement of the two programs is kept: who owns a connection, how *)
(* the backlog is lined up, one packet at a time and of the stage both are *)
(* in, whose turn it is, and that what is on the wire was posted           *)
(* (bank.cpp:45-140, client.cpp:62-140).                                   *)
(***************************************************************************)
THEOREM ProgramsAgree == Spec => []SInv
BY PostedKept, SyncKept, PTL DEF SInv, Sync

(***************************************************************************)
(* For any number of ATMs and connections and any builds: while no system  *)
(* call fails, an ATM that gives up has had nothing posted, the bank is    *)
(* left nothing to read by it, and only an ATM that is killed resets its   *)
(* connection (bank.cpp:64-140, client.cpp:255-281).                       *)
(***************************************************************************)
THEOREM FailuresAreClean == Spec => []CleanInv
<1>1. CASE OsFaults
  <2>1. CleanInv
    BY <1>1 DEF CleanInv
  <2> QED
    BY <2>1, PTL
<1>2. CASE ~OsFaults
  <2>1. Clean => CleanInv
    BY DEF Clean, CleanInv
  <2> QED
    BY <1>2, <2>1, CleanKept, PTL
<1> QED
  BY <1>1, <1>2

(***************************************************************************)
(* For any number of ATMs and connections and any builds, while no system  *)
(* call fails for reasons outside the program: what ends the bank, and     *)
(* every balance with it, is an ATM killed during an order or, unless both *)
(* programs are NRSA builds, an abort with a packet of HELLO or of the key *)
(* exchange in hand (bank.cpp:262-267, ssh.hpp:79-102).                    *)
(***************************************************************************)
THEOREM OnlyCrashesEndTheBank ==
  ASSUME ~OsFaults
  PROVE  Spec => []BankDiesOnlyOfCrash
BY CleanKept, PTL DEF Clean
-----------------------------------------------------------------------------
(***************************************************************************)
(* The ledger.                                                             *)
(***************************************************************************)

\* Teller's view of the array.
bal == [u \in Uids |-> safe[u]]
lines == [u \in Uids |-> reported[u]]

\* A step that Teller does not see.
LEMMA Unseen ==
  ASSUME UNCHANGED <<safe, reported, order, entry, receipt, fate>>
  PROVE  UNCHANGED T!tellerVars
BY DEF T!tellerVars, T!ledger

\* What the switch of bank() does with an order, on the accounts and as a reply.
LEMMA OrderIsPosted ==
  ASSUME BankTypeOK, NEW m \in Requests, NEW r, Bank(m, r), NEW c \in Conns,
         m = order[c], entry' = [entry EXCEPT ![c] = r], UNCHANGED <<order, receipt, fate>>
  PROVE  T!Accepted(c, order[c]) \/ T!Refused(c, order[c])
<1> DEFINE o == m.uid
           n == m.amt
<1>1. Uids \subseteq Uchar
  BY BankAssumption DEF Uchar
<1>2. o \in Uids /\ o \in Uchar /\ n \in Uint64 /\ safe[o] \in Uint64
  BY <1>1, SessionAssumption DEF BankTypeOK
<1>3. ASSUME NEW v, safe' = [safe EXCEPT ![o] = v]
      PROVE  bal' = [bal EXCEPT ![o] = v] /\ safe'[o] = v /\ bal'[o] = v
  BY <1>1, <1>2, <1>3 DEF BankTypeOK, bal
<1>4. ASSUME Report(m, r)
      PROVE  /\ lines' = [lines EXCEPT ![o] = T!Line(m.type, n, safe'[o])]
             /\ r = T!Entry("OK", o, bal'[o])
  BY <1>1, <1>2, <1>4 DEF Report, Line, T!Line, BankTypeOK, lines, bal, T!Entry, Message
<1>5. bal[o] = safe[o]
  BY <1>2 DEF bal
<1>6. ASSUME NEW type, Refuse(m, r, type)
      PROVE  UNCHANGED T!ledger /\ T!Enter(c, T!Entry(type, o, 0))
  BY <1>6 DEF Refuse, bankVars, T!ledger, T!Enter, T!Entry, Message
<1>7. CASE Deposit(m, r) /\ ~TooMuch(m)
  <2>1. Add64(safe[o], n) = safe[o] + n /\ safe[o] + n \in Uint64
    BY <1>2, <1>7, Add64InRange DEF TooMuch
  <2>2. safe' = [safe EXCEPT ![o] = safe[o] + n] /\ Report(m, r) /\ m.type = "DEPOSIT"
    BY <1>2, <1>7, <2>1 DEF Deposit, Refuse, BankTypeOK
  <2>3. T!HasRoom(o, n)
    BY <1>5, <2>1 DEF T!HasRoom, Uint64, bal
  <2>4. T!Credit(o, n)
    BY <1>3, <1>4, <1>5, <2>2, <2>3 DEF T!Credit, bal, lines
  <2> QED
    BY <1>4, <2>2, <2>4 DEF T!Accepted, T!Enter, T!Credit, T!HasRoom, bal
<1>8. CASE Deposit(m, r) /\ TooMuch(m)
  <2>1. m.type = "DEPOSIT" /\ Refuse(m, r, "TOO_MUCH_BANK")
    BY <1>8 DEF Deposit
  <2>2. safe[o] + n > UINT64_MAX
    BY <1>2, <1>8, TooMuchIsNoRoom DEF TooMuch
  <2>3. ~T!HasRoom(o, n)
    BY <1>2, <1>5, <2>2, BankAssumption DEF T!HasRoom, bal, Uint64
  <2> QED
    BY <1>6, <2>1, <2>3 DEF T!Refused
<1>9. CASE Withdraw(m, r) /\ ~NotEnough(m)
  <2>1. Sub64(safe[o], n) = safe[o] - n /\ safe[o] - n \in Uint64
    BY <1>2, <1>9, Sub64InRange DEF NotEnough
  <2>2. safe' = [safe EXCEPT ![o] = safe[o] - n] /\ Report(m, r) /\ m.type = "WITHDRAW"
    BY <1>2, <1>9, <2>1 DEF Withdraw, Refuse, BankTypeOK
  <2>3. T!HasFunds(o, n)
    BY <1>2, <1>5, <1>9 DEF T!HasFunds, NotEnough, Uint64, bal
  <2>4. T!Debit(o, n)
    BY <1>3, <1>4, <1>5, <2>2, <2>3 DEF T!Debit, bal, lines
  <2> QED
    BY <1>4, <2>2, <2>4 DEF T!Accepted, T!Enter, T!Debit, T!HasFunds, bal
<1>10. CASE Withdraw(m, r) /\ NotEnough(m)
  <2>1. m.type = "WITHDRAW" /\ Refuse(m, r, "NOT_ENOUGH_DOUGH") /\ ~T!HasFunds(o, n)
    BY <1>2, <1>5, <1>10 DEF Withdraw, NotEnough, T!HasFunds, bal, Uint64
  <2> QED
    BY <1>6, <2>1 DEF T!Refused
<1>11. CASE Balance(m, r)
  <2>1. UNCHANGED safe /\ Report(m, r) /\ m.type = "BALANCE"
    BY <1>11 DEF Balance
  <2>2. T!Inquire(o, n)
    BY <1>4, <1>5, <2>1 DEF T!Inquire, bal, lines
  <2> QED
    BY <1>4, <2>1, <2>2 DEF T!Accepted, T!Enter, T!Inquire, bal
<1>12. ~BadFormat(m, r)
  BY SessionAssumption DEF BadFormat
<1> QED
  BY <1>7, <1>8, <1>9, <1>10, <1>11, <1>12 DEF Bank
-----------------------------------------------------------------------------
\* bank() posts the order of the connection it serves, or refuses it unread.
LEMMA ServeIsPost ==
  ASSUME ~OsFaults, CiphersMatch, Sync, Posted, Unheard, Clean, Serve
  PROVE  \E c \in Conns : T!Post(c)
<1> USE DEF Sync
<1>1. PICK c \in Conns, p \in Packet, m \in Msg, r \in Msg :
        /\ Replies(c, p, "shutdown") /\ bank.stage = "bank"
        /\ m \in RecvMsg(bank.buf, build.bank, bank.key)
        /\ Bank(m, r) /\ entry' = [entry EXCEPT ![c] = r]
  BY ServeForm
<1>2. Holds(c) /\ UNCHANGED <<order, receipt, fate>>
  BY <1>1 DEF Replies
<1>3. /\ Letter(bank.buf, c, "bank") /\ tcp[c] \in {"open", "fin"} /\ ~Closes(c)
  BY <1>1, <1>2, HeldConnection DEF Holds, Closes
<1>4. fate[c] \in {"waiting", "gone"} /\ entry[c] = None
  <2>1. fate[c] \notin {"told", "failed"}
    BY <1>2, <1>3 DEF Clean, FailsClean, Left
  <2>2. fate[c] # "idle"
    BY <1>3 DEF Owned
  <2> QED
    BY <1>3, <2>1, <2>2, OpenNotPosted DEF IInv, TypeOK, Fates
<1>5. build.bank # "raw"
  <2>1. build \in Builds
    BY DEF IInv, TypeOK
  <2>2. ~(AtmHello = "hello_plain" /\ BankHello = "hello_rsa")
    BY <1>1 DEF Unheard
  <2> QED
    BY <2>1, <2>2 DEF CiphersMatch, AtmHello, BankHello
<1>6. m = order[c] \/ m = Message("INVALID", 0, 0)
  BY <1>1, <1>3, <1>5 DEF RecvMsg, Letter
<1>7. CASE m = order[c]
  <2>1. m \in Requests
    BY <1>7, NoneAssumption DEF IInv, TypeOK
  <2>2. BankTypeOK
    BY DEF IInv, TypeOK
  <2>3. T!Accepted(c, order[c]) \/ T!Refused(c, order[c])
    BY <1>1, <1>2, <1>7, <2>1, <2>2, OrderIsPosted
  <2> QED
    BY <1>4, <2>3 DEF T!Post
<1>8. CASE m = Message("INVALID", 0, 0)
  <2>1. Refuse(m, r, "BAD_FORMAT") /\ m.uid = 0
    BY <1>1, <1>8 DEF Bank, Deposit, Withdraw, Balance, BadFormat, Message
  <2>2. UNCHANGED T!ledger /\ T!Enter(c, T!Entry("BAD_FORMAT", 0, 0))
    BY <1>1, <1>2, <2>1 DEF Refuse, bankVars, T!ledger, T!Enter, T!Entry, Message
  <2> QED
    BY <1>4, <2>2 DEF T!Post, T!Unread
<1> QED
  BY <1>6, <1>7, <1>8

\* An ATM that is done answers its order, fails it or dies.
LEMMA EndsOrder ==
  ASSUME ~OsFaults, CiphersMatch, Sync, Posted, Unheard, Clean,
         NEW a \in Atms, NEW c \in Conns, NEW how \in {"told", "failed", "gone"}, NEW unread,
         Ends(a, c, how, unread), Reason(a, c, how, unread)
  PROVE  T!Answer(c) \/ T!Fail(c) \/ T!Die(c)
<1>1. /\ Live(a) /\ c = atm[a].sd /\ fate' = [fate EXCEPT ![c] = how]
      /\ UNCHANGED <<safe, reported, order, entry>> /\ fate[c] = "waiting"
  BY LiveConnection DEF Ends, BankSide
<1>2. UNCHANGED T!ledger
  BY <1>1 DEF T!ledger
<1>3. CASE how = "told"
  BY <1>1, <1>2, <1>3, ReplyRead DEF Reason, T!Answer, T!Entry, Message
<1>4. CASE how = "failed"
  <2>1. entry[c] = None /\ UNCHANGED receipt
    BY <1>1, <1>4 DEF Reason, Clean, FailsClean
  <2> QED
    BY <1>1, <1>2, <1>4, <2>1 DEF T!Fail
<1>5. CASE how = "gone"
  BY <1>1, <1>2, <1>5 DEF Reason, T!Die
<1> QED
  BY <1>3, <1>4, <1>5

\* Every step of the two processes is one of Teller or a stutter.
LEMMA NextTeller ==
  ASSUME ~OsFaults, CiphersMatch, Sync, Posted, Unheard, Clean, [Next]_vars
  PROVE  [T!TellerNext]_(T!tellerVars)
<1>1. ASSUME NEW a \in Atms, NEW c \in Conns, NEW m \in Requests, Connect(a, c, m)
      PROVE  T!TellerNext
  <2>1. T!Invoke(c, m)
    BY <1>1 DEF Connect, Sync, Owned, T!Invoke, T!ledger
  <2> QED
    BY <2>1 DEF T!TellerNext
<1>2. ASSUME NEW a \in Atms, ConnectFails(a) \/ Quit(a)
      PROVE  UNCHANGED T!tellerVars
  BY <1>2, Unseen DEF ConnectFails, Quit, book
<1>3. ASSUME NEW a \in Atms, AtmStep(a) \/ AtmKilled(a)
      PROVE  T!TellerNext \/ UNCHANGED T!tellerVars
  <2>1. ASSUME NEW c \in Conns, Sends(a, c) \/ MovesOn(a, c)
        PROVE  UNCHANGED T!tellerVars
    BY <2>1, Unseen DEF Sends, MovesOn, BankSide
  <2>2. ASSUME NEW c \in Conns, NEW how \in {"told", "failed", "gone"}, NEW unread,
               Ends(a, c, how, unread), Reason(a, c, how, unread)
        PROVE  T!TellerNext
    BY <2>2, EndsOrder DEF T!TellerNext
  <2> QED
    BY <1>3, <2>1, <2>2, AtmForms
<1>4. ASSUME NEW c \in Conns, RstArrives(c)
      PROVE  UNCHANGED T!tellerVars
  BY <1>4, Unseen DEF RstArrives, book
<1>5. CASE BankStep \/ AlarmFires
  <2>1. CASE Serve
    BY <2>1, ServeIsPost DEF T!TellerNext
  <2>2. CASE UNCHANGED <<safe, reported, order, entry, receipt, fate>>
    BY <2>2, Unseen
  <2> QED
    BY <1>5, <2>1, <2>2, BankForms DEF Quiet, Dies, ClosesNow, Replies, book
<1>6. CASE UNCHANGED vars
  BY <1>6, Unseen DEF vars, book
<1> QED
  BY <1>1, <1>2, <1>3, <1>4, <1>5, <1>6 DEF Next, Terminating

\* At the start Teller has nothing to remember.
LEMMA InitTeller == Init => T!TellerInit
<1> SUFFICES ASSUME Init PROVE T!TellerInit
  OBVIOUS
<1>1. Uids \subseteq Uchar
  BY BankAssumption DEF Uchar
<1>2. T!AccountsInit
  BY <1>1 DEF Init, BankInit, Line, T!AccountsInit, T!Line
<1> QED
  BY <1>2 DEF Init, T!TellerInit

(***************************************************************************)
(* For any number of ATMs, connections and accounts, with ATMs that may be *)
(* killed at any point and key exchanges that may go wrong, the programs   *)
(* keep Teller's promise: an order is posted at most once, its customer is *)
(* told what was posted, and one who is told of a failure has had nothing  *)
(* posted.  It takes that system calls do not fail by themselves (a send   *)
(* that fails after the order was posted would break it) and that both     *)
(* programs encrypt or neither does.                                       *)
(***************************************************************************)
THEOREM SessionImplementsTeller ==
  ASSUME ~OsFaults, CiphersMatch
  PROVE  Spec => ImplementsTeller
BY InitTeller, NextTeller, CleanKept, PostedKept, SyncKept, PTL
DEF Spec, ImplementsTeller, T!TellerSpec
-----------------------------------------------------------------------------
(***************************************************************************)
(* Conservation: sums over the connections.                                *)
(***************************************************************************)

\* The sum of f over S, as Session's Moved writes it.
Total(f, S) == MapThenSumSet(LAMBDA x : f[x], S)

\* The element that a sum over s takes first, and what is left.
First(s) == CHOOSE x \in s : TRUE
Others(s) == s \ {First(s)}

\* g sums f over every subset of S.
Sums(g, f, S) == g = [s \in SUBSET S |-> IF s = {} THEN 0 ELSE f[First(s)] + g[Others(s)]]

\* The element taken first is one of the set.
LEMMA FirstIn ==
  ASSUME NEW s, s # {}
  PROVE  First(s) \in s /\ Others(s) \subseteq s /\ Others(s) # s
<1>1. First(s) \in s
  BY DEF First
<1> QED
  BY <1>1 DEF Others

\* Induction over the subsets of a finite set.
LEMMA Smallest ==
  ASSUME NEW S, IsFiniteSet(S), NEW B \in SUBSET SUBSET S, B # {}
  PROVE  \E R \in B : \A U \in B : U \subseteq R => U = R
<1>1. IsWellFoundedOn(StrictSubsetOrdering(S), SUBSET S)
  BY FS_StrictSubsetOrderingWellFounded, FS_FiniteSubsetsOfFinite
<1>2. PICK R \in B : \A U \in B : <<U, R>> \notin StrictSubsetOrdering(S)
  BY <1>1, WFMin
<1> QED
  BY <1>2 DEF StrictSubsetOrdering

\* Two functions that sum f agree where both are defined.
LEMMA SumsAgree ==
  ASSUME NEW f, NEW g, NEW h, NEW D, NEW B, Sums(g, f, D), Sums(h, f, B),
         NEW s, s \subseteq D, s \subseteq B, IsFiniteSet(s)
  PROVE  g[s] = h[s]
<1> DEFINE Bad == {t \in SUBSET s : g[t] # h[t]}
<1>1. Bad = {}
  <2> SUFFICES ASSUME Bad # {} PROVE FALSE
    OBVIOUS
  <2>1. PICK R \in Bad : \A U \in Bad : U \subseteq R => U = R
    <3>1. Bad \in SUBSET SUBSET s
      OBVIOUS
    <3> HIDE DEF Bad
    <3> QED
      BY <3>1, Smallest
  <2>2. R \subseteq D /\ R \subseteq B
    OBVIOUS
  <2>3. R # {}
    BY <2>2 DEF Sums
  <2>4. Others(R) \subseteq R /\ Others(R) # R
    BY <2>3, FirstIn
  <2>5. g[Others(R)] = h[Others(R)]
    BY <2>1, <2>4
  <2> QED
    BY <2>2, <2>3, <2>5 DEF Sums
<1> QED
  BY <1>1

\* A function that sums f exists.
LEMMA SumsExist ==
  ASSUME NEW f, NEW S, IsFiniteSet(S)
  PROVE  \E g : Sums(g, f, S)
<1> DEFINE Bad == {t \in SUBSET S : ~\E g : Sums(g, f, t)}
<1>1. Bad = {}
  <2> SUFFICES ASSUME Bad # {} PROVE FALSE
    OBVIOUS
  <2>1. PICK R \in Bad : \A U \in Bad : U \subseteq R => U = R
    <3>1. Bad \in SUBSET SUBSET S
      OBVIOUS
    <3> HIDE DEF Bad
    <3> QED
      BY <3>1, Smallest
  <2> DEFINE G(u) == CHOOSE g : Sums(g, f, u)
             h == [s \in SUBSET R |-> IF s = {} THEN 0 ELSE f[First(s)] + G(Others(s))[Others(s)]]
  <2>2. ASSUME NEW u, u \subseteq R, u # R
        PROVE  Sums(G(u), f, u) /\ IsFiniteSet(u)
    <3>1. \E g : Sums(g, f, u)
      BY <2>1, <2>2
    <3>2. u \subseteq S
      BY <2>2
    <3> QED
      BY <3>1, <3>2, FS_Subset
  <2> HIDE DEF G
  <2>3. ASSUME NEW s \in SUBSET R, s # {}
        PROVE  h[Others(s)] = G(Others(s))[Others(s)]
    <3> DEFINE u == Others(s)
    <3>1. u \subseteq R /\ u # R
      BY <2>3, FirstIn
    <3>2. Sums(G(u), f, u) /\ IsFiniteSet(u)
      BY <2>2, <3>1
    <3> HIDE DEF u
    <3>3. ASSUME u = {} PROVE h[u] = G(u)[u]
      BY <3>1, <3>2, <3>3 DEF Sums
    <3>4. ASSUME u # {} PROVE h[u] = G(u)[u]
      <4>1. Others(u) \subseteq u /\ Others(u) \subseteq R /\ Others(u) # R
        BY <3>1, <3>4, FirstIn
      <4>2. Sums(G(Others(u)), f, Others(u)) /\ IsFiniteSet(Others(u))
        BY <2>2, <4>1
      <4>3. G(u)[Others(u)] = G(Others(u))[Others(u)]
        BY <3>2, <4>1, <4>2, SumsAgree
      <4>4. G(u)[u] = f[First(u)] + G(u)[Others(u)]
        BY <3>2, <3>4 DEF Sums
      <4>5. h[u] = f[First(u)] + G(Others(u))[Others(u)]
        BY <3>1, <3>4
      <4> QED
        BY <4>3, <4>4, <4>5
    <3> QED
      BY <3>3, <3>4 DEF u
  <2>4. Sums(h, f, R)
    <3>1. h = [s \in SUBSET R |-> IF s = {} THEN 0 ELSE f[First(s)] + h[Others(s)]]
      BY <2>3
    <3> QED
      BY <3>1 DEF Sums
  <2> QED
    BY <2>4
<1> QED
  BY <1>1

\* What Total computes: the folded function is one that sums f.
LEMMA TotalSums ==
  ASSUME NEW f, NEW S, IsFiniteSet(S), NEW g, Sums(g, f, S)
  PROVE  Total(f, S) = g[S]
<1>1. Total(f, S) = (CHOOSE h : Sums(h, f, S))[S]
  BY DEF Total, MapThenSumSet, MapThenFoldSet, Sums, Others, First
<1>2. PICK h : Sums(h, f, S) /\ Total(f, S) = h[S]
  BY <1>1
<1> QED
  BY <1>2, SumsAgree

\* One step of the sum.
LEMMA TotalUnfolds ==
  ASSUME NEW f, NEW S, IsFiniteSet(S)
  PROVE  Total(f, S) = IF S = {} THEN 0 ELSE f[First(S)] + Total(f, Others(S))
<1>1. PICK g : Sums(g, f, S)
  BY SumsExist
<1>2. Total(f, S) = g[S]
  BY <1>1, TotalSums
<1>3. CASE S = {}
  BY <1>1, <1>2, <1>3 DEF Sums
<1>4. CASE S # {}
  <2>1. Others(S) \subseteq S /\ IsFiniteSet(Others(S))
    BY <1>4, FirstIn, FS_Subset
  <2>2. PICK h : Sums(h, f, Others(S))
    BY <2>1, SumsExist
  <2>3. Total(f, Others(S)) = h[Others(S)] /\ h[Others(S)] = g[Others(S)]
    BY <1>1, <2>1, <2>2, TotalSums, SumsAgree
  <2>4. g[S] = f[First(S)] + g[Others(S)]
    BY <1>1, <1>4 DEF Sums
  <2> QED
    BY <1>2, <1>4, <2>3, <2>4
<1> QED
  BY <1>3, <1>4

\* A sum of integers is one.
LEMMA TotalType ==
  ASSUME NEW f, NEW S, IsFiniteSet(S), \A x \in S : f[x] \in Int
  PROVE  Total(f, S) \in Int
<1> DEFINE Bad == {t \in SUBSET S : Total(f, t) \notin Int}
<1>1. Bad \in SUBSET SUBSET S
  OBVIOUS
<1>2. Bad = {}
  <2> SUFFICES ASSUME Bad # {} PROVE FALSE
    OBVIOUS
  <2>1. PICK R \in Bad : \A U \in Bad : U \subseteq R => U = R
    <3> HIDE DEF Bad
    <3> QED
      BY <1>1, Smallest
  <2>2. IsFiniteSet(R) /\ R \subseteq S
    BY FS_Subset
  <2>3. R # {} /\ Total(f, R) = f[First(R)] + Total(f, Others(R))
    BY <2>2, TotalUnfolds
  <2>4. First(R) \in S /\ Total(f, Others(R)) \in Int
    BY <2>1, <2>2, <2>3, FirstIn
  <2> QED
    BY <2>3, <2>4
<1> QED
  BY <1>2

\* Whichever element is taken first, the sum is the same.
LEMMA TotalTakes ==
  ASSUME NEW f, NEW S, IsFiniteSet(S), \A x \in S : f[x] \in Int, NEW y \in S
  PROVE  Total(f, S) = f[y] + Total(f, S \ {y})
<1> DEFINE Bad == {t \in SUBSET S : \E x \in t : Total(f, t) # f[x] + Total(f, t \ {x})}
<1>1. Bad \in SUBSET SUBSET S
  OBVIOUS
<1>2. Bad = {}
  <2> SUFFICES ASSUME Bad # {} PROVE FALSE
    OBVIOUS
  <2>1. PICK R \in Bad : \A U \in Bad : U \subseteq R => U = R
    <3> HIDE DEF Bad
    <3> QED
      BY <1>1, Smallest
  <2>2. PICK x \in R : Total(f, R) # f[x] + Total(f, R \ {x})
    OBVIOUS
  <2>3. \A U \in SUBSET R : IsFiniteSet(U) /\ U \in SUBSET S
    BY FS_Subset
  <2>4. PICK z \in R : z = First(R) /\ Total(f, R) = f[z] + Total(f, R \ {z})
    <3>1. First(R) \in R
      BY <2>2, FirstIn
    <3> QED
      BY <2>2, <2>3, <3>1, TotalUnfolds DEF Others
  <2>5. x # z
    BY <2>2, <2>4
  <2>6. R \ {z} \notin Bad /\ R \ {x} \notin Bad
    BY <2>1, <2>2, <2>4
  <2>7. Total(f, R \ {z}) = f[x] + Total(f, (R \ {z}) \ {x})
    BY <2>2, <2>3, <2>5, <2>6
  <2>8. Total(f, R \ {x}) = f[z] + Total(f, (R \ {x}) \ {z})
    BY <2>3, <2>4, <2>5, <2>6
  <2>9. (R \ {z}) \ {x} = (R \ {x}) \ {z} /\ f[x] \in Int /\ f[z] \in Int
    BY <2>3
  <2>10. Total(f, (R \ {x}) \ {z}) \in Int
    <3>1. (R \ {x}) \ {z} \in SUBSET R
      OBVIOUS
    <3> QED
      BY <2>3, <3>1, TotalType
  <2>11. Total(f, R) = f[z] + (f[x] + Total(f, (R \ {x}) \ {z}))
    BY <2>4, <2>7, <2>9
  <2>12. f[x] + Total(f, R \ {x}) = f[x] + (f[z] + Total(f, (R \ {x}) \ {z}))
    BY <2>8
  <2> HIDE DEF Bad
  <2> QED
    BY <2>2, <2>9, <2>10, <2>11, <2>12
<1> QED
  BY <1>2

\* One more summand.
LEMMA TotalAdds ==
  ASSUME NEW f, NEW S, IsFiniteSet(S), NEW y, y \notin S, \A x \in S \cup {y} : f[x] \in Int
  PROVE  Total(f, S \cup {y}) = Total(f, S) + f[y]
<1>1. IsFiniteSet(S \cup {y}) /\ (S \cup {y}) \ {y} = S
  BY FS_AddElement
<1>2. Total(f, S \cup {y}) = f[y] + Total(f, S)
  BY <1>1, TotalTakes
<1>3. Total(f, S) \in Int
  BY TotalType
<1> QED
  BY <1>2, <1>3

\* The sum depends on the summands only.
LEMMA TotalSame ==
  ASSUME NEW f, NEW g, NEW S, IsFiniteSet(S), \A x \in S : f[x] = g[x]
  PROVE  Total(f, S) = Total(g, S)
<1> DEFINE Bad == {t \in SUBSET S : Total(f, t) # Total(g, t)}
<1>1. Bad \in SUBSET SUBSET S
  OBVIOUS
<1>2. Bad = {}
  <2> SUFFICES ASSUME Bad # {} PROVE FALSE
    OBVIOUS
  <2>1. PICK R \in Bad : \A U \in Bad : U \subseteq R => U = R
    <3> HIDE DEF Bad
    <3> QED
      BY <1>1, Smallest
  <2>2. IsFiniteSet(R) /\ R \subseteq S
    BY FS_Subset
  <2>3. R # {} /\ Total(f, R) = f[First(R)] + Total(f, Others(R))
        /\ Total(g, R) = g[First(R)] + Total(g, Others(R))
    BY <2>2, TotalUnfolds
  <2>4. First(R) \in S /\ Total(f, Others(R)) = Total(g, Others(R))
    BY <2>1, <2>2, <2>3, FirstIn
  <2> QED
    BY <2>3, <2>4
<1> QED
  BY <1>2
-----------------------------------------------------------------------------
(***************************************************************************)
(* The accounts are the sums of the accepted orders.                       *)
(***************************************************************************)
\* The orders that Moved sums, and what each adds.
Taken(u, type) ==
  {c \in Conns : /\ entry[c] # None /\ entry[c].type = "OK"
                 /\ order[c].uid = u /\ order[c].type = type}

Amt == [c \in Conns |-> order[c].amt]

\* Moved is such a sum.
LEMMA MovedIsTotal ==
  ASSUME NEW u, NEW type, IsFiniteSet(Taken(u, type))
  PROVE  Moved(u, type) = Total(Amt, Taken(u, type))
<1> DEFINE S == Taken(u, type)
           Walks(g) == g = [s \in SUBSET S |->
                              IF s = {} THEN 0 ELSE order[First(s)].amt + g[Others(s)]]
<1>1. \A s \in SUBSET S : s # {} => order[First(s)].amt = Amt[First(s)]
  <2>1. \A s \in SUBSET S : s # {} => First(s) \in Conns
    BY FirstIn DEF Taken
  <2> QED
    BY <2>1 DEF Amt
<1>2. Moved(u, type) = (CHOOSE g : Walks(g))[S]
  BY DEF Moved, MapThenSumSet, MapThenFoldSet, First, Others, Taken
<1> HIDE DEF S
<1>3. \A g : Walks(g) <=> Sums(g, Amt, S)
  BY <1>1 DEF Sums
<1>4. \E g : Walks(g)
  BY <1>3, SumsExist DEF S
<1>5. PICK g : Walks(g) /\ Moved(u, type) = g[S]
  <2> HIDE DEF Walks
  <2> QED
    BY <1>2, <1>4
<1>6. Sums(g, Amt, S)
  BY <1>3, <1>5
<1> QED
  BY <1>5, <1>6, TotalSums DEF S

\* What bank() does to an account: the amount of an accepted order, or nothing.
LEMMA BankMoves ==
  ASSUME BankTypeOK, NEW m \in Msg, NEW r, Bank(m, r), NEW o \in Uchar
  PROVE  safe'[o] = CASE r.type = "OK" /\ m.uid = o /\ m.type = "DEPOSIT" -> safe[o] + m.amt
                      [] r.type = "OK" /\ m.uid = o /\ m.type = "WITHDRAW" -> safe[o] - m.amt
                      [] OTHER -> safe[o]
<1> USE DEF Msg
<1>1. m.amt \in Uint64 /\ m.uid \in Uchar /\ safe[m.uid] \in Uint64 /\ safe[o] \in Uint64
  BY DEF BankTypeOK
<1>2. CASE \E type \in {"TOO_MUCH_BANK", "NOT_ENOUGH_DOUGH", "BAD_FORMAT"} : Refuse(m, r, type)
  BY <1>2 DEF Refuse, Message, bankVars
<1>3. CASE Deposit(m, r) /\ ~TooMuch(m)
  <2>1. Add64(safe[m.uid], m.amt) = safe[m.uid] + m.amt
    BY <1>1, <1>3, Add64InRange DEF TooMuch
  <2>2. safe' = [safe EXCEPT ![m.uid] = safe[m.uid] + m.amt] /\ r.type = "OK" /\ m.type = "DEPOSIT"
    BY <1>1, <1>3, <2>1 DEF Deposit, Report, Message, BankTypeOK
  <2> QED
    BY <1>1, <2>2 DEF BankTypeOK
<1>4. CASE Withdraw(m, r) /\ ~NotEnough(m)
  <2>1. Sub64(safe[m.uid], m.amt) = safe[m.uid] - m.amt
    BY <1>1, <1>4, Sub64InRange DEF NotEnough
  <2>2. safe' = [safe EXCEPT ![m.uid] = safe[m.uid] - m.amt] /\ r.type = "OK" /\ m.type = "WITHDRAW"
    BY <1>1, <1>4, <2>1 DEF Withdraw, Report, Message, BankTypeOK
  <2> QED
    BY <1>1, <2>2 DEF BankTypeOK
<1>5. CASE Balance(m, r)
  BY <1>5 DEF Balance
<1> QED
  BY <1>2, <1>3, <1>4, <1>5 DEF Bank, Deposit, Withdraw, BadFormat

\* What the accounts hold is the sums.
Accounted ==
  \A u \in Uids : safe[u] = Total(Amt, Taken(u, "DEPOSIT")) - Total(Amt, Taken(u, "WITHDRAW"))

\* A bank that checks MACs, or one whose NENCRYPT ATM it never hears.
Guarded == build.bank = "raw" => build.atm # "rsa"

\* The invariant: the orders posted are finitely many; and unless a bank that
\* checks nothing talks to an RSA ATM, those accepted were given by customers
\* and the accounts are their sums.
Books ==
  /\ IsFiniteSet({c \in Conns : entry[c] # None})
  /\ Guarded =>
       /\ \A c \in Conns : entry[c] # None /\ entry[c].type = "OK" => order[c] \in Requests
       /\ Accounted

\* What a sum ranges over.
LEMMA TakenIsFinite ==
  ASSUME Books, Guarded, NEW u, NEW type
  PROVE  IsFiniteSet(Taken(u, type)) /\ \A c \in Taken(u, type) : Amt[c] \in Int
<1>1. Taken(u, type) \subseteq {c \in Conns : entry[c] # None}
  BY DEF Taken
<1>2. ASSUME NEW c \in Taken(u, type) PROVE Amt[c] \in Int
  <2>1. c \in Conns /\ order[c] \in Requests
    BY <1>2 DEF Books, Taken
  <2>2. order[c].amt \in Uint64
    BY <2>1, SessionAssumption
  <2> QED
    BY <2>1, <2>2, BankAssumption DEF Amt, Uint64
<1> QED
  BY <1>1, <1>2, FS_Subset DEF Books

\* A step that posts nothing and takes back no order that was posted.
LEMMA BooksStand ==
  ASSUME Books, UNCHANGED <<safe, entry, build>>,
         \A c \in Conns : entry[c] # None => order'[c] = order[c]
  PROVE  Books'
<1>1. ASSUME NEW u, NEW type
      PROVE  Taken(u, type)' = Taken(u, type)
  BY DEF Taken
<1>2. ASSUME Guarded, NEW u, NEW type
      PROVE  Total(Amt', Taken(u, type)) = Total(Amt, Taken(u, type))
  <2>1. \A c \in Taken(u, type) : Amt[c] = Amt'[c]
    BY DEF Taken, Amt
  <2> QED
    BY <1>2, <2>1, TakenIsFinite, TotalSame
<1>3. Guarded /\ Accounted => Accounted'
  BY <1>1, <1>2 DEF Accounted
<1> QED
  BY <1>3 DEF Books, Guarded

\* bank() posts one order, which is accepted or refused.
LEMMA BooksServe ==
  ASSUME Sync, Posted, Unheard, Books, Serve
  PROVE  Books'
<1> USE DEF Sync
<1>1. PICK c \in Conns, p \in Packet, m \in Msg, r \in Msg :
        /\ Replies(c, p, "shutdown") /\ bank.stage = "bank"
        /\ m \in RecvMsg(bank.buf, build.bank, bank.key)
        /\ Bank(m, r) /\ entry' = [entry EXCEPT ![c] = r]
  BY ServeForm
<1>2. Holds(c) /\ UNCHANGED <<order, build>> /\ r # None
  BY <1>1, NoneAssumption DEF Replies
<1>3. /\ Letter(bank.buf, c, "bank") /\ entry[c] = None
  <2>1. tcp[c] # "shut" /\ ~Closes(c) /\ Letter(bank.buf, c, "bank")
    BY <1>1, <1>2, HeldConnection DEF Holds, Closes
  <2> QED
    BY <2>1, OpenNotPosted
<1>4. entry'[c] = r /\ \A d \in Conns \ {c} : entry'[d] = entry[d]
  BY <1>1 DEF IInv, TypeOK
<1>5. IsFiniteSet({d \in Conns : entry'[d] # None})
  <2>1. {d \in Conns : entry'[d] # None} = {d \in Conns : entry[d] # None} \cup {c}
    BY <1>2, <1>4
  <2> QED
    BY <2>1, FS_AddElement DEF Books
<1>6. ASSUME Guarded
      PROVE  r.type = "OK" => m = order[c] /\ order[c] \in Requests
  <2>1. build.bank # "raw"
    <3>1. build \in Builds /\ build.atm \in BuildTypes
      BY SessionAssumption DEF IInv, TypeOK
    <3>2. ~(AtmHello = "hello_plain" /\ BankHello = "hello_rsa")
      BY <1>1 DEF Unheard
    <3> QED
      BY <1>6, <3>1, <3>2 DEF Guarded, AtmHello, BankHello, BuildTypes
  <2>2. m = order[c] \/ m = Message("INVALID", 0, 0)
    BY <1>1, <1>3, <2>1 DEF RecvMsg, Letter
  <2>3. r.type = "OK" => m.type # "INVALID"
    BY <1>1 DEF Bank, Deposit, Withdraw, Balance, BadFormat, Refuse, Message
  <2>4. order[c] \in Requests \cup {None}
    BY DEF IInv, TypeOK
  <2> QED
    BY <2>2, <2>3, <2>4, NoneAssumption DEF Message
<1>7. ASSUME Guarded, NEW u, NEW type
      PROVE  Taken(u, type)' = IF r.type = "OK" /\ m.uid = u /\ m.type = type
                               THEN Taken(u, type) \cup {c} ELSE Taken(u, type)
  BY <1>2, <1>3, <1>4, <1>6, <1>7 DEF Taken
<1>8. ASSUME Guarded, NEW u, NEW type, r.type = "OK", m.uid = u, m.type = type
      PROVE  Total(Amt', Taken(u, type)') = Total(Amt, Taken(u, type)) + m.amt
  <2>1. c \notin Taken(u, type) /\ Amt' = Amt /\ Amt[c] = m.amt /\ m.amt \in Int
    <3>1. m.amt \in Int
      BY BankAssumption DEF Msg, Uint64
    <3> QED
      BY <1>2, <1>3, <1>6, <1>8, <3>1 DEF Taken, Amt
  <2>2. IsFiniteSet(Taken(u, type)) /\ \A d \in Taken(u, type) \cup {c} : Amt[d] \in Int
    BY <1>8, <2>1, TakenIsFinite
  <2>3. Total(Amt, Taken(u, type) \cup {c}) = Total(Amt, Taken(u, type)) + Amt[c]
    BY <2>1, <2>2, TotalAdds
  <2> QED
    BY <1>7, <1>8, <2>1, <2>3
<1>9. ASSUME Guarded, NEW u, NEW type, ~(r.type = "OK" /\ m.uid = u /\ m.type = type)
      PROVE  Total(Amt', Taken(u, type)') = Total(Amt, Taken(u, type))
  BY <1>2, <1>7, <1>9 DEF Amt
<1>10. ASSUME Guarded, NEW u \in Uids
       PROVE  safe'[u] = Total(Amt', Taken(u, "DEPOSIT")') - Total(Amt', Taken(u, "WITHDRAW")')
  <2>1. /\ safe[u] = Total(Amt, Taken(u, "DEPOSIT")) - Total(Amt, Taken(u, "WITHDRAW"))
        /\ Total(Amt, Taken(u, "DEPOSIT")) \in Int /\ Total(Amt, Taken(u, "WITHDRAW")) \in Int
    BY <1>10, TakenIsFinite, TotalType DEF Books, Accounted
  <2>2. u \in Uchar /\ BankTypeOK /\ m.amt \in Int
    BY BankAssumption DEF Uchar, Msg, Uint64, IInv, TypeOK
  <2>3. CASE r.type = "OK" /\ m.uid = u /\ m.type = "DEPOSIT"
    <3>1. safe'[u] = safe[u] + m.amt
      BY <1>1, <2>2, <2>3, BankMoves
    <3>2. /\ Total(Amt', Taken(u, "DEPOSIT")') = Total(Amt, Taken(u, "DEPOSIT")) + m.amt
          /\ Total(Amt', Taken(u, "WITHDRAW")') = Total(Amt, Taken(u, "WITHDRAW"))
      BY <1>8, <1>9, <1>10, <2>3
    <3> QED
      BY <2>1, <2>2, <3>1, <3>2
  <2>4. CASE r.type = "OK" /\ m.uid = u /\ m.type = "WITHDRAW"
    <3>1. safe'[u] = safe[u] - m.amt
      BY <1>1, <2>2, <2>4, BankMoves
    <3>2. /\ Total(Amt', Taken(u, "WITHDRAW")') = Total(Amt, Taken(u, "WITHDRAW")) + m.amt
          /\ Total(Amt', Taken(u, "DEPOSIT")') = Total(Amt, Taken(u, "DEPOSIT"))
      BY <1>8, <1>9, <1>10, <2>4
    <3> QED
      BY <2>1, <2>2, <3>1, <3>2
  <2>5. CASE ~(r.type = "OK" /\ m.uid = u /\ m.type \in {"DEPOSIT", "WITHDRAW"})
    <3>1. safe'[u] = safe[u]
      BY <1>1, <2>2, <2>5, BankMoves
    <3>2. /\ Total(Amt', Taken(u, "WITHDRAW")') = Total(Amt, Taken(u, "WITHDRAW"))
          /\ Total(Amt', Taken(u, "DEPOSIT")') = Total(Amt, Taken(u, "DEPOSIT"))
      BY <1>9, <1>10, <2>5
    <3> QED
      BY <2>1, <3>1, <3>2
  <2> QED
    BY <2>3, <2>4, <2>5
<1>11. Guarded => Accounted'
  BY <1>10 DEF Accounted
<1>12. Guarded =>
         \A d \in Conns : entry'[d] # None /\ entry'[d].type = "OK" => order'[d] \in Requests
  BY <1>2, <1>4, <1>6 DEF Books
<1> QED
  BY <1>2, <1>5, <1>11, <1>12 DEF Books, Guarded

\* Every step but bank()'s leaves the books alone.
LEMMA NextBooks ==
  ASSUME Sync, Posted, Unheard, Books, [Next]_vars
  PROVE  Books'
<1> USE DEF Sync
<1>1. ASSUME NEW a \in Atms, NEW c \in Conns, NEW m \in Requests, Connect(a, c, m)
      PROVE  Books'
  <2>1. UNCHANGED <<safe, entry, build>> /\ \A d \in Conns \ {c} : order'[d] = order[d]
    BY <1>1 DEF Connect, IInv, TypeOK
  <2>2. entry[c] = None
    BY <1>1, OpenNotPosted DEF Connect
  <2> QED
    BY <2>1, <2>2, BooksStand
<1>2. CASE Serve
  BY <1>2, BooksServe
<1>3. CASE UNCHANGED <<safe, build, order, entry>>
  BY <1>3, BooksStand
<1>4. ASSUME NEW a \in Atms, ConnectFails(a) \/ Quit(a) \/ AtmStep(a) \/ AtmKilled(a)
      PROVE  UNCHANGED <<safe, build, order, entry>>
  BY <1>4, AtmForms DEF ConnectFails, Quit, book, Sends, MovesOn, Ends, BankSide
<1>5. ASSUME BankStep \/ AlarmFires, ~Serve
      PROVE  UNCHANGED <<safe, build, order, entry>>
  BY <1>5, BankForms DEF Quiet, Dies, ClosesNow, Replies, book
<1>6. ASSUME NEW c \in Conns, RstArrives(c)
      PROVE  UNCHANGED <<safe, build, order, entry>>
  BY <1>6 DEF RstArrives, book
<1>7. CASE UNCHANGED vars
  BY <1>3, <1>7 DEF vars, book
<1> QED
  BY <1>1, <1>2, <1>3, <1>4, <1>5, <1>6, <1>7 DEF Next, Terminating

\* At the start the sums are empty.
LEMMA InitBooks == Init => Books
<1> SUFFICES ASSUME Init PROVE Books
  OBVIOUS
<1>1. {c \in Conns : entry[c] # None} = {} /\ \A u, type : Taken(u, type) = {}
  BY DEF Init, Taken
<1>2. Total(Amt, {}) = 0
  BY FS_EmptySet, TotalUnfolds
<1>3. \A u \in Uids : safe[u] = 0
  BY BankAssumption DEF Init, BankInit, Uchar
<1>4. ASSUME NEW u \in Uids
      PROVE  safe[u] = Total(Amt, Taken(u, "DEPOSIT")) - Total(Amt, Taken(u, "WITHDRAW"))
  <2>1. Taken(u, "DEPOSIT") = {} /\ Taken(u, "WITHDRAW") = {}
    BY <1>1
  <2> QED
    BY <1>2, <1>3, <2>1
<1>5. \A c \in Conns : entry[c] = None
  BY DEF Init
<1> QED
  BY <1>1, <1>4, <1>5, FS_EmptySet DEF Books, Accounted

\* Accounted is Conservation, for the set of orders is finite.
LEMMA BooksConserve ==
  ASSUME Books, Guarded
  PROVE  Conservation
BY TakenIsFinite, MovedIsTotal DEF Books, Accounted, Conservation

\* The invariant on which the theorems about accounts rest.
LEMMA BooksKept == Spec => [](Sync /\ Books)
BY InitBooks, NextBooks, PostedKept, SyncKept, PTL DEF Spec

(***************************************************************************)
(* No RSA ATM meets a bank that neither encrypts nor checks MACs: that     *)
(* bank takes the ATM's HELLO for its own, and then the ciphertext of the  *)
(* order for an order.                                                     *)
(***************************************************************************)
RawBanksAreSpared == \A b \in Builds : b.bank = "raw" => b.atm # "rsa"

(***************************************************************************)
(* For any number of ATMs, connections and accounts, any faults, and any   *)
(* builds but that pair: each account holds what its customers' accepted   *)
(* orders put in less what they took out, each order counted once and as   *)
(* it was typed (bank.cpp:168-195).                                        *)
(***************************************************************************)
THEOREM AccountsAreConserved ==
  ASSUME RawBanksAreSpared
  PROVE  Spec => []Conservation
<1>1. ASSUME Sync, Books PROVE Conservation
  <2>1. build \in Builds
    BY <1>1 DEF Sync, IInv, TypeOK
  <2> QED
    BY <1>1, <2>1, RawBanksAreSpared, BooksConserve DEF Guarded, RawBanksAreSpared
<1> QED
  BY <1>1, BooksKept, PTL

(***************************************************************************)
(* A bank that checks MACs conserves its accounts whatever build the ATMs  *)
(* are of and whatever goes wrong: no hypothesis on the constants is used. *)
(***************************************************************************)
THEOREM MacsGuardTheAccounts == Spec => []MacsGuardAccounts
<1>1. ASSUME Sync, Books PROVE MacsGuardAccounts
  BY <1>1, BooksConserve DEF Guarded, MacsGuardAccounts
<1> QED
  BY <1>1, BooksKept, PTL
=============================================================================
