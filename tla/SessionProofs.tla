---------------------------- MODULE SessionProofs ----------------------------
(***************************************************************************)
(* Type correctness of the session protocol, and that the two sides of     *)
(* each connection stay in step; for any number of ATMs and connections,   *)
(* any build, and any of the faults.  TypeOK is not inductive as it        *)
(* stands: Placed adds that a process which is in the middle of a session  *)
(* has a descriptor, an order or a packet to work on.  InStep is far from  *)
(* inductive: that a packet is of the stage its reader is in follows from  *)
(* whose turn it is, and that from where the connection is, in the queue,  *)
(* at the bank or closed (Owned, LinedUp, InOrder, Turn in SessionInv).    *)
(* The second half of the module has one lemma per action: a step passes   *)
(* the turn on or ends the session, and leaves every other connection      *)
(* alone (Untouched).                                                      *)
(***************************************************************************)
EXTENDS SessionInv, BankProofs, SequenceTheorems

IInv == TypeOK /\ Placed

\* A request is a message.
LEMMA RequestsAreMessages == Requests \subseteq Msg
BY SessionAssumption, BankAssumption DEF Msg, MsgTypes, Uchar, Uint64

\* What RecvMsg makes of a packet is a message.
LEMMA RecvMsgTyped ==
  ASSUME NEW p \in Packet, NEW b, NEW k, NEW m \in RecvMsg(p, b, k)
  PROVE  m \in Msg
<1>1. Message("INVALID", 0, 0) \in Msg
  BY BankAssumption DEF Message, Msg, MsgTypes, Uchar, Uint64
<1> QED
  BY <1>1 DEF RecvMsg, Packet, Handshake

LEMMA InitIInv == Init => IInv
<1> SUFFICES ASSUME Init PROVE IInv
  OBVIOUS
<1>1. BankTypeOK
  BY BankAssumption DEF Init, BankInit, BankTypeOK, Line, MsgTypes, Uchar, Uint64
<1>2. bank \in BankStates /\ atm \in [Atms -> AtmStates]
  BY DEF Init, IdleBank, IdleAtm, AtmState, BankStates, AtmStates, BankPcs, AtmPcs, Stages, CipherKeys
<1> QED
  BY <1>1, <1>2 DEF Init, IInv, TypeOK, Placed, TcpStates, Fates, IdleBank, IdleAtm, AtmState
-----------------------------------------------------------------------------
(***************************************************************************)
(* The steps of an ATM.                                                    *)
(***************************************************************************)
\* The part of IInv that is about ATMs.
AtmsPlaced ==
  /\ atm \in [Atms -> AtmStates]
  /\ \A a \in Atms : atm[a].pc \in {"send", "recv"} =>
       atm[a].sd \in Conns /\ order[atm[a].sd] \in Requests

LEMMA AtmFields ==
  ASSUME IInv, NEW a \in Atms
  PROVE  /\ atm[a].pc \in AtmPcs /\ atm[a].stage \in Stages
         /\ atm[a].sd \in Conns \cup {None} /\ atm[a].key \in CipherKeys
BY DEF IInv, TypeOK, AtmStates

\* One ATM changes, to a state that has what it needs.
LEMMA OneAtmChanges ==
  ASSUME IInv, NEW a \in Atms,
         NEW pc \in AtmPcs, NEW stage \in Stages, NEW sd \in Conns \cup {None},
         NEW key \in CipherKeys,
         AtmBecomes(a, pc, stage, sd, key),
         \A b \in Atms \ {a} : atm[b].pc \in {"send", "recv"} =>
           order'[atm[b].sd] \in Requests,
         pc \in {"send", "recv"} => sd \in Conns /\ order'[sd] \in Requests
  PROVE  AtmsPlaced'
<1>1. atm' \in [Atms -> AtmStates]
  BY DEF IInv, TypeOK, AtmBecomes, AtmState, AtmStates
<1>2. ASSUME NEW b \in Atms, atm'[b].pc \in {"send", "recv"}
      PROVE  atm'[b].sd \in Conns /\ order'[atm'[b].sd] \in Requests
  <2>1. CASE b = a
    BY <1>2, <2>1 DEF IInv, TypeOK, AtmBecomes, AtmState
  <2>2. CASE b # a
    BY <1>2, <2>2 DEF IInv, TypeOK, Placed, AtmBecomes
  <2> QED
    BY <2>1, <2>2
<1> QED
  BY <1>1, <1>2 DEF AtmsPlaced

\* An ATM that moves on keeps its connection and its order.
LEMMA AtmGoesTyped ==
  ASSUME IInv, NEW a \in Atms, NEW pc \in AtmPcs, NEW stage \in Stages,
         AtmGoes(a, pc, stage), UNCHANGED order,
         pc = "exit" \/ atm[a].pc \in {"send", "recv"}
  PROVE  AtmsPlaced'
<1>1. \A b \in Atms : atm[b].pc \in {"send", "recv"} =>
        atm[b].sd \in Conns /\ order[atm[b].sd] \in Requests
  BY DEF IInv, Placed
<1> QED
  BY <1>1, AtmFields, OneAtmChanges DEF AtmGoes

\* An ATM that exits leaves every variable it writes well typed.
LEMMA AtmExitsTyped ==
  ASSUME IInv, NEW a \in Atms, NEW how \in Fates, NEW unread,
         AtmExits(a, how, unread)
  PROVE  /\ AtmsPlaced'
         /\ tcp' \in [Conns -> TcpStates] /\ fate' \in [Conns -> Fates]
         /\ UNCHANGED <<order, entry, receipt>>
<1>1. UNCHANGED <<order, entry, receipt>>
  BY DEF AtmExits
<1>2. AtmsPlaced'
  BY <1>1, AtmFields, AtmGoesTyped DEF AtmExits, AtmPcs
<1>3. tcp' \in [Conns -> TcpStates]
  BY DEF IInv, TypeOK, AtmExits, Hangup, TcpStates
<1>4. fate' \in [Conns -> Fates]
  BY DEF IInv, TypeOK, AtmExits
<1> QED
  BY <1>1, <1>2, <1>3, <1>4

LEMMA ConnectIInv ==
  ASSUME IInv, NEW a \in Atms, NEW c \in Conns, NEW m \in Requests, Connect(a, c, m)
  PROVE  IInv'
<1> USE DEF IInv, TypeOK, Connect
<1>1. AtmsPlaced'
  <2>1. ASSUME NEW b \in Atms, atm[b].pc \in {"send", "recv"}
        PROVE  order'[atm[b].sd] \in Requests
    BY <2>1 DEF Placed
  <2> QED
    BY <2>1, AtmFields, OneAtmChanges DEF AtmPcs, Stages
<1>2. tcp' \in [Conns -> TcpStates] /\ backlog' \in Seq(Conns)
  BY DEF TcpStates
<1>3. order' \in [Conns -> Requests \cup {None}] /\ fate' \in [Conns -> Fates]
  BY DEF Fates
<1> QED
  BY <1>1, <1>2, <1>3 DEF AtmsPlaced, Placed, BankTypeOK

LEMMA AtmLeavesIInv ==
  ASSUME IInv, NEW a \in Atms, ConnectFails(a) \/ Quit(a)
  PROVE  IInv'
<1>1. UNCHANGED <<safe, reported, build, bank, backlog, wire, book>>
  BY DEF ConnectFails, Quit
<1>2. AtmsPlaced'
  <2>1. AtmGoes(a, "exit", atm[a].stage) /\ atm[a].stage \in Stages
    BY DEF ConnectFails, Quit, IInv, TypeOK, AtmStates
  <2> QED
    BY <1>1, <2>1, AtmGoesTyped DEF AtmPcs, book
<1> QED
  BY <1>1, <1>2 DEF AtmsPlaced, IInv, TypeOK, Placed, BankTypeOK, wire, book

\* What an ATM puts on the wire is a packet.
LEMMA AtmPacketTyped ==
  ASSUME IInv, NEW a \in Atms, atm[a].pc = "send"
  PROVE  AtmPacket(a) \in Packet
<1>1. atm[a].stage \in Stages /\ atm[a].key \in CipherKeys /\ order[atm[a].sd] \in Msg
  BY RequestsAreMessages DEF IInv, TypeOK, Placed, AtmStates
<1>2. CASE atm[a].stage = "hello"
  BY <1>2 DEF AtmPacket, Plain, AtmHello, Packet, Handshake, Length, CipherKeys
<1>3. CASE atm[a].stage = "keyex"
  BY <1>3 DEF AtmPacket, Plain, Packet, Handshake, Length, CipherKeys
<1>4. CASE atm[a].stage = "bank"
  BY <1>1, <1>4 DEF AtmPacket, Sealed, CipherKey, Packet, CipherKeys
<1> QED
  BY <1>1, <1>2, <1>3, <1>4 DEF Stages

LEMMA AtmSendIInv ==
  ASSUME IInv, NEW a \in Atms, AtmSend(a)
  PROVE  IInv'
<1>1. UNCHANGED <<safe, reported, build, bank, backlog, tcp, down, book>>
  BY DEF AtmSend
<1>2. atm[a].pc = "send" /\ AtmPacket(a) \in Packet
  BY AtmPacketTyped DEF AtmSend
<1>3. up' \in [Conns -> Seq(Packet)]
  <2>1. up \in [Conns -> Seq(Packet)] /\ atm[a].sd \in Conns
    BY <1>2 DEF IInv, TypeOK, Placed
  <2>2. Append(up[atm[a].sd], AtmPacket(a)) \in Seq(Packet)
    BY <1>2, <2>1
  <2> QED
    BY <2>1, <2>2 DEF AtmSend
<1>4. AtmsPlaced'
  <2>1. AtmGoes(a, "recv", atm[a].stage) /\ atm[a].stage \in Stages
    BY DEF AtmSend, IInv, TypeOK, AtmStates
  <2> QED
    BY <1>1, <1>2, <2>1, AtmGoesTyped DEF AtmPcs, book
<1> QED
  BY <1>1, <1>3, <1>4 DEF AtmsPlaced, IInv, TypeOK, Placed, BankTypeOK, book

LEMMA AtmGivesUpIInv ==
  ASSUME IInv, NEW a \in Atms, AtmSendFails(a) \/ AtmRecvFails(a) \/ AtmKilled(a)
  PROVE  IInv'
<1>1. UNCHANGED <<safe, reported, build, bank, backlog, up, down>>
  BY DEF AtmSendFails, AtmRecvFails, AtmKilled
<1>2. PICK how \in Fates : AtmExits(a, how, down[atm[a].sd])
  BY DEF AtmSendFails, AtmRecvFails, AtmKilled, Fates
<1> QED
  BY <1>1, <1>2, AtmExitsTyped DEF AtmsPlaced, IInv, TypeOK, Placed, BankTypeOK

\* A read takes a packet off the wire and leaves packets there.
LEMMA AtmReadsTyped ==
  ASSUME IInv, NEW a \in Atms, NEW kind, AtmReads(a, kind)
  PROVE  /\ atm[a].pc = "recv" /\ atm[a].sd \in Conns
         /\ Head(down[atm[a].sd]) \in Packet
         /\ down' \in [Conns -> Seq(Packet)]
<1>1. atm[a].pc = "recv" /\ atm[a].sd \in Conns
  BY DEF AtmReads, IInv, Placed
<1>2. down[atm[a].sd] \in Seq(Packet) /\ down[atm[a].sd] # <<>>
  BY <1>1 DEF AtmReads, IInv, TypeOK
<1>3. Head(down[atm[a].sd]) \in Packet /\ Tail(down[atm[a].sd]) \in Seq(Packet)
  BY <1>2
<1> QED
  BY <1>1, <1>3 DEF AtmReads, IInv, TypeOK

LEMMA AtmRecvHelloIInv ==
  ASSUME IInv, NEW a \in Atms, AtmRecvHello(a)
  PROVE  IInv'
<1>1. UNCHANGED <<safe, reported, build, bank, backlog, up>>
  BY DEF AtmRecvHello
<1>2. atm[a].pc = "recv" /\ down' \in [Conns -> Seq(Packet)]
  BY AtmReadsTyped DEF AtmRecvHello
<1>3. CASE AtmGoes(a, "send", "keyex") /\ UNCHANGED <<tcp, book>>
  <2>1. AtmsPlaced'
    BY <1>2, <1>3, AtmGoesTyped DEF AtmPcs, Stages, book
  <2> QED
    BY <1>1, <1>2, <1>3, <2>1 DEF AtmsPlaced, IInv, TypeOK, Placed, BankTypeOK, book
<1>4. CASE AtmExits(a, "failed", Tail(down[atm[a].sd]))
  BY <1>1, <1>2, <1>4, AtmExitsTyped
  DEF AtmsPlaced, IInv, TypeOK, Placed, BankTypeOK, Fates
<1> QED
  BY <1>3, <1>4 DEF AtmRecvHello

LEMMA AtmRecvKeyexIInv ==
  ASSUME IInv, NEW a \in Atms, AtmRecvKeyex(a)
  PROVE  IInv'
<1> DEFINE k == Head(down[atm[a].sd]).key
<1>1. UNCHANGED <<safe, reported, build, bank, backlog, up>>
  BY DEF AtmRecvKeyex
<1>2. atm[a].pc = "recv" /\ down' \in [Conns -> Seq(Packet)] /\ k \in CipherKeys
  BY AtmReadsTyped DEF AtmRecvKeyex, Packet, Handshake
<1>3. CASE /\ AtmBecomes(a, "send", "bank", atm[a].sd, k)
           /\ UNCHANGED <<tcp, book>>
  <2>1. AtmsPlaced'
    <3>1. \A b \in Atms : atm[b].pc \in {"send", "recv"} =>
            atm[b].sd \in Conns /\ order[atm[b].sd] \in Requests
      BY DEF IInv, Placed
    <3> QED
      BY <1>2, <1>3, <3>1, OneAtmChanges DEF AtmPcs, Stages, book
  <2> QED
    BY <1>1, <1>2, <1>3, <2>1 DEF AtmsPlaced, IInv, TypeOK, Placed, BankTypeOK, book
<1>4. CASE AtmExits(a, "failed", Tail(down[atm[a].sd]))
  BY <1>1, <1>2, <1>4, AtmExitsTyped
  DEF AtmsPlaced, IInv, TypeOK, Placed, BankTypeOK, Fates
<1> QED
  BY <1>3, <1>4 DEF AtmRecvKeyex

LEMMA AtmRecvReplyIInv ==
  ASSUME IInv, NEW a \in Atms, AtmRecvReply(a)
  PROVE  IInv'
<1> DEFINE c == atm[a].sd
<1>1. UNCHANGED <<safe, reported, build, bank, backlog, up, order, entry>>
  BY DEF AtmRecvReply
<1>2. Head(down[c]) \in Packet /\ down' \in [Conns -> Seq(Packet)]
  BY AtmReadsTyped DEF AtmRecvReply
<1>3. receipt' \in [Conns -> Msg \cup {None}]
  <2>1. PICK m \in RecvMsg(Head(down[c]), build.atm, atm[a].key) :
             receipt' = [receipt EXCEPT ![c] = m]
    BY DEF AtmRecvReply
  <2> QED
    BY <1>2, <2>1, RecvMsgTyped DEF IInv, TypeOK
<1>4. fate' \in [Conns -> Fates] /\ tcp' \in [Conns -> TcpStates]
  BY DEF AtmRecvReply, Hangup, IInv, TypeOK, Fates, TcpStates
<1>5. AtmsPlaced'
  <2>1. \A b \in Atms : atm[b].pc \in {"send", "recv"} => order[atm[b].sd] \in Requests
    BY DEF IInv, Placed
  <2> QED
    BY <1>1, <2>1, AtmFields, OneAtmChanges DEF AtmRecvReply, AtmPcs
<1> QED
  BY <1>1, <1>2, <1>3, <1>4, <1>5 DEF AtmsPlaced, IInv, TypeOK, Placed, BankTypeOK

LEMMA RstArrivesIInv ==
  ASSUME IInv, NEW c \in Conns, RstArrives(c)
  PROVE  IInv'
BY DEF RstArrives, IInv, TypeOK, Placed, BankTypeOK, TcpStates, book
-----------------------------------------------------------------------------
(***************************************************************************)
(* The steps of the bank.                                                  *)
(***************************************************************************)
\* The part of IInv that is about the bank process.
BankPlaced ==
  /\ bank \in BankStates
  /\ bank.pc \notin {"accept", "exit"} => bank.cd \in Conns
  /\ bank.pc = "handle" => bank.buf \in Packet

LEMMA BankExitsTyped ==
  ASSUME IInv, BankExits
  PROVE  BankPlaced' /\ tcp' \in [Conns -> TcpStates]
BY DEF IInv, TypeOK, BankExits, BankPlaced, BankStates, BankPcs, TcpStates

LEMMA AcceptIInv ==
  ASSUME IInv, Accept
  PROVE  IInv'
<1>1. backlog \in Seq(Conns) /\ backlog # <<>>
  BY DEF IInv, TypeOK, Accept
<1>2. Head(backlog) \in Conns /\ Tail(backlog) \in Seq(Conns)
  BY <1>1
<1>3. BankPlaced' /\ backlog' \in Seq(Conns)
  BY <1>2 DEF IInv, TypeOK, Accept, BankPlaced, BankStates, BankPcs, Stages
<1> QED
  BY <1>3 DEF Accept, BankPlaced, IInv, TypeOK, Placed, BankTypeOK, wire, book

\* The bank's process ends.
LEMMA BankEndsIInv ==
  ASSUME IInv, AcceptFails \/ BankAborts
  PROVE  IInv'
<1>1. BankPlaced' /\ tcp' \in [Conns -> TcpStates]
  BY BankExitsTyped DEF AcceptFails, BankAborts
<1> QED
  BY <1>1 DEF AcceptFails, BankAborts, BankPlaced, IInv, TypeOK, Placed, BankTypeOK, book

\* The steps of try_recv that touch the bank's own state only.
LEMMA TryRecvIInv ==
  ASSUME IInv, Arm \/ EnterRecv \/ BankReadFails \/ AlarmFires \/ Disarm
  PROVE  IInv'
<1>1. UNCHANGED <<safe, reported, build, atm, backlog, wire, book>>
  BY DEF Arm, EnterRecv, BankReadFails, AlarmFires, Disarm
<1>2. BankPlaced'
  <2> USE DEF IInv, TypeOK, Placed, BankPlaced, BankStates, BankPcs
  <2>1. CASE Arm
    BY <2>1 DEF Arm
  <2>2. CASE EnterRecv
    BY <2>2 DEF EnterRecv
  <2>3. CASE BankReadFails
    BY <2>3 DEF BankReadFails
  <2>4. CASE AlarmFires
    BY <2>4 DEF AlarmFires
  <2>5. CASE Disarm
    BY <2>5 DEF Disarm
  <2> QED
    BY <2>1, <2>2, <2>3, <2>4, <2>5
<1> QED
  BY <1>1, <1>2 DEF BankPlaced, IInv, TypeOK, Placed, BankTypeOK, wire, book

LEMMA BankReadsIInv ==
  ASSUME IInv, BankReads
  PROVE  IInv'
<1>1. bank.cd \in Conns /\ up[bank.cd] \in Seq(Packet) /\ up[bank.cd] # <<>>
  BY DEF BankReads, IInv, TypeOK, Placed
<1>2. Head(up[bank.cd]) \in Packet /\ Tail(up[bank.cd]) \in Seq(Packet)
  BY <1>1
<1>3. BankPlaced'
  BY <1>1, <1>2 DEF BankReads, IInv, TypeOK, BankPlaced, BankStates, BankPcs
<1>4. up' \in [Conns -> Seq(Packet)]
  BY <1>1, <1>2 DEF BankReads, IInv, TypeOK
<1> QED
  BY <1>3, <1>4 DEF BankReads, BankPlaced, IInv, TypeOK, Placed, BankTypeOK, book

\* A send leaves the wire and the bank well typed, wherever the bank goes next.
LEMMA BankSendsTyped ==
  ASSUME IInv, bank.pc = "handle", NEW p \in Packet, NEW pc \in BankPcs \ {"handle"},
         NEW stage \in Stages, NEW k \in Keys \cup {None}, BankSends(p, pc, stage, k)
  PROVE  /\ BankPlaced' /\ tcp' \in [Conns -> TcpStates]
         /\ down' \in [Conns -> Seq(Packet)]
<1> USE DEF IInv, TypeOK, Placed
<1>1. bank.cd \in Conns
  OBVIOUS
<1>2. CASE BankExits /\ UNCHANGED down
  BY <1>2, BankExitsTyped
<1>3. CASE /\ down' = [down EXCEPT ![bank.cd] = IF tcp[bank.cd] = "open" THEN Append(@, p) ELSE @]
           /\ tcp' = [tcp EXCEPT ![bank.cd] = IF @ = "fin" THEN "rst_due" ELSE @]
           /\ bank' = [bank EXCEPT !.pc = pc, !.stage = stage, !.key = k]
  <2>1. Append(down[bank.cd], p) \in Seq(Packet)
    BY <1>1
  <2>2. down' \in [Conns -> Seq(Packet)]
    BY <1>1, <1>3, <2>1
  <2>3. tcp' \in [Conns -> TcpStates]
    BY <1>3 DEF TcpStates
  <2>4. BankPlaced'
    BY <1>1, <1>3 DEF BankPlaced, BankStates
  <2> QED
    BY <2>2, <2>3, <2>4
<1>4. CASE bank' = [bank EXCEPT !.pc = "shutdown"] /\ UNCHANGED <<tcp, down>>
  BY <1>1, <1>4 DEF BankPlaced, BankStates, BankPcs
<1> QED
  BY <1>2, <1>3, <1>4 DEF BankSends

LEMMA HelloIInv ==
  ASSUME IInv, Hello
  PROVE  IInv'
<1>1. UNCHANGED <<safe, reported, build, atm, backlog, up, book>> /\ bank.pc = "handle"
  BY DEF Hello
<1>2. /\ BankPlaced' /\ tcp' \in [Conns -> TcpStates]
      /\ down' \in [Conns -> Seq(Packet)]
  <2>1. CASE BankSends(Plain(BankHello, None), "arm", "keyex", None)
    <3>1. Plain(BankHello, None) \in Packet
      BY DEF Plain, BankHello, Packet, Handshake, Length, CipherKeys
    <3> QED
      BY <1>1, <2>1, <3>1, BankSendsTyped DEF BankPcs, Stages
  <2>2. CASE bank' = [bank EXCEPT !.pc = "shutdown"] /\ UNCHANGED <<tcp, down>>
    BY <1>1, <2>2 DEF IInv, TypeOK, Placed, BankPlaced, BankStates, BankPcs
  <2> QED
    BY <2>1, <2>2 DEF Hello
<1> QED
  BY <1>1, <1>2 DEF BankPlaced, IInv, TypeOK, Placed, BankTypeOK, book

LEMMA KeyexIInv ==
  ASSUME IInv, Keyex
  PROVE  IInv'
<1>1. UNCHANGED <<safe, reported, build, atm, backlog, up, book>> /\ bank.pc = "handle"
  BY DEF Keyex
<1>2. PICK o \in KeyOutcomes :
        \/ BankSends(Plain("server_half", o[2]), "shutdown", "keyex", None)
        \/ o[1] # None /\ BankSends(Plain("server_half", o[2]), "arm", "bank", o[1])
  BY DEF Keyex
<1>3. o[1] \in Keys \cup {None} /\ o[2] \in Keys \cup {None}
  BY SessionAssumption
<1>4. Plain("server_half", o[2]) \in Packet
  BY <1>3 DEF Plain, Packet, Handshake, Length, CipherKeys
<1>5. /\ BankPlaced' /\ tcp' \in [Conns -> TcpStates]
      /\ down' \in [Conns -> Seq(Packet)]
  BY <1>1, <1>2, <1>3, <1>4, BankSendsTyped DEF BankPcs, Stages
<1> QED
  BY <1>1, <1>5 DEF BankPlaced, IInv, TypeOK, Placed, BankTypeOK, book

LEMMA ServeIInv ==
  ASSUME IInv, Serve
  PROVE  IInv'
<1>1. UNCHANGED <<build, atm, backlog, up, order, receipt, fate>> /\ bank.pc = "handle"
  BY DEF Serve
<1>2. PICK m \in RecvMsg(bank.buf, build.bank, bank.key), r \in Msg :
        /\ Bank(m, r)
        /\ entry' = [entry EXCEPT ![bank.cd] = r]
        /\ BankSends(Sealed(CipherKey(build.bank, bank.key), r), "shutdown", "bank", bank.key)
  BY DEF Serve
<1>3. bank.buf \in Packet /\ bank.key \in Keys \cup {None}
  BY <1>1 DEF IInv, TypeOK, Placed, BankStates
<1>4. m \in Msg
  BY <1>2, <1>3, RecvMsgTyped
<1>5. BankTypeOK'
  BY <1>2, <1>4, BankKeepsType DEF IInv, TypeOK
<1>6. Sealed(CipherKey(build.bank, bank.key), r) \in Packet
  BY <1>3 DEF Sealed, CipherKey, Packet, CipherKeys
<1>7. /\ BankPlaced' /\ tcp' \in [Conns -> TcpStates]
      /\ down' \in [Conns -> Seq(Packet)]
  BY <1>1, <1>2, <1>3, <1>6, BankSendsTyped DEF BankPcs, Stages
<1>8. entry' \in [Conns -> Msg \cup {None}]
  BY <1>2 DEF IInv, TypeOK
<1> QED
  BY <1>1, <1>5, <1>7, <1>8 DEF BankPlaced, IInv, TypeOK, Placed

LEMMA ShutdownIInv ==
  ASSUME IInv, Shutdown
  PROVE  IInv'
<1>1. BankPlaced' /\ tcp' \in [Conns -> TcpStates]
  <2>1. CASE BankExits
    BY <2>1, BankExitsTyped
  <2>2. CASE /\ tcp' = [tcp EXCEPT ![bank.cd] = "shut"]
             /\ bank' = [bank EXCEPT !.pc = "accept", !.cd = None, !.buf = None]
    BY <2>2 DEF IInv, TypeOK, BankPlaced, BankStates, BankPcs, TcpStates
  <2> QED
    BY <2>1, <2>2 DEF Shutdown
<1> QED
  BY <1>1 DEF Shutdown, BankPlaced, IInv, TypeOK, Placed, BankTypeOK, book
-----------------------------------------------------------------------------
LEMMA NextIInv == IInv /\ [Next]_vars => IInv'
<1> SUFFICES ASSUME IInv, [Next]_vars
             PROVE  IInv'
  OBVIOUS
<1>1. ASSUME NEW a \in Atms, NEW c \in Conns, NEW m \in Requests, Connect(a, c, m)
      PROVE  IInv'
  BY <1>1, ConnectIInv
<1>2. ASSUME NEW a \in Atms, ConnectFails(a) \/ Quit(a)
      PROVE  IInv'
  BY <1>2, AtmLeavesIInv
<1>3. ASSUME NEW a \in Atms, AtmStep(a) \/ AtmKilled(a)
      PROVE  IInv'
  BY <1>3, AtmSendIInv, AtmGivesUpIInv, AtmRecvHelloIInv, AtmRecvKeyexIInv, AtmRecvReplyIInv
  DEF AtmStep
<1>4. ASSUME NEW c \in Conns, RstArrives(c)
      PROVE  IInv'
  BY <1>4, RstArrivesIInv
<1>5. CASE BankStep
  BY <1>5, AcceptIInv, BankEndsIInv, TryRecvIInv, BankReadsIInv, HelloIInv, KeyexIInv,
     ServeIInv, ShutdownIInv DEF BankStep
<1>6. CASE AlarmFires
  BY <1>6, TryRecvIInv
<1>7. CASE UNCHANGED vars
  BY <1>7 DEF vars, wire, book, IInv, TypeOK, Placed, BankTypeOK
<1> QED
  BY <1>1, <1>2, <1>3, <1>4, <1>5, <1>6, <1>7 DEF Next, Terminating

(***************************************************************************)
(* Every behaviour of the protocol is well typed: what is on the wire is a *)
(* packet, what is posted or displayed is a message, and the balances stay *)
(* in range, whatever the builds, the keys and the faults are.             *)
(***************************************************************************)
THEOREM SessionTypeCorrect == Spec => []TypeOK
<1>1. IInv => TypeOK
  BY DEF IInv
<1> QED
  BY <1>1, InitIInv, NextIInv, PTL DEF Spec
-----------------------------------------------------------------------------
(***************************************************************************)
(* The two sides of a connection.                                          *)
(***************************************************************************)

\* The strengthening: every step keeps it, though none of its parts alone.
Sync == IInv /\ Owned /\ LinedUp /\ OnePacket /\ Turns
-----------------------------------------------------------------------------
(***************************************************************************)
(* Sequences of at most one packet, and the queue.                         *)
(***************************************************************************)
\* Reading the only packet leaves nothing.
LEMMA OnlyPacket ==
  ASSUME NEW V, NEW s \in Seq(V), Len(s) = 1
  PROVE  Head(s) \in V /\ Tail(s) = <<>>
<1>1. s # <<>>
  BY EmptySeq
<1>2. Head(s) \in V /\ Tail(s) \in Seq(V) /\ Len(Tail(s)) = Len(s) - 1
  BY <1>1, HeadTailProperties
<1>3. Len(Tail(s)) = 0
  BY <1>2
<1> QED
  BY <1>2, <1>3, EmptySeq

\* The first packet written is the one to be read.
LEMMA FirstPacket ==
  ASSUME NEW V, NEW p \in V
  PROVE  LET s == Append(<<>>, p) IN s # <<>> /\ Len(s) = 1 /\ Head(s) = p
OBVIOUS

\* What it means that two sequences hold at most one packet.
LEMMA AtMostOne ==
  ASSUME NEW V, NEW s \in Seq(V), NEW t \in Seq(V)
  PROVE  Len(s) + Len(t) <= 1 <=>
           \/ s = <<>> /\ t = <<>>
           \/ s = <<>> /\ Len(t) = 1 /\ t # <<>>
           \/ t = <<>> /\ Len(s) = 1 /\ s # <<>>
<1>1. Len(s) \in Nat /\ Len(t) \in Nat
  BY LenProperties
<1>2. (s = <<>> <=> Len(s) = 0) /\ (t = <<>> <=> Len(t) = 0)
  BY EmptySeq
<1> DEFINE m == Len(s)  n == Len(t)
<1>3. m + n <= 1 <=> \/ m = 0 /\ n = 0
                     \/ m = 0 /\ n = 1
                     \/ n = 0 /\ m = 1
  <2> HIDE DEF m, n
  <2>1. m \in Nat /\ n \in Nat
    BY <1>1 DEF m, n
  <2> QED
    BY <2>1
<1> QED
  BY <1>2, <1>3

\* Joining the queue.
LEMMA QueueGrows ==
  ASSUME IInv, NEW c \in Conns, backlog' = Append(backlog, c)
  PROVE  /\ Queued' = Queued \cup {c}
         /\ (\A i, j \in DOMAIN backlog : backlog[i] = backlog[j] => i = j) /\ c \notin Queued
              => \A i, j \in DOMAIN backlog' : backlog'[i] = backlog'[j] => i = j
<1>1. backlog \in Seq(Conns)
  BY DEF IInv, TypeOK
<1>2. /\ DOMAIN backlog = 1 .. Len(backlog) /\ Len(backlog) \in Nat
      /\ DOMAIN backlog' = 1 .. Len(backlog) + 1
      /\ \A i \in 1 .. Len(backlog) : backlog'[i] = backlog[i]
      /\ backlog'[Len(backlog) + 1] = c
  BY <1>1
<1> QED
  BY <1>2 DEF Queued

\* Leaving the queue.
LEMMA QueueShrinks ==
  ASSUME IInv, LinedUp, backlog # <<>>, backlog' = Tail(backlog)
  PROVE  /\ Head(backlog) \in Queued
         /\ Queued' = Queued \ {Head(backlog)}
         /\ \A i, j \in DOMAIN backlog' : backlog'[i] = backlog'[j] => i = j
<1>1. backlog \in Seq(Conns)
  BY DEF IInv, TypeOK
<1>2. /\ DOMAIN backlog = 1 .. Len(backlog) /\ Len(backlog) \in Nat /\ Len(backlog) # 0
      /\ DOMAIN backlog' = 1 .. Len(backlog) - 1
      /\ \A i \in 1 .. Len(backlog) - 1 : backlog'[i] = backlog[i + 1]
      /\ Head(backlog) = backlog[1]
  BY <1>1
<1>3. \A i, j \in 1 .. Len(backlog) : backlog[i] = backlog[j] => i = j
  BY <1>2 DEF LinedUp
<1>4. ASSUME NEW c \in Queued, c # Head(backlog)
      PROVE  c \in Queued'
  <2>1. PICK i \in 1 .. Len(backlog) : backlog[i] = c
    BY <1>2, <1>4 DEF Queued
  <2>2. i - 1 \in DOMAIN backlog' /\ backlog'[i - 1] = c
    BY <1>2, <1>4, <2>1
  <2> QED
    BY <2>2 DEF Queued
<1>5. ASSUME NEW c \in Queued'
      PROVE  c \in Queued /\ c # Head(backlog)
  <2>1. PICK i \in DOMAIN backlog' : backlog'[i] = c
    BY <1>5 DEF Queued
  <2>2. i + 1 \in 1 .. Len(backlog) /\ backlog[i + 1] = c /\ i + 1 # 1
    BY <1>2, <2>1
  <2> QED
    BY <1>2, <1>3, <2>2 DEF Queued
<1>6. Head(backlog) \in Queued /\ Queued' = Queued \ {Head(backlog)}
  <2>1. Head(backlog) \in Queued
    BY <1>2 DEF Queued
  <2> QED
    BY <1>4, <1>5, <2>1
<1>7. ASSUME NEW i \in DOMAIN backlog', NEW j \in DOMAIN backlog', backlog'[i] = backlog'[j]
      PROVE  i = j
  <2>1. backlog[i + 1] = backlog[j + 1] /\ i + 1 \in 1 .. Len(backlog) /\ j + 1 \in 1 .. Len(backlog)
    BY <1>2, <1>7
  <2>2. i + 1 = j + 1
    BY <1>3, <2>1
  <2> QED
    BY <1>2, <2>2
<1> QED
  BY <1>6, <1>7
-----------------------------------------------------------------------------
(***************************************************************************)
(* A step concerns one connection, if any.                                 *)
(***************************************************************************)
\* The step leaves connection d as it is.
Untouched(d) ==
  /\ up'[d] = up[d] /\ down'[d] = down[d] /\ order'[d] = order[d] /\ tcp'[d] = tcp[d]
  /\ build' = build
  /\ (d \in Queued)' <=> d \in Queued
  /\ bank' = bank \/ (bank.cd # d /\ bank'.cd # d)

\* A connection that a step does not touch stays in order.
LEMMA UntouchedInOrder ==
  ASSUME NEW d \in Conns, Untouched(d), InOrder(d)
  PROVE  InOrder(d)'
<1>1. CASE bank' = bank
  BY <1>1 DEF Untouched, InOrder, Expects, Awaits, Holds, Letter, AtmHello
<1>2. CASE bank.cd # d /\ bank'.cd # d
  BY <1>2 DEF Untouched, InOrder, Expects, Awaits, Holds, Letter, AtmHello
<1> QED
  BY <1>1, <1>2 DEF Untouched

\* And whose turn it is there does not change.
LEMMA UntouchedTurn ==
  ASSUME NEW d \in Conns, NEW a \in Atms, Untouched(d), atm'[a] = atm[a], atm[a].sd = d,
         Turn(a, d)
  PROVE  Turn(a, d)'
<1>1. AtmPacket(a)' = AtmPacket(a) /\ AtmAwaits(a)' = AtmAwaits(a)
  BY DEF Untouched, AtmPacket, AtmAwaits, AtmHello
<1>2. CASE bank' = bank
  BY <1>1, <1>2 DEF Untouched, Turn, Expects, Awaits, Holds, Closes
<1>3. CASE bank.cd # d /\ bank'.cd # d
  BY <1>1, <1>3 DEF Untouched, Turn, Expects, Awaits, Holds, Closes
<1> QED
  BY <1>2, <1>3 DEF Untouched

\* So it is enough to look at that one.
LEMMA OneConnection ==
  ASSUME Sync, NEW c \in Conns,
         \A d \in Conns \ {c} : Untouched(d),
         \A a \in Atms, d \in Conns \ {c} : (Live(a) /\ atm[a].sd = d)' => atm'[a] = atm[a],
         InOrder(c)',
         \A a \in Atms : (Live(a) /\ atm[a].sd = c)' => Turn(a, c)'
  PROVE  OnePacket' /\ Turns'
<1>1. \A d \in Conns : InOrder(d)'
  BY UntouchedInOrder DEF Sync, OnePacket
<1>2. ASSUME NEW a \in Atms, NEW d \in Conns, (Live(a) /\ atm[a].sd = d)'
      PROVE  Turn(a, d)'
  <2>1. CASE d = c
    BY <1>2, <2>1
  <2>2. CASE d # c
    <3>1. atm'[a] = atm[a] /\ Live(a) /\ atm[a].sd = d
      BY <1>2, <2>2 DEF Live
    <3> QED
      BY <2>2, <3>1, UntouchedTurn DEF Sync, Turns
  <2> QED
    BY <2>1, <2>2
<1> QED
  BY <1>1, <1>2 DEF OnePacket, Turns
-----------------------------------------------------------------------------
(***************************************************************************)
(* The steps of an ATM.                                                    *)
(***************************************************************************)
Wire == Owned /\ LinedUp /\ OnePacket /\ Turns

\* A new connection: it was in nobody's hands.
LEMMA ConnectWire ==
  ASSUME Sync, NEW a \in Atms, NEW c \in Conns, NEW m \in Requests, Connect(a, c, m)
  PROVE  Wire'
<1> USE DEF Sync
<1>1. /\ c # None /\ tcp[c] = "free" /\ up[c] = <<>> /\ down[c] = <<>> /\ c \notin Queued
      /\ bank.cd # c /\ bank.pc # "exit" /\ fate[c] = "idle"
      /\ \A b \in Atms : atm[b].sd # c
  <2>1. c \notin Queued /\ c # None
    BY SessionAssumption DEF Connect, LinedUp
  <2> QED
    BY <2>1 DEF Connect, LinedUp, Owned, IInv, TypeOK
<1>2. /\ atm' = [atm EXCEPT ![a] = AtmState("send", "hello", c, atm[a].key)]
      /\ tcp' = [tcp EXCEPT ![c] = "open"] /\ backlog' = Append(backlog, c)
      /\ order' = [order EXCEPT ![c] = m] /\ fate' = [fate EXCEPT ![c] = "waiting"]
      /\ UNCHANGED <<build, bank, up, down>>
  BY DEF Connect, AtmBecomes
<1>3. Queued' = Queued \cup {c} /\ \A i, j \in DOMAIN backlog' : backlog'[i] = backlog'[j] => i = j
  BY <1>1, <1>2, QueueGrows DEF LinedUp
<1>4. Owned'
  BY <1>1, <1>2 DEF Owned, Live, IInv, TypeOK, AtmState
<1>5. LinedUp'
  <2>1. \A d \in Conns : tcp'[d] = IF d = c THEN "open" ELSE tcp[d]
    BY <1>2 DEF IInv, TypeOK
  <2>2. bank.pc \notin {"accept", "exit"} => bank.cd \in Conns
    BY DEF IInv, Placed
  <2>3. Queued \subseteq Conns
    BY DEF Queued, IInv, TypeOK
  <2>4. \A d \in Queued' : /\ bank.cd # d /\ down[d] = <<>>
                          /\ tcp'[d] \in {"open", "fin"}
    BY <1>1, <1>3, <2>1, <2>3 DEF LinedUp
  <2> QED
    BY <1>1, <1>2, <1>3, <2>1, <2>2, <2>4 DEF LinedUp
<1>6. \A d \in Conns \ {c} : Untouched(d)
  BY <1>2, <1>3 DEF Untouched, IInv, TypeOK
<1>7. InOrder(c)'
  BY <1>1, <1>2 DEF InOrder, Holds, IInv, TypeOK, OnePacket
<1>8. ASSUME NEW b \in Atms, (Live(b) /\ atm[b].sd = c)'
      PROVE  Turn(b, c)'
  <2>1. b = a
    BY <1>1, <1>2, <1>8 DEF IInv, TypeOK
  <2>2. atm'[b].pc = "send" /\ atm'[b].stage = "hello"
    BY <1>2, <2>1 DEF IInv, TypeOK, AtmState
  <2> QED
    BY <1>1, <1>2, <1>3, <2>2 DEF Turn, Expects
<1>9. \A b \in Atms, d \in Conns \ {c} : (Live(b) /\ atm[b].sd = d)' => atm'[b] = atm[b]
  BY <1>2 DEF IInv, TypeOK, AtmState
<1> QED
  BY <1>4, <1>5, <1>6, <1>7, <1>8, <1>9, OneConnection DEF Wire

\* An ATM at its prompt holds no connection.
LEMMA AtmLeavesWire ==
  ASSUME Sync, NEW a \in Atms, ConnectFails(a) \/ Quit(a)
  PROVE  Wire'
<1> USE DEF Sync
<1>1. /\ atm' = [atm EXCEPT ![a] = AtmState("exit", atm[a].stage, atm[a].sd, atm[a].key)]
      /\ UNCHANGED <<build, bank, backlog, up, down, tcp, order, fate>>
  BY DEF ConnectFails, Quit, AtmGoes, AtmBecomes, wire, book
<1>2. atm'[a].pc = "exit" /\ \A b \in Atms : atm'[b].sd = atm[b].sd
  BY <1>1 DEF IInv, TypeOK, AtmState
<1>3. \A b \in Atms \ {a} : atm'[b] = atm[b]
  BY <1>1 DEF IInv, TypeOK
<1>4. Owned'
  BY <1>1, <1>2, <1>3 DEF Owned, Live
<1>5. LinedUp'
  BY <1>1 DEF LinedUp, Queued
<1>6. \A d \in Conns : Untouched(d)
  BY <1>1 DEF Untouched, Queued
<1>7. OnePacket'
  BY <1>6, UntouchedInOrder DEF OnePacket
<1>8. ASSUME NEW b \in Atms, NEW d \in Conns, (Live(b) /\ atm[b].sd = d)'
      PROVE  Turn(b, d)'
  <2>1. b # a
    BY <1>2, <1>8 DEF Live
  <2>2. atm'[b] = atm[b] /\ Turn(b, d)
    BY <1>3, <1>8, <2>1 DEF Live, Turns
  <2> QED
    BY <1>6, <1>8, <2>2, UntouchedTurn
<1> QED
  BY <1>4, <1>5, <1>7, <1>8 DEF Wire, Turns

\* What is known of the connection of a running ATM.
LEMMA LiveConnection ==
  ASSUME Sync, NEW a \in Atms, Live(a)
  PROVE  LET c == atm[a].sd IN
         /\ c \in Conns /\ c # None /\ tcp[c] \in {"open", "shut"} /\ fate[c] = "waiting"
         /\ InOrder(c) /\ Turn(a, c)
         /\ \A b \in Atms : atm[b].sd = c => b = a
         /\ up[c] \in Seq(Packet) /\ down[c] \in Seq(Packet)
         /\ atm[a].stage \in Stages /\ atm[a].key \in CipherKeys
<1> USE DEF Sync
<1>1. atm[a].sd \in Conns /\ atm[a].sd # None
  BY SessionAssumption DEF Live, IInv, Placed
<1> QED
  BY <1>1 DEF Live, IInv, TypeOK, Owned, OnePacket, Turns, AtmStates

\* It was the ATM's turn; now the packet is on its way, or nobody listens.
LEMMA AtmSendWire ==
  ASSUME Sync, NEW a \in Atms, AtmSend(a)
  PROVE  Wire'
<1> USE DEF Sync
<1>1. PICK c \in Conns :
      /\ c = atm[a].sd /\ c # None /\ tcp[c] \in {"open", "shut"} /\ fate[c] = "waiting"
      /\ InOrder(c) /\ Turn(a, c)
      /\ \A b \in Atms : atm[b].sd = c => b = a
      /\ up[c] = <<>> /\ down[c] = <<>>
  BY LiveConnection DEF AtmSend, Live, Turn
<1>2. /\ atm' = [atm EXCEPT ![a] = AtmState("recv", atm[a].stage, c, atm[a].key)]
      /\ up' = IF tcp[c] = "open" THEN [up EXCEPT ![c] = Append(@, AtmPacket(a))] ELSE up
      /\ UNCHANGED <<build, bank, backlog, tcp, down, order, fate>>
  BY <1>1 DEF AtmSend, AtmGoes, AtmBecomes, book
<1>3. /\ atm'[a].pc = "recv" /\ atm'[a].sd = c /\ atm'[a].stage = atm[a].stage
      /\ atm'[a].key = atm[a].key /\ atm[a].sd = c /\ Live(a)
      /\ \A b \in Atms \ {a} : atm'[b] = atm[b]
  BY <1>1, <1>2 DEF IInv, TypeOK, AtmState, AtmSend, Live
<1>4. Owned'
  <2>1. \A b \in Atms : /\ atm'[b].sd = atm[b].sd /\ (Live(b)' <=> Live(b))
                        /\ atm'[b].pc = "prompt" => atm[b].pc = "prompt"
    BY <1>3 DEF Live
  <2>2. \A d \in Conns : tcp[d] = "free" => up'[d] = up[d]
    BY <1>1, <1>2 DEF IInv, TypeOK
  <2> QED
    BY <1>2, <2>1, <2>2 DEF Owned
<1>5. LinedUp'
  BY <1>2 DEF LinedUp, Queued
<1>6. \A d \in Conns \ {c} : Untouched(d)
  BY <1>2 DEF Untouched, Queued, IInv, TypeOK
<1>7. AtmPacket(a)' = AtmPacket(a) /\ AtmPacket(a) \in Packet
  BY <1>2, <1>3, AtmPacketTyped DEF AtmPacket, AtmHello, AtmSend
<1>8. CASE tcp[c] # "open"
  <2>1. UNCHANGED <<up, tcp, down, order, build, bank, backlog>>
    BY <1>2, <1>8
  <2>2. InOrder(c)'
    BY <1>1, <2>1, UntouchedInOrder DEF Untouched, Queued
  <2>3. Turn(a, c)'
    BY <1>1, <1>3, <1>8, <2>1 DEF Turn
  <2> QED
    BY <1>1, <1>3, <1>4, <1>5, <1>6, <2>2, <2>3, OneConnection DEF Wire
<1>9. CASE tcp[c] = "open"
  <2>1. up'[c] # <<>> /\ Len(up'[c]) = 1 /\ Head(up'[c]) = AtmPacket(a)
    BY <1>1, <1>2, <1>7, <1>9, FirstPacket DEF IInv, TypeOK
  <2>2. Closes(c) \/ Expects(c, atm[a].stage)
    BY <1>1, <1>3, <1>9 DEF Turn, AtmSend
  <2>3. ~Holds(c) /\ \A s \in Stages : Expects(c, s) => s = atm[a].stage
    BY <1>1, <2>2 DEF Holds, Closes, Expects, Awaits, LinedUp
  <2>4. Letter(AtmPacket(a), c, atm[a].stage)
    BY <1>1, AtmFields DEF Letter, AtmPacket, Plain, Sealed, Stages
  <2>5. InOrder(c)'
    <3>1. Len(up'[c]) + Len(down'[c]) <= 1
      <4>1. up'[c] \in Seq(Packet) /\ down'[c] = <<>> /\ <<>> \in Seq(Packet)
        BY <1>1, <1>2, <1>7, <1>9 DEF IInv, TypeOK
      <4> QED
        BY <2>1, <4>1, AtMostOne
    <3>2. UNCHANGED <<order, build, bank, backlog, tcp>>
      BY <1>2
    <3> QED
      BY <1>9, <2>1, <2>3, <2>4, <3>1, <3>2 DEF InOrder, Holds, Expects, Awaits, Queued, Letter, AtmHello
  <2>6. Turn(a, c)'
    BY <1>1, <1>2, <1>3, <1>7, <2>1, <2>2 DEF Turn, Closes, Expects, Awaits, Queued
  <2> QED
    BY <1>1, <1>3, <1>4, <1>5, <1>6, <2>5, <2>6, OneConnection DEF Wire
<1> QED
  BY <1>8, <1>9

\* The ATM's end is closed: the order is over for its ATM, how is its fate, and
\* what is unread on the connection may turn the close into a reset.
LEMMA HangupWire ==
  ASSUME Sync, NEW a \in Atms, Live(a), NEW c \in Conns, c = atm[a].sd,
         NEW how \in {"told", "failed", "gone"},
         NEW unread, unread = down[c] \/ (down[c] # <<>> /\ unread = Tail(down[c])),
         Hangup(c, unread), down' = [down EXCEPT ![c] = unread],
         fate' = [fate EXCEPT ![c] = how],
         \A b \in Atms \ {a} : atm'[b] = atm[b],
         \/ atm'[a].pc = "exit" /\ atm'[a].sd = c
         \/ atm'[a].pc = "prompt" /\ atm'[a].sd = None,
         UNCHANGED <<build, bank, backlog, up, order>>
  PROVE  Wire'
<1> USE DEF Sync
<1>1. /\ c # None /\ tcp[c] \in {"open", "shut"} /\ fate[c] = "waiting"
      /\ InOrder(c) /\ up[c] \in Seq(Packet) /\ down[c] \in Seq(Packet)
      /\ \A b \in Atms : atm[b].sd = c => b = a
  BY LiveConnection
<1>2. /\ tcp' = [tcp EXCEPT ![c] = IF @ # "open" THEN @
                                   ELSE IF unread = <<>> THEN "fin" ELSE "rst"]
      /\ down'[c] = unread
  BY DEF Hangup, IInv, TypeOK
<1>3. /\ Len(up[c]) + Len(unread) <= 1
      /\ unread # <<>> => up[c] = <<>> /\ ~Holds(c) /\ down[c] # <<>>
      /\ down[c] = <<>> => unread = <<>>
  <2>1. Len(up[c]) + Len(down[c]) <= 1 /\ (Holds(c) => down[c] = <<>>)
    BY <1>1 DEF InOrder
  <2>2. \/ up[c] = <<>> /\ down[c] = <<>>
        \/ up[c] = <<>> /\ Len(down[c]) = 1 /\ down[c] # <<>>
        \/ down[c] = <<>> /\ Len(up[c]) = 1 /\ up[c] # <<>>
    BY <1>1, <2>1, AtMostOne
  <2>3. CASE unread = down[c]
    BY <2>1, <2>2, <2>3
  <2>4. CASE down[c] # <<>> /\ unread = Tail(down[c])
    <3>1. up[c] = <<>> /\ unread = <<>>
      BY <1>1, <2>2, <2>4, OnlyPacket
    <3>2. Len(up[c]) + Len(unread) <= 1
      BY <3>1, EmptySeq, AtMostOne
    <3> QED
      BY <2>4, <3>1, <3>2
  <2> QED
    BY <2>3, <2>4
<1>4. Owned'
  <2>1. \A b \in Atms : /\ atm'[b].sd = atm[b].sd \/ atm'[b].sd = None
                        /\ Live(b)' => Live(b) /\ b # a /\ atm'[b] = atm[b]
                        /\ atm'[b].pc = "prompt" => atm'[b].sd = None
    BY DEF Live, Owned
  <2>2. \A d \in Conns : /\ d # c => tcp'[d] = tcp[d] /\ fate'[d] = fate[d] /\ down'[d] = down[d]
                         /\ tcp'[d] = "free" <=> tcp[d] = "free"
    BY <1>1, <1>2 DEF IInv, TypeOK
  <2>3. fate'[c] = how /\ tcp'[c] # "free"
    BY <1>1, <1>2 DEF IInv, TypeOK
  <2>4. \A b1, b2 \in Atms : atm'[b1].sd = atm'[b2].sd /\ atm'[b1].sd # None => b1 = b2
    BY <2>1 DEF Owned
  <2>5. \A b \in Atms : atm'[b].sd # None => tcp'[atm'[b].sd] # "free"
    BY <2>1, <2>2 DEF Owned, IInv, TypeOK, AtmStates
  <2>6. \A b \in Atms : Live(b)' => fate'[atm'[b].sd] = "waiting"
    <3> SUFFICES ASSUME NEW b \in Atms, Live(b)'
                 PROVE  fate'[atm[b].sd] = "waiting"
      BY <2>1
    <3>1. Live(b) /\ b # a
      BY <2>1
    <3>2. atm[b].sd # c /\ fate[atm[b].sd] = "waiting" /\ atm[b].sd \in Conns
      BY <1>1, <3>1 DEF Owned, IInv, Placed, Live
    <3> QED
      BY <2>2, <3>2
  <2>7. \A d \in Conns : /\ fate'[d] = "waiting" => tcp'[d] \in {"open", "shut"}
                         /\ fate'[d] = "idle" <=> tcp'[d] = "free"
                         /\ tcp'[d] = "free" => up[d] = <<>> /\ down'[d] = <<>> /\ order[d] = None
    BY <2>2, <2>3 DEF Owned
  <2> QED
    BY <2>1, <2>4, <2>5, <2>6, <2>7 DEF Owned
<1>5. LinedUp'
  <2>1. Queued' = Queued /\ UNCHANGED <<bank, backlog>>
    BY DEF Queued
  <2>2. Queued \subseteq Conns
    BY DEF Queued, IInv, TypeOK
  <2>3. \A d \in Conns : /\ tcp'[d] = IF d # c \/ tcp[d] # "open" THEN tcp[d]
                                      ELSE IF unread = <<>> THEN "fin" ELSE "rst"
                         /\ down'[d] = IF d = c THEN unread ELSE down[d]
    BY <1>2 DEF IInv, TypeOK
  <2>4. \A d \in Queued : down'[d] = <<>> /\ (tcp'[d] = tcp[d] \/ (tcp'[d] = "fin" /\ tcp[d] = "open"))
    BY <1>3, <2>2, <2>3 DEF LinedUp
  <2> QED
    BY <1>1, <2>1, <2>2, <2>3, <2>4 DEF LinedUp, IInv, Placed
<1>6. \A d \in Conns \ {c} : Untouched(d)
  BY <1>2 DEF Untouched, Queued, IInv, TypeOK
<1>7. InOrder(c)'
  <2>1. UNCHANGED <<build, bank, backlog, up, order>> /\ tcp'[c] # "rst_due"
    BY <1>1, <1>2 DEF IInv, TypeOK
  <2>2. tcp'[c] = "rst" => unread # <<>>
    BY <1>1, <1>2 DEF IInv, TypeOK
  <2>3. Holds(c) => unread = <<>>
    BY <1>3
  <2>4. /\ Holds(c)' <=> Holds(c)
        /\ \A s \in Stages : Expects(c, s)' <=> Expects(c, s)
        /\ \A p, s : Letter(p, c, s)' <=> Letter(p, c, s)
    BY <2>1 DEF Holds, Expects, Awaits, Queued, Letter, AtmHello
  <2> QED
    BY <1>1, <1>2, <1>3, <2>1, <2>2, <2>3, <2>4 DEF InOrder
<1>8. \A b \in Atms : ~(Live(b) /\ atm[b].sd = c)'
  BY <1>1 DEF Live
<1>9. \A b \in Atms, d \in Conns \ {c} : (Live(b) /\ atm[b].sd = d)' => atm'[b] = atm[b]
  BY DEF Live
<1> QED
  BY <1>4, <1>5, <1>6, <1>7, <1>8, <1>9, OneConnection DEF Wire

\* A failed send or receive, and a kill: each hangs up.
LEMMA AtmGivesUpWire ==
  ASSUME Sync, NEW a \in Atms, AtmSendFails(a) \/ AtmRecvFails(a) \/ AtmKilled(a)
  PROVE  Wire'
<1>1. PICK how \in {"failed", "gone"} : AtmExits(a, how, down[atm[a].sd])
  BY DEF AtmSendFails, AtmRecvFails, AtmKilled
<1>2. UNCHANGED <<build, bank, backlog, up, down, order>> /\ Live(a)
  BY DEF AtmSendFails, AtmRecvFails, AtmKilled, AtmExits, Live
<1>3. PICK c \in Conns : c = atm[a].sd
  BY <1>2, LiveConnection
<1>4. /\ atm'[a].pc = "exit" /\ atm'[a].sd = c
      /\ \A b \in Atms \ {a} : atm'[b] = atm[b]
  BY <1>1, <1>3 DEF AtmExits, AtmGoes, AtmBecomes, AtmState, Sync, IInv, TypeOK
<1>5. Hangup(c, down[c]) /\ fate' = [fate EXCEPT ![c] = how]
  BY <1>1, <1>3 DEF AtmExits
<1>6. down' = [down EXCEPT ![c] = down[c]]
  BY <1>2 DEF Sync, IInv, TypeOK
<1> QED
  BY <1>2, <1>3, <1>4, <1>5, <1>6, HangupWire

\* An ATM that has read the bank's answer goes on to the next stage.
LEMMA AtmMovesOnWire ==
  ASSUME Sync, NEW a \in Atms, NEW c \in Conns, c = atm[a].sd, atm[a].pc = "recv",
         atm[a].stage # "bank", down[c] # <<>>, down' = [down EXCEPT ![c] = Tail(@)],
         NEW key, AtmBecomes(a, "send", After[atm[a].stage], c, key),
         UNCHANGED <<build, bank, backlog, tcp, up, order, fate>>
  PROVE  Wire'
<1> USE DEF Sync
<1>1. /\ c # None /\ tcp[c] \in {"open", "shut"} /\ InOrder(c) /\ Turn(a, c)
      /\ up[c] \in Seq(Packet) /\ down[c] \in Seq(Packet)
      /\ \A b \in Atms : atm[b].sd = c => b = a
  BY LiveConnection DEF Live
<1>2. /\ atm'[a].pc = "send" /\ atm'[a].sd = c /\ atm'[a].stage = After[atm[a].stage]
      /\ \A b \in Atms \ {a} : atm'[b] = atm[b]
  BY DEF AtmBecomes, AtmState, IInv, TypeOK
<1>3. up[c] = <<>> /\ Len(down[c]) = 1 /\ ~Holds(c)
  <2>1. Len(up[c]) + Len(down[c]) <= 1
    BY <1>1 DEF InOrder
  <2>2. up[c] = <<>> /\ Len(down[c]) = 1
    BY <1>1, <2>1, AtMostOne
  <2> QED
    BY <1>1, <2>2 DEF InOrder
<1>4. down'[c] = <<>>
  BY <1>1, <1>3, OnlyPacket DEF IInv, TypeOK
<1>5. Owned'
  <2>1. \A b \in Atms : /\ atm'[b].sd = atm[b].sd /\ (Live(b)' <=> Live(b))
                        /\ atm'[b].pc = "prompt" => atm[b].pc = "prompt"
    BY <1>2 DEF Live
  <2>2. \A d \in Conns : tcp[d] = "free" => down'[d] = down[d]
    BY <1>1 DEF IInv, TypeOK
  <2> QED
    BY <2>1, <2>2 DEF Owned
<1>6. LinedUp'
  <2>1. \A d \in Queued : down[d] = <<>> => down'[d] = <<>>
    BY <1>4 DEF IInv, TypeOK, Queued
  <2> QED
    BY <2>1 DEF LinedUp, Queued
<1>7. \A d \in Conns \ {c} : Untouched(d)
  BY DEF Untouched, Queued, IInv, TypeOK
<1>8. InOrder(c)'
  <2>1. Len(up'[c]) + Len(down'[c]) <= 1
    BY <1>3, <1>4, EmptySeq, AtMostOne
  <2> QED
    BY <1>3, <2>1 DEF InOrder, Holds
<1>9. Turn(a, c)'
  <2>1. tcp[c] = "open" /\ ~Closes(c) => Expects(c, After[atm[a].stage])
    BY <1>1 DEF Turn
  <2> QED
    BY <1>2, <1>3, <1>4, <2>1 DEF Turn, Closes, Expects, Awaits, Queued
<1> QED
  BY <1>1, <1>2, <1>5, <1>6, <1>7, <1>8, <1>9, OneConnection DEF Wire

\* The bank's HELLO: the turn goes back to the ATM, or it hangs up.
LEMMA AtmRecvHelloWire ==
  ASSUME Sync, NEW a \in Atms, AtmRecvHello(a)
  PROVE  Wire'
<1>1. Live(a) /\ atm[a].pc = "recv" /\ atm[a].stage = "hello" /\ After["hello"] = "keyex"
  BY DEF AtmRecvHello, AtmReads, Live, After
<1>2. PICK c \in Conns : c = atm[a].sd
  BY <1>1, LiveConnection
<1>3. /\ down[c] # <<>> /\ down' = [down EXCEPT ![c] = Tail(@)]
      /\ UNCHANGED <<build, bank, backlog, up>>
  BY <1>2 DEF AtmRecvHello, AtmReads
<1>4. CASE AtmGoes(a, "send", "keyex") /\ UNCHANGED <<tcp, book>>
  BY <1>1, <1>2, <1>3, <1>4, AtmMovesOnWire DEF AtmGoes, book
<1>5. CASE AtmExits(a, "failed", Tail(down[c]))
  <2>1. /\ atm'[a].pc = "exit" /\ atm'[a].sd = c
        /\ \A b \in Atms \ {a} : atm'[b] = atm[b]
        /\ Hangup(c, Tail(down[c])) /\ fate' = [fate EXCEPT ![c] = "failed"]
        /\ UNCHANGED order
    BY <1>2, <1>5 DEF AtmExits, AtmGoes, AtmBecomes, AtmState, Sync, IInv, TypeOK
  <2> QED
    BY <1>1, <1>2, <1>3, <2>1, HangupWire
<1> QED
  BY <1>2, <1>4, <1>5 DEF AtmRecvHello

\* The bank's key half: the turn goes back to the ATM, or it hangs up.
LEMMA AtmRecvKeyexWire ==
  ASSUME Sync, NEW a \in Atms, AtmRecvKeyex(a)
  PROVE  Wire'
<1>1. Live(a) /\ atm[a].pc = "recv" /\ atm[a].stage = "keyex" /\ After["keyex"] = "bank"
  BY DEF AtmRecvKeyex, AtmReads, Live, After
<1>2. PICK c \in Conns : c = atm[a].sd
  BY <1>1, LiveConnection
<1>3. /\ down[c] # <<>> /\ down' = [down EXCEPT ![c] = Tail(@)]
      /\ UNCHANGED <<build, bank, backlog, up>>
  BY <1>2 DEF AtmRecvKeyex, AtmReads
<1>4. CASE /\ AtmBecomes(a, "send", "bank", c, Head(down[c]).key)
           /\ UNCHANGED <<tcp, book>>
  BY <1>1, <1>2, <1>3, <1>4, AtmMovesOnWire DEF book
<1>5. CASE AtmExits(a, "failed", Tail(down[c]))
  <2>1. /\ atm'[a].pc = "exit" /\ atm'[a].sd = c
        /\ \A b \in Atms \ {a} : atm'[b] = atm[b]
        /\ Hangup(c, Tail(down[c])) /\ fate' = [fate EXCEPT ![c] = "failed"]
        /\ UNCHANGED order
    BY <1>2, <1>5 DEF AtmExits, AtmGoes, AtmBecomes, AtmState, Sync, IInv, TypeOK
  <2> QED
    BY <1>1, <1>2, <1>3, <2>1, HangupWire
<1> QED
  BY <1>2, <1>4, <1>5 DEF AtmRecvKeyex

\* The reply: the ATM hangs up.
LEMMA AtmRecvReplyWire ==
  ASSUME Sync, NEW a \in Atms, AtmRecvReply(a)
  PROVE  Wire'
<1>1. Live(a)
  BY DEF AtmRecvReply, AtmReads, Live
<1>2. PICK c \in Conns : c = atm[a].sd
  BY <1>1, LiveConnection
<1>3. /\ down[c] # <<>> /\ down' = [down EXCEPT ![c] = Tail(down[c])]
      /\ UNCHANGED <<build, bank, backlog, up, order>>
      /\ Hangup(c, Tail(down[c])) /\ fate' = [fate EXCEPT ![c] = "told"]
      /\ AtmBecomes(a, "prompt", atm[a].stage, None, atm[a].key)
  BY <1>2 DEF AtmRecvReply, AtmReads
<1>4. /\ atm'[a].pc = "prompt" /\ atm'[a].sd = None
      /\ \A b \in Atms \ {a} : atm'[b] = atm[b]
  BY <1>3 DEF AtmBecomes, AtmState, Sync, IInv, TypeOK
<1> QED
  BY <1>1, <1>2, <1>3, <1>4, HangupWire

\* A reset arrives, on a connection that has nothing more for the bank.
LEMMA RstArrivesWire ==
  ASSUME Sync, NEW c \in Conns, RstArrives(c)
  PROVE  Wire'
<1> USE DEF Sync
<1>1. /\ tcp[c] = "rst_due" /\ tcp' = [tcp EXCEPT ![c] = "rst"]
      /\ UNCHANGED <<build, bank, atm, backlog, up, down, order, fate>>
  BY DEF RstArrives, book
<1>2. Owned'
  BY <1>1 DEF Owned, Live, IInv, TypeOK, AtmStates
<1>3. LinedUp'
  <2>1. c \notin Queued
    BY <1>1 DEF LinedUp
  <2> QED
    BY <1>1, <2>1 DEF LinedUp, Queued, IInv, TypeOK, Placed
<1>4. \A d \in Conns \ {c} : Untouched(d)
  BY <1>1 DEF Untouched, Queued, IInv, TypeOK
<1>5. InOrder(c)'
  <2>1. InOrder(c)
    BY DEF OnePacket
  <2> QED
    BY <1>1, <2>1 DEF InOrder, Holds, Expects, Awaits, Queued, Letter, AtmHello
<1>6. \A a \in Atms : ~(Live(a) /\ atm[a].sd = c)'
  BY <1>1 DEF Owned, Live
<1> QED
  BY <1>1, <1>2, <1>3, <1>4, <1>5, <1>6, OneConnection DEF Wire
-----------------------------------------------------------------------------
(***************************************************************************)
(* The steps of the bank.                                                  *)
(***************************************************************************)
\* What is known of the connection that is served.
LEMMA ServedConnection ==
  ASSUME Sync, bank.pc \notin {"accept", "exit"}
  PROVE  LET c == bank.cd IN
         /\ c \in Conns /\ c # None /\ tcp[c] \notin {"free", "shut"} /\ InOrder(c)
         /\ c \notin Queued /\ bank.stage \in Stages
         /\ up[c] \in Seq(Packet) /\ down[c] \in Seq(Packet)
         /\ \A a \in Atms : Live(a) /\ atm[a].sd = c => Turn(a, c) /\ tcp[c] = "open"
<1> USE DEF Sync
<1>1. PICK c \in Conns : c = bank.cd /\ c # None
  BY SessionAssumption DEF IInv, Placed
<1>2. tcp[c] \notin {"free", "shut"} /\ InOrder(c) /\ c \notin Queued
  BY <1>1 DEF LinedUp, OnePacket
<1>3. bank.stage \in Stages /\ up[c] \in Seq(Packet) /\ down[c] \in Seq(Packet)
  BY DEF IInv, TypeOK, BankStates
<1>4. ASSUME NEW a \in Atms, Live(a), atm[a].sd = c
      PROVE  Turn(a, c) /\ tcp[c] = "open"
  BY <1>2, <1>4 DEF Turns, Owned
<1> QED
  BY <1>1, <1>2, <1>3, <1>4

\* The bank goes on with a connection: it keeps waiting, it keeps the packet it
\* has, or it gives up.
LEMMA BankGoesOnWire ==
  ASSUME Sync, NEW c \in Conns, bank.cd = c, bank'.cd = c, bank'.stage = bank.stage,
         bank.pc \notin {"accept", "exit"}, bank'.pc \notin {"accept", "exit"},
         \/ Awaits(c) /\ Awaits(c)'
         \/ Holds(c) /\ Holds(c)' /\ bank'.buf = bank.buf
         \/ Closes(c)',
         UNCHANGED <<build, atm, backlog, tcp, up, down, order, fate>>
  PROVE  Wire'
<1> USE DEF Sync
<1>1. /\ c # None /\ InOrder(c) /\ c \notin Queued
      /\ \A a \in Atms : Live(a) /\ atm[a].sd = c => Turn(a, c)
  BY ServedConnection
<1>2. Owned'
  BY DEF Owned, Live
<1>3. LinedUp'
  BY DEF LinedUp, Queued
<1>4. \A d \in Conns \ {c} : Untouched(d)
  BY DEF Untouched, Queued
<1>5. /\ Closes(c)' \/ \A s : Expects(c, s)' <=> Expects(c, s)
      /\ Holds(c)' => Holds(c) /\ bank'.buf = bank.buf
      /\ Awaits(c)' => Awaits(c)
      /\ Closes(c) => Closes(c)'
      /\ ~Closes(c)' => (Holds(c) <=> Holds(c)')
  BY DEF Expects, Awaits, Holds, Closes, Queued
<1>6. \A p, s : Letter(p, c, s)' <=> Letter(p, c, s)
  BY DEF Letter, AtmHello
<1>7. InOrder(c)'
  <2>1. \A s : Expects(c, s)' => Expects(c, s)
    BY <1>5 DEF Expects, Queued
  <2> QED
    BY <1>1, <1>5, <1>6, <2>1 DEF InOrder
<1>8. ASSUME NEW a \in Atms, (Live(a) /\ atm[a].sd = c)'
      PROVE  Turn(a, c)'
  <2>1. Turn(a, c) /\ AtmPacket(a)' = AtmPacket(a) /\ AtmAwaits(a)' = AtmAwaits(a)
    BY <1>1, <1>8 DEF Live, AtmPacket, AtmAwaits, AtmHello
  <2>2. CASE Closes(c)'
    BY <2>1, <2>2 DEF Turn
  <2>3. CASE ~Closes(c)'
    BY <1>5, <2>1, <2>3 DEF Turn
  <2> QED
    BY <2>2, <2>3
<1> QED
  BY <1>2, <1>3, <1>4, <1>7, <1>8, OneConnection DEF Wire

\* The bank in try_recv(), without a packet.
LEMMA TryRecvWire ==
  ASSUME Sync, Arm \/ EnterRecv \/ BankReadFails \/ AlarmFires \/ Disarm
  PROVE  Wire'
<1> USE DEF Sync
<1>1. /\ bank.pc \in {"arm", "enter", "recv", "disarm"} /\ bank \in BankStates
      /\ UNCHANGED <<build, atm, backlog, tcp, up, down, order, fate>>
  BY DEF Arm, EnterRecv, BankReadFails, AlarmFires, Disarm, wire, book, IInv, TypeOK
<1>2. PICK c \in Conns : c = bank.cd
  BY <1>1, ServedConnection
<1>3. /\ bank'.cd = c /\ bank'.stage = bank.stage
      /\ bank'.pc \notin {"accept", "exit"}
      /\ \/ Awaits(c) /\ Awaits(c)'
         \/ Holds(c) /\ Holds(c)' /\ bank'.buf = bank.buf
         \/ Closes(c)'
  <2> USE <1>1, <1>2 DEF BankStates, Awaits, Holds, Closes
  <2>1. CASE Arm
    BY <2>1 DEF Arm
  <2>2. CASE EnterRecv
    BY <2>2 DEF EnterRecv
  <2>3. CASE BankReadFails
    BY <2>3 DEF BankReadFails
  <2>4. CASE AlarmFires
    BY <2>4 DEF AlarmFires
  <2>5. CASE Disarm
    BY <2>5 DEF Disarm
  <2> QED
    BY <2>1, <2>2, <2>3, <2>4, <2>5
<1> QED
  BY <1>1, <1>2, <1>3, BankGoesOnWire

\* The packet goes from the wire to the buffer.
LEMMA BankReadsWire ==
  ASSUME Sync, BankReads
  PROVE  Wire'
<1> USE DEF Sync
<1>1. PICK c \in Conns :
      /\ c = bank.cd /\ tcp[c] \notin {"free", "shut"} /\ InOrder(c) /\ c \notin Queued
      /\ up[c] \in Seq(Packet) /\ down[c] \in Seq(Packet) /\ bank.stage \in Stages
      /\ \A a \in Atms : Live(a) /\ atm[a].sd = c => Turn(a, c) /\ tcp[c] = "open"
  BY ServedConnection DEF BankReads
<1>2. /\ bank.pc = "recv" /\ up[c] # <<>> /\ up' = [up EXCEPT ![c] = Tail(@)]
      /\ bank' = [bank EXCEPT !.pc = "disarm", !.buf = Head(up[c])]
      /\ UNCHANGED <<build, atm, backlog, tcp, down, order, fate>>
  BY <1>1 DEF BankReads, book
<1>3. down[c] = <<>> /\ Head(up[c]) \in Packet /\ Tail(up[c]) = <<>>
  <2>1. Len(up[c]) + Len(down[c]) <= 1
    BY <1>1 DEF InOrder
  <2>2. down[c] = <<>> /\ Len(up[c]) = 1
    BY <1>1, <1>2, <2>1, AtMostOne
  <2> QED
    BY <1>1, <1>2, <2>2, OnlyPacket
<1>4. /\ bank'.cd = c /\ bank'.stage = bank.stage /\ bank'.buf = Head(up[c])
      /\ bank'.pc = "disarm" /\ Holds(c)' /\ Awaits(c) /\ ~Awaits(c)' /\ ~Closes(c)'
  BY <1>1, <1>2, <1>3, NoneAssumption DEF IInv, TypeOK, BankStates, Holds, Awaits, Closes
<1>5. up'[c] = <<>> /\ \A d \in Conns : tcp[d] = "free" => up'[d] = up[d]
  BY <1>1, <1>2, <1>3 DEF IInv, TypeOK
<1>6. Owned'
  BY <1>2, <1>5 DEF Owned, Live
<1>7. LinedUp'
  BY <1>1, <1>2, <1>4 DEF LinedUp, Queued
<1>8. \A d \in Conns \ {c} : Untouched(d)
  BY <1>1, <1>2, <1>4 DEF Untouched, Queued, IInv, TypeOK
<1>9. InOrder(c)'
  <2>1. Letter(Head(up[c]), c, bank.stage) /\ tcp[c] \notin {"rst_due", "rst"}
    BY <1>1, <1>2, <1>4 DEF InOrder, Expects
  <2>2. Letter(bank.buf, c, bank.stage)'
    BY <1>2, <1>4, <2>1 DEF Letter, AtmHello
  <2>3. Len(up'[c]) + Len(down'[c]) <= 1
    BY <1>2, <1>3, <1>5, EmptySeq, AtMostOne
  <2> QED
    BY <1>2, <1>3, <1>5, <2>1, <2>2, <2>3 DEF InOrder
<1>10. ASSUME NEW a \in Atms, (Live(a) /\ atm[a].sd = c)'
       PROVE  Turn(a, c)'
  <2>1. Turn(a, c) /\ tcp[c] = "open" /\ ~Closes(c)
    BY <1>1, <1>2, <1>10 DEF Live, Closes
  <2>2. atm[a].pc = "recv" /\ Head(up[c]) = AtmPacket(a) /\ bank.stage = atm[a].stage
    BY <1>1, <1>2, <1>10, <2>1 DEF Turn, Live, Expects
  <2>3. AtmPacket(a)' = AtmPacket(a)
    BY <1>2 DEF AtmPacket, AtmHello
  <2> QED
    BY <1>2, <1>3, <1>4, <1>5, <2>2, <2>3 DEF Turn
<1> QED
  BY <1>2, <1>6, <1>7, <1>8, <1>9, <1>10, OneConnection DEF Wire

\* The next connection of the queue becomes the one that is served.
LEMMA AcceptWire ==
  ASSUME Sync, Accept
  PROVE  Wire'
<1> USE DEF Sync
<1> DEFINE c == Head(backlog)
<1>1. /\ bank.pc = "accept" /\ bank.cd = None /\ backlog # <<>> /\ backlog' = Tail(backlog)
      /\ bank' = [bank EXCEPT !.pc = "arm", !.stage = "hello", !.key = None, !.cd = c]
      /\ UNCHANGED <<build, atm, tcp, up, down, order, fate>>
  BY DEF Accept, LinedUp, wire, book
<1>2. PICK d \in Conns : d = c /\ d # None
  BY <1>1, SessionAssumption DEF IInv, TypeOK
<1>3. /\ d \in Queued /\ Queued' = Queued \ {d}
      /\ \A i, j \in DOMAIN backlog' : backlog'[i] = backlog'[j] => i = j
  BY <1>1, <1>2, QueueShrinks
<1> HIDE DEF c
<1>4. bank'.pc = "arm" /\ bank'.stage = "hello" /\ bank'.cd = d
  BY <1>1, <1>2 DEF IInv, TypeOK, BankStates
<1>5. Owned'
  BY <1>1 DEF Owned, Live
<1>6. LinedUp'
  BY <1>1, <1>3, <1>4 DEF LinedUp
<1>7. \A e \in Conns \ {d} : Untouched(e)
  <2>1. \A e \in Conns \ {d} : bank.cd # e /\ bank'.cd # e /\ ((e \in Queued)' <=> e \in Queued)
    BY <1>1, <1>3, <1>4, SessionAssumption
  <2> QED
    BY <1>1, <2>1 DEF Untouched
<1>8. /\ ~Holds(d) /\ ~Awaits(d) /\ ~Closes(d) /\ ~Holds(d)' /\ Awaits(d)'
      /\ Expects(d, "hello") /\ Expects(d, "hello")'
      /\ \A s : Expects(d, s) => s = "hello"
      /\ \A s : Expects(d, s)' => s = "hello"
      /\ InOrder(d) /\ \A a \in Atms : Live(a) /\ atm[a].sd = d => Turn(a, d)
  BY <1>1, <1>2, <1>3, <1>4 DEF Holds, Awaits, Closes, Expects, OnePacket, Turns
<1>9. InOrder(d)'
  <2>1. \A p, s : Letter(p, d, s)' <=> Letter(p, d, s)
    BY <1>1 DEF Letter, AtmHello
  <2> QED
    BY <1>1, <1>8, <2>1 DEF InOrder
<1>10. ASSUME NEW a \in Atms, (Live(a) /\ atm[a].sd = d)'
       PROVE  Turn(a, d)'
  <2>1. Turn(a, d)
    BY <1>1, <1>8, <1>10 DEF Live
  <2>2. AtmPacket(a)' = AtmPacket(a) /\ AtmAwaits(a)' = AtmAwaits(a)
    BY <1>1 DEF AtmPacket, AtmAwaits, AtmHello
  <2>3. \A s : Expects(d, s) => Expects(d, s)'
    BY <1>8
  <2> QED
    BY <1>1, <1>8, <2>1, <2>2, <2>3 DEF Turn
<1> QED
  BY <1>1, <1>5, <1>6, <1>7, <1>9, <1>10, OneConnection DEF Wire

\* The bank dies, in whatever it was doing.
LEMMA BankExitsWire ==
  ASSUME Sync, BankExits, UNCHANGED <<build, atm, backlog, up, down, order, fate>>
  PROVE  Wire'
<1> USE DEF Sync
<1>1. bank'.pc = "exit" /\ \A d \in Conns : tcp'[d] = IF tcp[d] = "free" THEN "free" ELSE "shut"
  BY DEF BankExits, IInv, TypeOK, BankStates
<1>2. bank'.cd = bank.cd /\ Queued' = Queued /\ Queued \subseteq Conns
  BY DEF BankExits, IInv, TypeOK, BankStates, Queued
<1>3. Owned'
  <2>1. \A a \in Atms : atm[a].sd # None => tcp'[atm[a].sd] # "free"
    BY <1>1 DEF Owned, IInv, TypeOK, AtmStates
  <2> QED
    BY <1>1, <2>1 DEF Owned, Live
<1>4. LinedUp'
  <2>1. \A d \in Queued : tcp'[d] = "shut" /\ bank.cd # d /\ down[d] = <<>>
    BY <1>1, <1>2 DEF LinedUp
  <2> QED
    BY <1>1, <1>2, <2>1 DEF LinedUp
<1>5. ASSUME NEW d \in Conns
      PROVE  InOrder(d)'
  <2>1. InOrder(d) /\ ~Holds(d)' /\ ~Awaits(d)'
    BY <1>1 DEF OnePacket, Holds, Awaits
  <2>2. \A s \in Stages : Expects(d, s)' => Expects(d, s)
    BY <1>2, <2>1 DEF Expects
  <2>3. \A p, s : Letter(p, d, s)' <=> Letter(p, d, s)
    BY DEF Letter, AtmHello
  <2> QED
    BY <1>1, <2>1, <2>2, <2>3 DEF InOrder
<1>6. ASSUME NEW a \in Atms, NEW d \in Conns, (Live(a) /\ atm[a].sd = d)'
      PROVE  Turn(a, d)'
  <2>1. Turn(a, d) /\ tcp'[d] # "open"
    BY <1>1, <1>6 DEF Turns, Live
  <2>2. AtmPacket(a)' = AtmPacket(a) /\ AtmAwaits(a)' = AtmAwaits(a)
    BY DEF AtmPacket, AtmAwaits, AtmHello
  <2> QED
    BY <2>1, <2>2 DEF Turn
<1> QED
  BY <1>3, <1>4, <1>5, <1>6 DEF Wire, OnePacket, Turns

\* The bank is about to answer: nothing is on the wire, and a running ATM waits
\* for the answer to what the bank has.
LEMMA HeldConnection ==
  ASSUME Sync, NEW c \in Conns, Holds(c)
  PROVE  /\ up[c] = <<>> /\ down[c] = <<>> /\ Letter(bank.buf, c, bank.stage)
         /\ c = bank.cd /\ bank.stage \in Stages
         /\ c \notin Queued /\ tcp[c] \in {"open", "fin"}
         /\ \A a \in Atms : Live(a) /\ atm[a].sd = c =>
              /\ tcp[c] = "open" /\ atm[a].pc = "recv"
              /\ atm[a].stage = bank.stage /\ bank.buf = AtmPacket(a)
<1>1. c = bank.cd /\ bank.pc \notin {"accept", "exit"} /\ ~Closes(c) /\ ~Awaits(c)
  BY DEF Holds, Closes, Awaits
<1>2. /\ tcp[c] \notin {"free", "shut"} /\ InOrder(c)
      /\ c \notin Queued /\ bank.stage \in Stages
      /\ \A a \in Atms : Live(a) /\ atm[a].sd = c => Turn(a, c) /\ tcp[c] = "open"
  BY <1>1, ServedConnection
<1>3. tcp[c] \in {"open", "fin"}
  BY <1>2 DEF InOrder, Sync, IInv, TypeOK, TcpStates
<1>4. up[c] = <<>> /\ down[c] = <<>> /\ Letter(bank.buf, c, bank.stage)
  BY <1>2 DEF InOrder
<1>5. ASSUME NEW a \in Atms, Live(a), atm[a].sd = c
      PROVE  atm[a].pc = "recv" /\ atm[a].stage = bank.stage /\ bank.buf = AtmPacket(a)
  <2>1. Turn(a, c) /\ tcp[c] = "open" /\ ~Expects(c, atm[a].stage)
    BY <1>1, <1>2, <1>5 DEF Expects
  <2>2. atm[a].pc = "recv"
    BY <1>1, <1>5, <2>1 DEF Turn, Live
  <2> QED
    BY <1>1, <1>4, <2>1, <2>2 DEF Turn
<1> QED
  BY <1>1, <1>2, <1>3, <1>4, <1>5

\* The answer to stage s, and where the bank goes after it.
Answers(p, pc, stage, s) ==
  /\ p.kind = CASE s = "hello" -> AtmHello
                [] s = "keyex" -> "server_half"
                [] s = "bank" -> "msg"
  /\ pc = "shutdown" \/ (pc = "arm" /\ stage = After[s])

\* The bank answers what it has: the turn is the ATM's, if it still listens.
LEMMA BankSendsWire ==
  ASSUME Sync, bank.pc = "handle", NEW p \in Packet, NEW pc, NEW stage, NEW k,
         BankSends(p, pc, stage, k), Answers(p, pc, stage, bank.stage),
         UNCHANGED <<build, atm, backlog, up, order, fate>>
  PROVE  Wire'
<1> USE DEF Sync
<1>1. PICK c \in Conns : c = bank.cd /\ Holds(c)
  BY ServedConnection DEF Holds
<1>2. /\ up[c] = <<>> /\ down[c] = <<>> /\ bank.stage \in Stages
      /\ c \notin Queued /\ tcp[c] \in {"open", "fin"}
      /\ \A a \in Atms : Live(a) /\ atm[a].sd = c =>
           tcp[c] = "open" /\ atm[a].pc = "recv" /\ atm[a].stage = bank.stage
  BY <1>1, HeldConnection
<1>3. CASE bank' = [bank EXCEPT !.pc = "shutdown"] /\ UNCHANGED <<tcp, down>>
  <2>1. bank'.cd = c /\ bank'.stage = bank.stage /\ bank'.pc = "shutdown" /\ Closes(c)'
    BY <1>1, <1>3 DEF Closes, IInv, TypeOK, BankStates
  <2> QED
    BY <1>1, <1>3, <2>1, BankGoesOnWire
<1>4. CASE /\ down' = [down EXCEPT ![c] = IF tcp[c] = "open" THEN Append(@, p) ELSE @]
           /\ tcp' = [tcp EXCEPT ![c] = IF @ = "fin" THEN "rst_due" ELSE @]
           /\ bank' = [bank EXCEPT !.pc = pc, !.stage = stage, !.key = k]
  <2>1. /\ bank'.cd = c /\ bank'.pc = pc /\ bank'.stage = stage /\ pc \in {"arm", "shutdown"}
        /\ ~Holds(c)' /\ ~Closes(c)
        /\ Closes(c)' \/ Awaits(c)'
    BY <1>1, <1>4 DEF Holds, Closes, Awaits, IInv, TypeOK, BankStates, Answers
  <2>2. /\ \A d \in Conns \ {c} : tcp'[d] = tcp[d] /\ down'[d] = down[d]
        /\ tcp'[c] = IF tcp[c] = "fin" THEN "rst_due" ELSE tcp[c]
        /\ down'[c] = IF tcp[c] = "open" THEN Append(<<>>, p) ELSE <<>>
    BY <1>2, <1>4 DEF IInv, TypeOK
  <2>3. tcp[c] = "open" => down'[c] # <<>> /\ Len(down'[c]) = 1 /\ Head(down'[c]) = p
    BY <2>2, FirstPacket
  <2>4. Owned'
    <3>1. \A d \in Conns : tcp'[d] = "free" => d # c /\ tcp[d] = "free" /\ down'[d] = down[d]
      BY <1>2, <2>2
    <3>2. \A d \in Conns : tcp[d] = "free" => tcp'[d] = "free"
      BY <1>2, <2>2
    <3>3. \A d \in Conns : fate[d] = "waiting" => tcp'[d] = tcp[d]
      BY <1>2, <2>2 DEF Owned
    <3>4. \A a \in Atms : atm[a].sd # None => tcp'[atm[a].sd] # "free"
      BY <3>1 DEF Owned, IInv, TypeOK, AtmStates
    <3> QED
      BY <3>1, <3>2, <3>3, <3>4 DEF Owned, Live
  <2>5. LinedUp'
    <3>1. Queued' = Queued /\ Queued \subseteq Conns
      BY DEF Queued, IInv, TypeOK
    <3>2. tcp'[c] \notin {"free", "shut"} /\ bank'.pc \notin {"accept", "exit"}
      BY <1>2, <2>1, <2>2
    <3>3. \A d \in Queued : tcp'[d] = tcp[d] /\ down'[d] = down[d] /\ d # c
      BY <1>2, <2>2, <3>1
    <3> QED
      BY <1>1, <2>1, <3>1, <3>2, <3>3 DEF LinedUp
  <2>6. \A d \in Conns \ {c} : Untouched(d)
    BY <1>1, <2>1, <2>2 DEF Untouched, Queued
  <2>7. InOrder(c)'
    <3>1. down'[c] \in Seq(Packet) /\ up'[c] \in Seq(Packet)
      BY <1>2, <2>2, EmptySeq
    <3>2. Len(up'[c]) + Len(down'[c]) <= 1
      BY <1>2, <2>2, <2>3, <3>1, AtMostOne
    <3> QED
      BY <1>2, <2>1, <3>2 DEF InOrder
  <2>8. ASSUME NEW a \in Atms, (Live(a) /\ atm[a].sd = c)'
        PROVE  Turn(a, c)'
    <3>1. tcp[c] = "open" /\ atm[a].pc = "recv" /\ atm[a].stage = bank.stage
      BY <1>2, <2>8 DEF Live
    <3>2. AtmAwaits(a)' = p.kind
      BY <1>2, <3>1 DEF AtmAwaits, AtmHello, Answers, Stages
    <3>3. Closes(c)' \/ Expects(c, After[atm[a].stage])'
      BY <2>1, <3>1 DEF Answers, Expects, Closes
    <3> QED
      BY <1>2, <2>3, <3>1, <3>2, <3>3 DEF Turn
  <2> QED
    BY <2>4, <2>5, <2>6, <2>7, <2>8, OneConnection DEF Wire
<1> QED
  BY <1>1, <1>2, <1>3, <1>4 DEF BankSends

\* hello() answers, or refuses.
LEMMA HelloWire ==
  ASSUME Sync, Hello
  PROVE  Wire'
<1>1. /\ UNCHANGED <<build, atm, backlog, up, order, fate>>
      /\ bank.pc = "handle" /\ bank.stage = "hello" /\ bank \in BankStates
  BY DEF Hello, book, Sync, IInv, TypeOK
<1>2. PICK c \in Conns : c = bank.cd /\ Holds(c) /\ Letter(bank.buf, c, "hello")
  BY <1>1, ServedConnection, HeldConnection DEF Holds
<1>3. CASE BankSends(Plain(BankHello, None), "arm", "keyex", None) /\ bank.buf.kind = BankHello
  <2>1. Plain(BankHello, None) \in Packet
    BY DEF Plain, BankHello, Packet, Handshake, Length, CipherKeys
  <2>2. Answers(Plain(BankHello, None), "arm", "keyex", bank.stage)
    BY <1>1, <1>2, <1>3 DEF Answers, Letter, Plain, After
  <2> QED
    BY <1>1, <1>3, <2>1, <2>2, BankSendsWire
<1>4. CASE bank' = [bank EXCEPT !.pc = "shutdown"] /\ UNCHANGED <<tcp, down>>
  <2>1. bank'.cd = c /\ bank'.stage = bank.stage /\ bank'.pc = "shutdown" /\ Closes(c)'
    BY <1>1, <1>2, <1>4 DEF Closes, BankStates
  <2> QED
    BY <1>1, <1>2, <1>4, <2>1, BankGoesOnWire
<1> QED
  BY <1>3, <1>4 DEF Hello

\* keyex() answers, whether or not its keys are good.
LEMMA KeyexWire ==
  ASSUME Sync, Keyex
  PROVE  Wire'
<1>1. /\ UNCHANGED <<build, atm, backlog, up, order, fate>>
      /\ bank.pc = "handle" /\ bank.stage = "keyex"
  BY DEF Keyex, book
<1>2. PICK o \in KeyOutcomes :
        \/ BankSends(Plain("server_half", o[2]), "shutdown", "keyex", None)
        \/ BankSends(Plain("server_half", o[2]), "arm", "bank", o[1])
  BY DEF Keyex
<1>3. Plain("server_half", o[2]) \in Packet
  <2>1. o[2] \in Keys \cup {None}
    BY SessionAssumption
  <2> QED
    BY <2>1 DEF Plain, Packet, Handshake, Length, CipherKeys
<1>4. /\ Answers(Plain("server_half", o[2]), "shutdown", "keyex", bank.stage)
      /\ Answers(Plain("server_half", o[2]), "arm", "bank", bank.stage)
  BY <1>1 DEF Answers, Plain, After
<1> QED
  BY <1>1, <1>2, <1>3, <1>4, BankSendsWire

\* bank() answers.
LEMMA ServeWire ==
  ASSUME Sync, Serve
  PROVE  Wire'
<1>1. /\ UNCHANGED <<build, atm, backlog, up, order, fate>>
      /\ bank.pc = "handle" /\ bank.stage = "bank" /\ bank.key \in Keys \cup {None}
  BY DEF Serve, Sync, IInv, TypeOK, BankStates
<1>2. PICK r \in Msg :
        BankSends(Sealed(CipherKey(build.bank, bank.key), r), "shutdown", "bank", bank.key)
  BY DEF Serve
<1>3. Sealed(CipherKey(build.bank, bank.key), r) \in Packet
  BY <1>1 DEF Sealed, CipherKey, Packet, CipherKeys
<1>4. Answers(Sealed(CipherKey(build.bank, bank.key), r), "shutdown", "bank", bank.stage)
  BY <1>1 DEF Answers, Sealed
<1> QED
  BY <1>1, <1>2, <1>3, <1>4, BankSendsWire

\* The served connection is closed, or all are.
LEMMA ShutdownWire ==
  ASSUME Sync, Shutdown
  PROVE  Wire'
<1> USE DEF Sync
<1>1. /\ UNCHANGED <<build, atm, backlog, up, down, order, fate>>
      /\ bank.pc = "shutdown" /\ bank \in BankStates
  BY DEF Shutdown, book, IInv, TypeOK
<1>2. PICK c \in Conns :
      /\ c = bank.cd /\ c # None /\ tcp[c] \notin {"free", "shut"} /\ InOrder(c) /\ c \notin Queued
      /\ \A a \in Atms : Live(a) /\ atm[a].sd = c => Turn(a, c)
  BY <1>1, ServedConnection
<1>3. CASE BankExits
  BY <1>1, <1>3, BankExitsWire
<1>4. CASE /\ tcp' = [tcp EXCEPT ![c] = "shut"]
           /\ bank' = [bank EXCEPT !.pc = "accept", !.cd = None, !.buf = None]
  <2>1. /\ bank'.pc = "accept" /\ bank'.cd = None
        /\ \A d \in Conns : tcp'[d] = IF d = c THEN "shut" ELSE tcp[d]
    BY <1>1, <1>4 DEF IInv, TypeOK, BankStates
  <2>2. Owned'
    <3>1. \A d \in Conns : tcp'[d] = "free" <=> tcp[d] = "free"
      BY <1>2, <2>1
    <3>2. \A a \in Atms : atm[a].sd # None => tcp'[atm[a].sd] # "free"
      BY <3>1 DEF Owned, IInv, TypeOK, AtmStates
    <3> QED
      BY <1>1, <2>1, <3>1, <3>2 DEF Owned, Live
  <2>3. LinedUp'
    <3>1. Queued' = Queued /\ Queued \subseteq Conns /\ None \notin Queued
      BY <1>1, SessionAssumption DEF Queued, IInv, TypeOK
    <3> QED
      BY <1>1, <1>2, <2>1, <3>1 DEF LinedUp
  <2>4. \A d \in Conns \ {c} : Untouched(d)
    BY <1>1, <1>2, <2>1, SessionAssumption DEF Untouched, Queued
  <2>5. InOrder(c)'
    <3>1. ~Holds(c)' /\ \A s \in Stages : ~Expects(c, s)'
      BY <1>1, <1>2, <2>1 DEF Holds, Expects, Awaits, Queued
    <3> QED
      BY <1>1, <1>2, <2>1, <3>1 DEF InOrder
  <2>6. ASSUME NEW a \in Atms, (Live(a) /\ atm[a].sd = c)'
        PROVE  Turn(a, c)'
    <3>1. Turn(a, c) /\ AtmPacket(a)' = AtmPacket(a) /\ AtmAwaits(a)' = AtmAwaits(a)
      BY <1>1, <1>2, <2>6 DEF Live, AtmPacket, AtmAwaits, AtmHello
    <3> QED
      BY <1>1, <2>1, <3>1 DEF Turn
  <2> QED
    BY <1>1, <2>2, <2>3, <2>4, <2>5, <2>6, OneConnection DEF Wire
<1> QED
  BY <1>2, <1>3, <1>4 DEF Shutdown
-----------------------------------------------------------------------------
\* At the start nothing is connected.
LEMMA InitSync == Init => Sync
<1> SUFFICES ASSUME Init PROVE Sync
  OBVIOUS
<1>1. Queued = {} /\ DOMAIN backlog = {} /\ bank.pc = "accept" /\ bank.cd = None
  BY DEF Init, Queued, IdleBank
<1>2. Owned
  BY DEF Init, Owned, Live, IdleAtm, AtmState
<1>3. LinedUp
  BY <1>1 DEF LinedUp
<1>4. OnePacket
  <2>1. \A c \in Conns : up[c] = <<>> /\ down[c] = <<>> /\ tcp[c] = "free"
    BY DEF Init
  <2>2. \A c \in Conns : ~Holds(c)
    BY <1>1 DEF Holds
  <2> QED
    BY <2>1, <2>2, EmptySeq, AtMostOne DEF OnePacket, InOrder
<1>5. Turns
  BY DEF Init, Turns, Live, IdleAtm, AtmState
<1> QED
  BY <1>2, <1>3, <1>4, <1>5, InitIInv DEF Sync

\* The induction step: one case per action.
LEMMA NextSync == Sync /\ [Next]_vars => Sync'
<1> SUFFICES ASSUME Sync, [Next]_vars PROVE Wire'
  BY NextIInv DEF Sync, Wire
<1>1. ASSUME NEW a \in Atms, NEW c \in Conns, NEW m \in Requests, Connect(a, c, m)
      PROVE  Wire'
  BY <1>1, ConnectWire
<1>2. ASSUME NEW a \in Atms, ConnectFails(a) \/ Quit(a)
      PROVE  Wire'
  BY <1>2, AtmLeavesWire
<1>3. ASSUME NEW a \in Atms, AtmStep(a) \/ AtmKilled(a)
      PROVE  Wire'
  BY <1>3, AtmSendWire, AtmGivesUpWire, AtmRecvHelloWire, AtmRecvKeyexWire, AtmRecvReplyWire
  DEF AtmStep
<1>4. ASSUME NEW c \in Conns, RstArrives(c)
      PROVE  Wire'
  BY <1>4, RstArrivesWire
<1>5. CASE BankStep
  <2>1. ASSUME AcceptFails \/ BankAborts PROVE Wire'
    BY <2>1, BankExitsWire DEF AcceptFails, BankAborts, book
  <2> QED
    BY <1>5, <2>1, AcceptWire, TryRecvWire, BankReadsWire, HelloWire, KeyexWire, ServeWire,
       ShutdownWire DEF BankStep
<1>6. CASE AlarmFires
  BY <1>6, TryRecvWire
<1>7. CASE UNCHANGED vars
  <2>1. \A d \in Conns : Untouched(d)
    BY <1>7 DEF Untouched, vars, wire, book, Queued
  <2>2. OnePacket'
    BY <2>1, UntouchedInOrder DEF Sync, OnePacket
  <2>3. Turns'
    BY <1>7, <2>1, UntouchedTurn DEF vars, Sync, Turns, Live
  <2>4. Owned' /\ LinedUp'
    BY <1>7 DEF vars, wire, book, Sync, Owned, LinedUp, Live, Queued
  <2> QED
    BY <2>2, <2>3, <2>4 DEF Wire
<1> QED
  BY <1>1, <1>2, <1>3, <1>4, <1>5, <1>6, <1>7 DEF Next, Terminating

\* At the start nothing is posted.
LEMMA InitUnheard == Init => Unheard
BY DEF Init, IdleBank, Unheard, Holds

\* HELLO is never read, so no later stage is reached.
LEMMA NextUnheard ==
  ASSUME Sync, Unheard, [Next]_vars
  PROVE  Unheard'
<1> SUFFICES ASSUME AtmHello = "hello_plain", BankHello = "hello_rsa", build' = build
             PROVE  (bank.stage = "hello" /\ ~Holds(bank.cd) /\ \A c \in Conns : entry[c] = None)'
  <2>1. build' = build
    BY DEF Next, vars, Connect, ConnectFails, Quit, AtmStep, AtmSend, AtmSendFails,
           AtmRecvHello, AtmRecvKeyex, AtmRecvReply, AtmRecvFails, AtmKilled, RstArrives,
           BankStep, Accept, AcceptFails, Arm, EnterRecv, BankReads, BankReadFails, Disarm,
           Hello, Keyex, BankAborts, Serve, Shutdown, AlarmFires, Terminating
  <2> QED
    BY <2>1 DEF Unheard, AtmHello, BankHello
<1>1. /\ bank.stage = "hello" /\ ~Holds(bank.cd) /\ \A c \in Conns : entry[c] = None
      /\ bank.pc # "handle" /\ bank \in BankStates
  BY DEF Unheard, Holds, Sync, IInv, TypeOK
<1>2. CASE UNCHANGED <<bank, entry>>
  BY <1>1, <1>2 DEF Holds
<1>3. CASE Accept \/ AcceptFails \/ Shutdown
  BY <1>1, <1>3 DEF Accept, AcceptFails, Shutdown, BankExits, Holds, book, BankStates
<1>4. CASE Arm \/ EnterRecv \/ BankReadFails \/ Disarm \/ AlarmFires
  BY <1>1, <1>4 DEF Arm, EnterRecv, BankReadFails, Disarm, AlarmFires, Holds, book, BankStates
<1>5. CASE BankReads
  <2>1. PICK c \in Conns : c = bank.cd /\ InOrder(c)
    BY <1>5, ServedConnection DEF BankReads
  <2>2. Expects(c, "hello") /\ up[c] # <<>>
    BY <1>1, <1>5, <2>1 DEF BankReads, Expects, Awaits
  <2>3. Head(up[c]).kind = "hello_plain"
    BY <2>1, <2>2 DEF InOrder, Letter, Stages
  <2>4. Length[Head(up[c]).kind] >= Length[BankAwaits] /\ BankAwaits = "hello_rsa"
    BY <1>1, <1>5, <2>1 DEF BankReads, BankAwaits
  <2> QED
    BY <2>3, <2>4 DEF Length
<1>6. ASSUME NEW a \in Atms, \/ \E c \in Conns, m \in Requests : Connect(a, c, m)
                            \/ ConnectFails(a) \/ Quit(a) \/ AtmStep(a) \/ AtmKilled(a)
      PROVE  UNCHANGED <<bank, entry>>
  BY <1>6 DEF Connect, ConnectFails, Quit, AtmStep, AtmSend, AtmSendFails, AtmRecvHello,
              AtmRecvKeyex, AtmRecvReply, AtmRecvFails, AtmKilled, AtmExits, book
<1>7. ASSUME NEW c \in Conns, RstArrives(c)
      PROVE  UNCHANGED <<bank, entry>>
  BY <1>7 DEF RstArrives, book
<1>8. CASE Hello \/ Keyex \/ BankAborts \/ Serve
  BY <1>1, <1>8 DEF Hello, Keyex, BankAborts, Serve
<1> QED
  BY <1>2, <1>3, <1>4, <1>5, <1>6, <1>7, <1>8 DEF Next, BankStep, Terminating, vars, book

(***************************************************************************)
(* The invariant that the theorems of this module follow from.             *)
(***************************************************************************)
LEMMA SyncKept == Spec => [](Sync /\ Unheard)
BY InitSync, NextSync, InitUnheard, NextUnheard, PTL DEF Spec

(***************************************************************************)
(* The ATM's HELLO is never longer than the one its bank waits for.  Under *)
(* NRSA the bank takes the first ten bytes of an encrypted HELLO for its   *)
(* own, and refuses them; no pair of make targets is meant to meet so.     *)
(***************************************************************************)
HellosFit == \A b \in Builds : b.atm = "rsa" => b.bank # "nrsa"

(***************************************************************************)
(* For any number of ATMs and connections, any faults and any such builds, *)
(* every read of either side gets what was written for its stage.          *)
(***************************************************************************)
THEOREM SessionsStayInStep ==
  ASSUME HellosFit
  PROVE  Spec => []InStep
<1>1. ASSUME Sync, Unheard PROVE InStep
  <2>1. \A c \in Conns : Len(up[c]) + Len(down[c]) <= 1
    BY <1>1 DEF Sync, OnePacket, InOrder
  <2>2. ASSUME bank.pc = "handle" PROVE bank.buf.kind = BankAwaits
    <3>1. Holds(bank.cd) /\ Letter(bank.buf, bank.cd, bank.stage) /\ bank.stage \in Stages
      BY <1>1, <2>2, ServedConnection, HeldConnection DEF Holds
    <3>2. CASE bank.stage = "hello"
      <4>1. bank.buf.kind = AtmHello /\ BankAwaits = BankHello
        BY <3>1, <3>2 DEF Letter, BankAwaits
      <4>2. ~(AtmHello = "hello_plain" /\ BankHello = "hello_rsa")
        BY <1>1, <3>1 DEF Unheard
      <4>3. build \in Builds /\ build.atm \in BuildTypes /\ build.bank \in BuildTypes
        BY <1>1, SessionAssumption DEF Sync, IInv, TypeOK
      <4> QED
        BY <4>1, <4>2, <4>3, HellosFit DEF HellosFit, AtmHello, BankHello, BuildTypes
    <3>3. CASE bank.stage # "hello"
      BY <3>1, <3>3 DEF Letter, BankAwaits, Stages
    <3> QED
      BY <3>2, <3>3
  <2>3. ASSUME NEW a \in Atms, atm[a].pc = "recv", NEW i \in DOMAIN down[atm[a].sd]
        PROVE  down[atm[a].sd][i].kind = AtmAwaits(a)
    <3>1. PICK c \in Conns : /\ c = atm[a].sd /\ Turn(a, c) /\ InOrder(c)
                             /\ up[c] \in Seq(Packet) /\ down[c] \in Seq(Packet)
      BY <1>1, <2>3, LiveConnection DEF Live
    <3>2. down[c] = <<>> \/ Len(down[c]) = 1
      BY <3>1, AtMostOne DEF InOrder
    <3>3. i = 1 /\ down[c] # <<>>
      BY <2>3, <3>1, <3>2
    <3> QED
      BY <3>1, <3>3 DEF Turn
  <2> QED
    BY <2>1, <2>2, <2>3 DEF InStep
<1> QED
  BY <1>1, SyncKept, PTL

(***************************************************************************)
(* For any number of ATMs and connections, any builds and any faults, no   *)
(* send of the bank meets a reset that has arrived: SIGPIPE cannot end it. *)
(***************************************************************************)
THEOREM NoSendOnReset == Spec => []NeverSendsOnReset
<1>1. ASSUME Sync PROVE NeverSendsOnReset
  BY <1>1, ServedConnection, HeldConnection DEF NeverSendsOnReset, Holds
<1> QED
  BY <1>1, SyncKept, PTL

(***************************************************************************)
(* For any number of ATMs and connections and any faults, the plain HELLO  *)
(* of a raw or dh ATM never gets an order posted at a raw bank.            *)
(***************************************************************************)
THEOREM RawBankPostsNothing == Spec => []RawHellosNeverMeet
<1>1. ASSUME Sync, Unheard PROVE RawHellosNeverMeet
  <2>1. build.atm \in BuildTypes
    BY <1>1, SessionAssumption DEF Sync, IInv, TypeOK
  <2> QED
    BY <1>1, <2>1 DEF Unheard, RawHellosNeverMeet, AtmHello, BankHello, BuildTypes
<1> QED
  BY <1>1, SyncKept, PTL
=============================================================================
