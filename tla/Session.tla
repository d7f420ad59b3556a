------------------------------ MODULE Session -------------------------------
(***************************************************************************)
(* The bank process and several ATM processes over TCP: bank.cpp from the  *)
(* accept loop of main() down to bank(), client.cpp from make_client() to  *)
(* CLOSE_CLIENT.  The bank serves one connection at a time; every ATM      *)
(* order is a connection of its own with three exchanges, HELLO, the key   *)
(* exchange and one encrypted request with its reply.                      *)
(*                                                                         *)
(* The bank bounds each recv with alarm() and a SIGALRM handler.  try_recv *)
(* is cut where the signal can land: before the recv call, inside it, and  *)
(* between its return and alarm(0).                                        *)
(*                                                                         *)
(* The cipher is symbolic: a packet carries the key it was made with, and  *)
(* a reader with another key, or another kind of build, cannot open it.    *)
(***************************************************************************)
EXTENDS Bank, Sequences, FiniteSetsExt

CONSTANTS Atms,         \* ATM processes
          Conns,        \* TCP connections, each used for one order
          Requests,     \* the orders customers give
          Keys,         \* symmetric keys (MAC key, AES key and IV together)
          KeyOutcomes,  \* what a key exchange can leave <<bank, ATM>> with
          Builds,       \* the builds the two programs may be of
          None,         \* no connection, packet, key, order, entry or receipt
          BACKLOG,      \* bank.cpp:238, the argument of listen()
          MayKill,      \* ATM processes may be killed
          Preempt,      \* the bank may be off the CPU for TIMEOUT seconds
          OsFaults      \* system calls may fail for reasons outside the program

BuildTypes == {"rsa", "nrsa", "raw"}   \* plain, -D NRSA, -D NENCRYPT

ASSUME SessionAssumption ==
  /\ Uids \subseteq 0 .. UCHAR_MAX - 1
  /\ Requests \subseteq [type : {"DEPOSIT", "WITHDRAW", "BALANCE"}, uid : Uids, amt : Uint64]
  /\ KeyOutcomes \subseteq (Keys \cup {None}) \X (Keys \cup {None})
  /\ Builds \subseteq [atm : BuildTypes, bank : BuildTypes]
  /\ BACKLOG \in Nat \ {0}
  /\ {MayKill, Preempt, OsFaults} \subseteq BOOLEAN
  /\ None \notin Keys /\ None \notin Conns /\ None \notin Requests /\ "clear" \notin Keys

VARIABLES build,     \* how the two programs were compiled; never changes
          bank,      \* the bank process
          atm,       \* per ATM, its process
          backlog,   \* connections waiting in listen()'s queue
          tcp,       \* per connection, its state as the bank's kernel has it
          up, down,  \* per connection, unread packets to the bank, to the ATM
          order, entry, receipt, fate   \* per connection, as in Teller

wire == <<tcp, up, down>>
book == <<order, entry, receipt, fate>>
vars == <<safe, reported, build, bank, atm, backlog, wire, book>>

Stages == {"hello", "keyex", "bank"}
BankPcs == {"accept", "arm", "enter", "recv", "disarm", "handle", "shutdown", "exit"}
AtmPcs == {"prompt", "send", "recv", "exit"}

\* open; fin: the ATM's end is closed; rst_due: a reset is on its way to the
\* bank; rst: it has arrived; shut: the bank's end is closed.
TcpStates == {"free", "open", "fin", "rst_due", "rst", "shut"}

Fates == {"idle", "waiting", "told", "failed", "gone"}

\* ssh.hpp:14-34 in bytes.
Length == [hello_rsa |-> 256, hello_plain |-> 10, client_half |-> 768,
           server_half |-> 256, msg |-> 56]

\* "clear" is the key of a NENCRYPT build, whose cipher is memcpy.
CipherKeys == Keys \cup {None, "clear"}

\* A key-exchange packet carries the key that its reader will derive from it.
Handshake == [kind : DOMAIN Length \ {"msg"}, key : CipherKeys, body : {None}]
Packet == Handshake \cup [kind : {"msg"}, key : CipherKeys, body : Msg]

ASSUME NoneAssumption == None \notin Packet /\ None \notin Msg

Plain(kind, key) == [kind |-> kind, key |-> key, body |-> None]
Sealed(key, m) == [kind |-> "msg", key |-> key, body |-> m]

\* The bank takes a plain HELLO under NRSA only, the ATM under NRSA or NENCRYPT.
\* Faulty: the ATM's condition on the bank's side.
BankHelloRaw == IF build.bank \in {"nrsa", "raw"} THEN "hello_plain" ELSE "hello_rsa"

\* Faulty: no build of the ATM encrypts its HELLO.
AtmHelloPlain == "hello_plain"

BankHello == IF build.bank = "nrsa" THEN "hello_plain" ELSE "hello_rsa"
AtmHello == IF build.atm \in {"nrsa", "raw"} THEN "hello_plain" ELSE "hello_rsa"

\* Under NRSA both RSA operations return what they were given (RSA.cpp:88, 100).
PlainBuilds == build.bank = "nrsa" /\ build.atm = "nrsa"

CipherKey(buildType, key) == IF buildType = "raw" THEN "clear" ELSE key

\* Faulty: MACs are not compared.
RecvMsgUnchecked(p, b, k) ==
  IF p.kind = "msg" /\ p.key = CipherKey(b, k) THEN {p.body} ELSE Msg

\* RecvMsg: the messages a reader of build b with key k may make of packet p.
\* One that checks MACs refuses what it cannot open; one that does not takes
\* whatever the bytes look like.
RecvMsg(p, b, k) ==
  IF p.kind = "msg" /\ p.key = CipherKey(b, k) THEN {p.body}
  ELSE IF b = "raw" THEN Msg
  ELSE {Message("INVALID", 0, 0)}
-----------------------------------------------------------------------------
IdleBank == [pc |-> "accept", stage |-> "hello", cd |-> None, buf |-> None,
             key |-> None, gtimeout |-> FALSE, alarm |-> FALSE]

AtmState(pc, stage, sd, key) == [pc |-> pc, stage |-> stage, sd |-> sd, key |-> key]

IdleAtm == AtmState("prompt", "hello", None, None)

Init ==
  /\ BankInit
  /\ build \in Builds
  /\ bank = IdleBank
  /\ atm = [a \in Atms |-> IdleAtm]
  /\ backlog = <<>>
  /\ tcp = [c \in Conns |-> "free"]
  /\ up = [c \in Conns |-> <<>>]
  /\ down = [c \in Conns |-> <<>>]
  /\ order = [c \in Conns |-> None]
  /\ entry = [c \in Conns |-> None]
  /\ receipt = [c \in Conns |-> None]
  /\ fate = [c \in Conns |-> "idle"]
-----------------------------------------------------------------------------
(***************************************************************************)
(* The ATM.                                                                *)
(***************************************************************************)
AtmBecomes(a, pc, stage, sd, key) ==
  atm' = [atm EXCEPT ![a] = AtmState(pc, stage, sd, key)]

AtmGoes(a, pc, stage) == AtmBecomes(a, pc, stage, atm[a].sd, atm[a].key)

\* Faulty: every close is abortive, as under SO_LINGER with no time.
HangupAbortive(c, unread) ==
  tcp' = [tcp EXCEPT ![c] = IF @ = "open" THEN "rst" ELSE @]

\* The last descriptor of the ATM's end is closed, by close() or by the death
\* of the process.  Unread packets turn the FIN into a reset.
Hangup(c, unread) ==
  tcp' = [tcp EXCEPT ![c] = IF @ # "open" THEN @
                            ELSE IF unread = <<>> THEN "fin" ELSE "rst"]

\* The process gives up its order and exits.
AtmExits(a, how, unread) ==
  /\ Hangup(atm[a].sd, unread)
  /\ AtmGoes(a, "exit", atm[a].stage)
  /\ fate' = [fate EXCEPT ![atm[a].sd] = how]
  /\ UNCHANGED <<order, entry, receipt>>

\* A command was typed; make_client() connects.
Connect(a, c, m) ==
  /\ atm[a].pc = "prompt" /\ tcp[c] = "free"
  /\ bank.pc # "exit" /\ Len(backlog) < BACKLOG
  /\ AtmBecomes(a, "send", "hello", c, atm[a].key)
  /\ tcp' = [tcp EXCEPT ![c] = "open"]
  /\ backlog' = Append(backlog, c)
  /\ order' = [order EXCEPT ![c] = m]
  /\ fate' = [fate EXCEPT ![c] = "waiting"]
  /\ UNCHANGED <<safe, reported, build, bank, up, down, entry, receipt>>

\* make_client() returns -1, or the customer typed q.
ConnectFails(a) ==
  /\ atm[a].pc = "prompt"
  /\ bank.pc = "exit" \/ Len(backlog) = BACKLOG \/ OsFaults
  /\ AtmGoes(a, "exit", atm[a].stage)
  /\ UNCHANGED <<safe, reported, build, bank, backlog, wire, book>>

Quit(a) ==
  /\ atm[a].pc = "prompt"
  /\ AtmGoes(a, "exit", atm[a].stage)
  /\ UNCHANGED <<safe, reported, build, bank, backlog, wire, book>>

AtmPacket(a) ==
  CASE atm[a].stage = "hello" -> Plain(AtmHello, None)
    [] atm[a].stage = "keyex" -> Plain("client_half", None)
    [] atm[a].stage = "bank" -> Sealed(CipherKey(build.atm, atm[a].key), order[atm[a].sd])

AtmAwaits(a) == CASE atm[a].stage = "hello" -> AtmHello
                  [] atm[a].stage = "keyex" -> "server_half"
                  [] atm[a].stage = "bank" -> "msg"

\* Faulty: the key exchange is sent without waiting for the bank's HELLO.
AtmSendPipelined(a) ==
  /\ atm[a].pc = "send"
  /\ LET c == atm[a].sd IN
     IF tcp[c] = "open" THEN up' = [up EXCEPT ![c] = Append(@, AtmPacket(a))]
                        ELSE UNCHANGED up
  /\ IF atm[a].stage = "hello" THEN AtmGoes(a, "send", "keyex")
                               ELSE AtmGoes(a, "recv", atm[a].stage)
  /\ UNCHANGED <<safe, reported, build, bank, backlog, tcp, down, book>>

\* send() in estab_con() and in main(): to a live bank, or into a connection
\* whose other end is gone.
AtmSend(a) ==
  /\ atm[a].pc = "send"
  /\ LET c == atm[a].sd IN
     IF tcp[c] = "open" THEN up' = [up EXCEPT ![c] = Append(@, AtmPacket(a))]
                        ELSE UNCHANGED up
  /\ AtmGoes(a, "recv", atm[a].stage)
  /\ UNCHANGED <<safe, reported, build, bank, backlog, tcp, down, book>>

\* The ATM's first encryption, which divides by zero if no modulus was read.
AtmEncryptsFirst(a) ==
  \/ build.atm = "rsa" /\ atm[a].stage = "hello"
  \/ build.atm = "raw" /\ atm[a].stage = "keyex"

\* send() fails, or the ATM is aborted while it makes the packet.
AtmSendFails(a) ==
  /\ atm[a].pc = "send"
  /\ tcp[atm[a].sd] # "open" \/ OsFaults \/ AtmEncryptsFirst(a)
  /\ AtmExits(a, "failed", down[atm[a].sd])
  /\ UNCHANGED <<safe, reported, build, bank, backlog, up, down>>

\* try_recv() returns all the bytes asked for.
AtmReads(a, kind) ==
  LET c == atm[a].sd IN
  /\ atm[a].pc = "recv" /\ AtmAwaits(a) = kind
  /\ down[c] # <<>> /\ Length[Head(down[c]).kind] >= Length[kind]
  /\ down' = [down EXCEPT ![c] = Tail(@)]

\* On to the key exchange, or "Hacker detected": the bank is of another build,
\* or the RSA keys do not belong together.
AtmRecvHello(a) ==
  /\ atm[a].stage = "hello" /\ AtmReads(a, AtmHello)
  /\ LET matches == Head(down[atm[a].sd]).kind = AtmHello IN
     \/ matches /\ AtmGoes(a, "send", "keyex") /\ UNCHANGED <<tcp, book>>
     \/ /\ ~matches \/ AtmHello = "hello_rsa"
        /\ AtmExits(a, "failed", Tail(down[atm[a].sd]))
  /\ UNCHANGED <<safe, reported, build, bank, backlog, up>>

\* ClientDiffieKeys::genKeys.  What RSA makes of the answer may be too short
\* for substr, and aborts the ATM.
AtmRecvKeyex(a) ==
  /\ atm[a].stage = "keyex" /\ AtmReads(a, "server_half")
  /\ LET k == Head(down[atm[a].sd]).key IN
     \/ /\ k # None
        /\ AtmBecomes(a, "send", "bank", atm[a].sd, k)
        /\ UNCHANGED <<tcp, book>>
     \/ /\ k = None \/ build.atm # "nrsa"
        /\ AtmExits(a, "failed", Tail(down[atm[a].sd]))
  /\ UNCHANGED <<safe, reported, build, bank, backlog, up>>

\* RecvMsg, the outcome displayed, CLOSE_CLIENT, and back to the prompt.
AtmRecvReply(a) ==
  LET c == atm[a].sd IN
  /\ atm[a].stage = "bank" /\ AtmReads(a, "msg")
  /\ \E m \in RecvMsg(Head(down[c]), build.atm, atm[a].key) :
       receipt' = [receipt EXCEPT ![c] = m]
  /\ fate' = [fate EXCEPT ![c] = "told"]
  /\ Hangup(c, Tail(down[c]))
  /\ AtmBecomes(a, "prompt", atm[a].stage, None, atm[a].key)
  /\ UNCHANGED <<safe, reported, build, bank, backlog, up, order, entry>>

\* Faulty: the ATM gives up waiting.
AtmRecvImpatient(a) ==
  /\ atm[a].pc = "recv" /\ down[atm[a].sd] = <<>>
  /\ AtmExits(a, "failed", <<>>)
  /\ UNCHANGED <<safe, reported, build, bank, backlog, up, down>>

\* recv() returns 0 or -1.  The ATM sets no timeout.
AtmRecvFails(a) ==
  /\ atm[a].pc = "recv"
  /\ (down[atm[a].sd] = <<>> /\ tcp[atm[a].sd] = "shut") \/ OsFaults
  /\ AtmExits(a, "failed", down[atm[a].sd])
  /\ UNCHANGED <<safe, reported, build, bank, backlog, up, down>>

AtmKilled(a) ==
  /\ MayKill /\ atm[a].pc \in {"send", "recv"}
  /\ AtmExits(a, "gone", down[atm[a].sd])
  /\ UNCHANGED <<safe, reported, build, bank, backlog, up, down>>

RstArrives(c) ==
  /\ tcp[c] = "rst_due"
  /\ tcp' = [tcp EXCEPT ![c] = "rst"]
  /\ UNCHANGED <<safe, reported, build, bank, atm, backlog, up, down, book>>
-----------------------------------------------------------------------------
(***************************************************************************)
(* The bank: the loop of main() and try_recv().                            *)
(***************************************************************************)
\* The kernel closes the bank's end of every connection of a dead process.
BankExits ==
  /\ bank' = [bank EXCEPT !.pc = "exit"]
  /\ tcp' = [c \in Conns |-> IF tcp[c] = "free" THEN "free" ELSE "shut"]

Accept ==
  /\ bank.pc = "accept" /\ backlog # <<>>
  /\ bank' = [bank EXCEPT !.pc = "arm", !.stage = "hello", !.key = None,
                          !.cd = Head(backlog)]
  /\ backlog' = Tail(backlog)
  /\ UNCHANGED <<safe, reported, build, atm, wire, book>>

\* accept() fails, or LoadKeys() cannot open serverKeys and exits.
AcceptFails ==
  /\ OsFaults /\ bank.pc = "accept"
  /\ BankExits
  /\ UNCHANGED <<safe, reported, build, atm, backlog, up, down, book>>

\* Faulty: no build sets the alarm.
ArmNever ==
  /\ bank.pc = "arm"
  /\ bank' = [bank EXCEPT !.pc = "enter", !.gtimeout = FALSE]
  /\ UNCHANGED <<safe, reported, build, atm, backlog, wire, book>>

\* gtimeout = false; alarm(TIMEOUT) unless NENCRYPT.
Arm ==
  /\ bank.pc = "arm"
  /\ bank' = [bank EXCEPT !.pc = "enter", !.gtimeout = FALSE,
                          !.alarm = build.bank # "raw"]
  /\ UNCHANGED <<safe, reported, build, atm, backlog, wire, book>>

EnterRecv ==
  /\ bank.pc = "enter"
  /\ bank' = [bank EXCEPT !.pc = "recv"]
  /\ UNCHANGED <<safe, reported, build, atm, backlog, wire, book>>

BankAwaits == CASE bank.stage = "hello" -> BankHello
                [] bank.stage = "keyex" -> "client_half"
                [] bank.stage = "bank" -> "msg"

BankReads ==
  LET c == bank.cd IN
  /\ bank.pc = "recv"
  /\ up[c] # <<>> /\ Length[Head(up[c]).kind] >= Length[BankAwaits]
  /\ up' = [up EXCEPT ![c] = Tail(@)]
  /\ bank' = [bank EXCEPT !.pc = "disarm", !.buf = Head(up[c])]
  /\ UNCHANGED <<safe, reported, build, atm, backlog, tcp, down, book>>

\* recv() returns 0, fewer bytes than asked for, or -1.
BankReadFails ==
  /\ bank.pc = "recv"
  /\ (up[bank.cd] = <<>> /\ tcp[bank.cd] \in {"fin", "rst_due", "rst"}) \/ OsFaults
  /\ bank' = [bank EXCEPT !.pc = "disarm", !.buf = None]
  /\ UNCHANGED <<safe, reported, build, atm, backlog, wire, book>>

\* SIGALRM.  It interrupts the recv it lands in; before the call, or after
\* its return, it only sets the flag.
AlarmFires ==
  /\ bank.alarm /\ bank.pc \in {"recv", "disarm"} \cup IF Preempt THEN {"enter"} ELSE {}
  /\ bank' = [bank EXCEPT !.gtimeout = TRUE, !.alarm = FALSE,
                          !.pc = IF @ = "recv" THEN "disarm" ELSE @,
                          !.buf = IF bank.pc = "recv" THEN None ELSE @]
  /\ UNCHANGED <<safe, reported, build, atm, backlog, wire, book>>

\* alarm(0) and the checks of try_recv's end.
Disarm ==
  /\ bank.pc = "disarm"
  /\ bank' = [bank EXCEPT !.alarm = FALSE,
                          !.pc = IF bank.gtimeout \/ bank.buf = None
                                 THEN "shutdown" ELSE "handle"]
  /\ UNCHANGED <<safe, reported, build, atm, backlog, wire, book>>
-----------------------------------------------------------------------------
(***************************************************************************)
(* The bank: hello(), keyex() and bank().                                  *)
(***************************************************************************)
\* Faulty: a send that reports failure, its bytes already queued, is done again.
BankSendsAgain(p, pc, stage, k) ==
  LET c == bank.cd IN
  /\ down' = [down EXCEPT ![c] = IF tcp[c] = "open" THEN Append(@, p) ELSE @]
  /\ UNCHANGED tcp
  /\ \/ bank' = [bank EXCEPT !.pc = pc, !.stage = stage, !.key = k]
     \/ OsFaults /\ bank' = [bank EXCEPT !.pc = "handle"]

\* send(), or its failure; then the bank goes to pc and stage with key k.  A
\* peer that is gone answers the data with a reset; data sent after the reset
\* has arrived raises SIGPIPE, which the bank does not handle.
BankSends(p, pc, stage, k) ==
  LET c == bank.cd IN
  \/ IF tcp[c] = "rst"
     THEN BankExits /\ UNCHANGED down
     ELSE /\ down' = [down EXCEPT ![c] = IF tcp[c] = "open" THEN Append(@, p) ELSE @]
          /\ tcp' = [tcp EXCEPT ![c] = IF @ = "fin" THEN "rst_due" ELSE @]
          /\ bank' = [bank EXCEPT !.pc = pc, !.stage = stage, !.key = k]
  \/ /\ OsFaults
     /\ bank' = [bank EXCEPT !.pc = "shutdown"]
     /\ UNCHANGED <<tcp, down>>

\* A HELLO is refused if the ATM is of another build, or if the RSA keys of
\* the two do not belong together.
Hello ==
  /\ bank.pc = "handle" /\ bank.stage = "hello"
  /\ \/ /\ bank.buf.kind = BankHello
        /\ BankSends(Plain(BankHello, None), "arm", "keyex", None)
     \/ /\ bank.buf.kind # BankHello \/ BankHello = "hello_rsa"
        /\ bank' = [bank EXCEPT !.pc = "shutdown"]
        /\ UNCHANGED <<tcp, down>>
  /\ UNCHANGED <<safe, reported, build, atm, backlog, up, book>>

\* What RSA gives back makes substr or mpz_class throw in ServerDiffieKeys, or
\* GMP divide by zero there or in hello(), and nothing catches either; when
\* that happens is KeyExchange's subject.
BankAborts ==
  /\ bank.pc = "handle"
  /\ \/ bank.stage = "hello" /\ BankHello = "hello_rsa"
     \/ bank.stage = "keyex" /\ ~PlainBuilds
  /\ BankExits
  /\ UNCHANGED <<safe, reported, build, atm, backlog, up, down, book>>

\* ServerDiffieKeys: the reply is sent before genKeys can fail.
Keyex ==
  /\ bank.pc = "handle" /\ bank.stage = "keyex"
  /\ \E o \in KeyOutcomes :
       IF o[1] = None
       THEN BankSends(Plain("server_half", o[2]), "shutdown", "keyex", None)
       ELSE BankSends(Plain("server_half", o[2]), "arm", "bank", o[1])
  /\ UNCHANGED <<safe, reported, build, atm, backlog, up, book>>

\* RecvMsg, the switch of bank(), SendMsg.
Serve ==
  /\ bank.pc = "handle" /\ bank.stage = "bank"
  /\ \E m \in RecvMsg(bank.buf, build.bank, bank.key), r \in Msg :
       /\ Bank(m, r)
       /\ entry' = [entry EXCEPT ![bank.cd] = r]
       /\ BankSends(Sealed(CipherKey(build.bank, bank.key), r),
                    "shutdown", "bank", bank.key)
  /\ UNCHANGED <<build, atm, backlog, up, order, receipt, fate>>

\* Faulty: a peer that has closed its end counts as a failed shutdown().
ShutdownStrict ==
  /\ bank.pc = "shutdown"
  /\ \/ /\ tcp[bank.cd] = "open"
        /\ tcp' = [tcp EXCEPT ![bank.cd] = "shut"]
        /\ bank' = [bank EXCEPT !.pc = "accept", !.cd = None, !.buf = None]
     \/ /\ tcp[bank.cd] # "open"
        /\ BankExits
  /\ UNCHANGED <<safe, reported, build, atm, backlog, up, down, book>>

\* Faulty: a session that failed is left without shutdown() and close().
ShutdownForgotten ==
  /\ bank.pc = "shutdown"
  /\ bank' = [bank EXCEPT !.pc = "accept", !.cd = None, !.buf = None]
  /\ UNCHANGED <<safe, reported, build, atm, backlog, wire, book>>

\* shutdown() and close(); a connection that was reset fails the former and
\* takes the whole bank with it.
Shutdown ==
  /\ bank.pc = "shutdown"
  /\ \/ /\ tcp[bank.cd] # "rst"
        /\ tcp' = [tcp EXCEPT ![bank.cd] = "shut"]
        /\ bank' = [bank EXCEPT !.pc = "accept", !.cd = None, !.buf = None]
     \/ /\ tcp[bank.cd] = "rst" \/ OsFaults
        /\ BankExits
  /\ UNCHANGED <<safe, reported, build, atm, backlog, up, down, book>>
-----------------------------------------------------------------------------
AtmStep(a) ==
  \/ AtmSend(a) \/ AtmSendFails(a) \/ AtmRecvHello(a) \/ AtmRecvKeyex(a)
  \/ AtmRecvReply(a) \/ AtmRecvFails(a)

BankStep ==
  \/ Accept \/ AcceptFails \/ Arm \/ EnterRecv \/ BankReads \/ BankReadFails
  \/ Disarm \/ Hello \/ Keyex \/ BankAborts \/ Serve \/ Shutdown

\* Every customer has left, and the bank has nothing to do or has exited.
Terminating ==
  /\ \A a \in Atms : atm[a].pc = "exit"
  /\ bank.pc = "exit" \/ (bank.pc = "accept" /\ backlog = <<>>)
  /\ UNCHANGED vars

Next ==
  \/ \E a \in Atms : \/ \E c \in Conns, m \in Requests : Connect(a, c, m)
                     \/ ConnectFails(a) \/ Quit(a)
                     \/ AtmStep(a) \/ AtmKilled(a)
  \/ \E c \in Conns : RstArrives(c)
  \/ BankStep \/ AlarmFires \/ Terminating

Spec == Init /\ [][Next]_vars

(***************************************************************************)
(* The bank is a running process and a timer that was set expires.         *)
(* Nothing is assumed of ATMs: they may stall for ever.                    *)
(***************************************************************************)
BankFairSpec == Spec /\ WF_vars(BankStep) /\ WF_vars(AlarmFires)

-----------------------------------------------------------------------------
BankStates == [pc : BankPcs, stage : Stages, cd : Conns \cup {None},
               buf : Packet \cup {None}, key : Keys \cup {None},
               gtimeout : BOOLEAN, alarm : BOOLEAN]

AtmStates == [pc : AtmPcs, stage : Stages, sd : Conns \cup {None}, key : CipherKeys]

TypeOK ==
  /\ BankTypeOK
  /\ build \in Builds
  /\ bank \in BankStates
  /\ atm \in [Atms -> AtmStates]
  /\ backlog \in Seq(Conns)
  /\ tcp \in [Conns -> TcpStates]
  /\ up \in [Conns -> Seq(Packet)]
  /\ down \in [Conns -> Seq(Packet)]
  /\ order \in [Conns -> Requests \cup {None}]
  /\ entry \in [Conns -> Msg \cup {None}]
  /\ receipt \in [Conns -> Msg \cup {None}]
  /\ fate \in [Conns -> Fates]

(***************************************************************************)
(* The three fixed-length reads of each side stay in step with the other   *)
(* side's three writes, through timeouts, deaths and failures: at most one *)
(* packet is in flight on a connection, and what a stage reads was written *)
(* for that stage.  Nothing on the wire says which stage a packet is of.   *)
(***************************************************************************)
InStep ==
  /\ \A c \in Conns : Len(up[c]) + Len(down[c]) <= 1
  /\ bank.pc = "handle" => bank.buf.kind = BankAwaits
  /\ \A a \in Atms : atm[a].pc = "recv" =>
       \A i \in DOMAIN down[atm[a].sd] : down[atm[a].sd][i].kind = AtmAwaits(a)

(***************************************************************************)
(* The bank never sends on a connection whose reset has arrived, which     *)
(* would kill it by SIGPIPE: no send of hello(), keyex() or bank() checks. *)
(***************************************************************************)
NeverSendsOnReset == bank.pc = "handle" => tcp[bank.cd] # "rst"

(***************************************************************************)
(* Timeouts, refusals, failed key exchanges and orderly closes leave the   *)
(* bank running.  What ends it, and with it every balance, is an ATM that  *)
(* was killed during an order (bank.cpp:262-267) or, unless both programs  *)
(* are NRSA builds, an abort over what RSA gives back in HELLO or the key  *)
(* exchange (ssh.hpp:79-102): never what comes after the exchange, and     *)
(* never a session that brought no packet.                                 *)
(***************************************************************************)
BankDiesOnlyOfCrash ==
  bank.pc = "exit" =>
    \/ \E c \in Conns : fate[c] = "gone"
    \/ ~PlainBuilds /\ bank.stage \in {"hello", "keyex"} /\ bank.buf # None

\* What the accepted requests of one type moved on account u.
Moved(u, type) ==
  MapThenSumSet(LAMBDA c : order[c].amt,
                {c \in Conns : /\ entry[c] # None /\ entry[c].type = "OK"
                               /\ order[c].uid = u /\ order[c].type = type})

(***************************************************************************)
(* Each account holds what its customers' orders put in less what they     *)
(* took out, each order counted once and as it was typed: no order is      *)
(* applied twice, altered on the way, or applied after it was refused.     *)
(***************************************************************************)
Conservation == \A u \in Uids : safe[u] = Moved(u, "DEPOSIT") - Moved(u, "WITHDRAW")

(***************************************************************************)
(* A bank that checks MACs keeps its accounts straight whatever build the  *)
(* ATM is of: one that neither encrypts nor checks moves no money by       *)
(* accident (ssh.cpp:84-92).                                               *)
(***************************************************************************)
MacsGuardAccounts == build.bank # "raw" => Conservation

(***************************************************************************)
(* No order of a `make rawatm' client or a `make dhatm' one is ever posted *)
(* at a `make rawbank': under NENCRYPT alone the ATM sends a plain HELLO   *)
(* of 10 bytes while the bank waits for an encrypted one of 256, with no   *)
(* alarm set (client.cpp:78, bank.cpp:78-80, bank.cpp:107).                *)
(***************************************************************************)
RawHellosNeverMeet ==
  build.bank = "raw" /\ build.atm # "rsa" => \A c \in Conns : entry[c] = None

(***************************************************************************)
(* What an ATM displays is the reply the bank decided on for that very     *)
(* order; an ATM that cannot open the reply shows "The message was         *)
(* invalid", and then the bank had refused the order (client.cpp:277-327). *)
(***************************************************************************)
ToldTruly ==
  \A c \in Conns : fate[c] = "told" =>
    \/ receipt[c] = entry[c]
    \/ receipt[c].type = "INVALID" /\ entry[c].type = "BAD_FORMAT"

(***************************************************************************)
(* The two processes together keep the promise of Teller: above all, an    *)
(* ATM that reports failure has not had its order applied, though it has   *)
(* no acknowledgement of its own and never retries.                        *)
(***************************************************************************)
T == INSTANCE Teller WITH Tickets <- Conns, Owners <- Uids, MaxBalance <- UINT64_MAX,
                          balance <- [u \in Uids |-> safe[u]],
                          line <- [u \in Uids |-> reported[u]]

ImplementsTeller == T!TellerSpec

(***************************************************************************)
(* A session that has begun ends, whatever its ATM does or fails to do:    *)
(* the bank returns to accept() (bank.cpp:71-103, the alarm).              *)
(***************************************************************************)
Serving == bank.pc \notin {"accept", "exit"}

SessionEnds == Serving ~> ~Serving

(***************************************************************************)
(* Every customer of an ATM that runs is told something about an order,    *)
(* though the ATM sets no timeout (client.cpp:55-72) and may wait in       *)
(* listen()'s queue behind ATMs that stall until their alarm.              *)
(***************************************************************************)
EveryAtmAnswered ==
  \A a \in Atms, c \in Conns :
    WF_vars(AtmStep(a)) => (atm[a].sd = c ~> (atm[a].sd # c \/ atm[a].pc = "exit"))

(***************************************************************************)
(* The two programs wait for each other for ever in no pair of builds but  *)
(* that of RawHellosNeverMeet: elsewhere a HELLO of the wrong kind is long *)
(* enough to be read and refused, or the bank's alarm ends the wait        *)
(* (client.cpp:78, bank.cpp:78, bank.cpp:107).                             *)
(***************************************************************************)
OnlyRawHellosHang == (build.bank = "raw" => build.atm = "rsa") => EveryAtmAnswered
=============================================================================
