----------------------------- MODULE OrderPath ------------------------------
(***************************************************************************)
(* One order from the customer's keyboard to the bank and its answer back  *)
(* to the screen, byte by byte: one turn of the loop in main() of          *)
(* client.cpp and one call of bank() in bank.cpp.  Connections, deaths and *)
(* timeouts are in Session; here estab_con() succeeds and every packet     *)
(* arrives.                                                                *)
(***************************************************************************)
EXTENDS AtmInput, Envelope

CONSTANTS Ids, Lines,   \* what the customer may type, and the file may hold
          Processes,    \* the two programs, [atm, bank], after estab_con()
          Balances,     \* what an account may hold, words of 64 bits
          None

ASSUME OrderPathAssumption ==
  /\ Ids \subseteq Seq(STRING) /\ Lines \subseteq Seq(STRING)
  /\ Processes \subseteq [atm : Programs, bank : Programs]
  /\ Balances \subseteq Word(64)

VARIABLES pc,         \* how far the turn has come
          id, line,   \* the customer's lines
          order,      \* msgType, u_id and money of main()
          process,    \* keys, build and static words of both programs
          wire,       \* the packet on its way
          request,    \* the RecvMsg of the bank
          answer,     \* what the bank sends back
          shown       \* what the ATM prints

vars == <<pc, id, line, order, process, wire, request, answer, shown>>

Init ==
  /\ pc = "id" /\ id = None /\ line = None /\ order = None
  /\ process = None /\ wire = None /\ request = None /\ answer = None /\ shown = None
-----------------------------------------------------------------------------
\* getline() and stoi(); a refused id is asked for again.
ReadId ==
  /\ pc = "id"
  /\ id' \in Ids
  /\ pc' = IF IdRefused(id') THEN "id" ELSE "line"
  /\ UNCHANGED <<line, order, process, wire, request, answer, shown>>

\* A refused order goes back to the first prompt.
ReadLine ==
  /\ pc = "line"
  /\ line' \in Lines
  /\ IF Aborted(line') THEN pc' = "id" /\ UNCHANGED order
     ELSE IF IsQuit(line') THEN pc' = "bye" /\ UNCHANGED order
     ELSE pc' = "connect" /\ order' = Request(UId(id), line')
  /\ UNCHANGED <<id, process, wire, request, answer, shown>>

\* getline() fails at the end of the input.
EndOfInput ==
  /\ pc \in {"id", "line"}
  /\ pc' = "failed"
  /\ UNCHANGED <<id, line, order, process, wire, request, answer, shown>>

\* make_client() and estab_con().  The two lines are not read again.
Estab_con ==
  /\ pc = "connect"
  /\ process' \in Processes
  /\ id' = None /\ line' = None
  /\ pc' = "send"
  /\ UNCHANGED <<order, wire, request, answer, shown>>

AtmSends ==
  /\ pc = "send"
  /\ \E sent \in {SendMsg(process.atm, order.type, order.uid, order.amt)} :
       /\ process' = [process EXCEPT !.atm = sent.process]
       /\ wire' = sent.msg
  /\ pc' = "request"
  /\ UNCHANGED <<id, line, order, request, answer, shown>>

BankReceives ==
  /\ pc = "request"
  /\ \E received \in {RecvMsg(process.bank, wire)} :
       /\ process' = [process EXCEPT !.bank = received.process]
       /\ request' = received.msg
  /\ wire' = None
  /\ pc' = "decide"
  /\ UNCHANGED <<id, line, order, answer, shown>>

Reply(type, amt) == [type |-> type, uid |-> request.uid, amt |-> amt]

\* What bank() may decide, whatever the accounts hold.
Answers ==
  CASE request.type = "DEPOSIT"  -> [type : {"OK"}, uid : {request.uid}, amt : Balances]
                                    \cup {Reply("TOO_MUCH_BANK", {})}
    [] request.type = "WITHDRAW" -> [type : {"OK"}, uid : {request.uid}, amt : Balances]
                                    \cup {Reply("NOT_ENOUGH_DOUGH", {})}
    [] request.type = "BALANCE"  -> [type : {"OK"}, uid : {request.uid}, amt : Balances]
    [] OTHER                     -> {Reply("BAD_FORMAT", {})}

BankAnswers ==
  /\ pc = "decide"
  /\ answer' \in Answers
  /\ \E sent \in {SendMsg(process.bank, answer'.type, answer'.uid, answer'.amt)} :
       /\ process' = [process EXCEPT !.bank = sent.process]
       /\ wire' = sent.msg
  /\ pc' = "reply"
  /\ UNCHANGED <<id, line, order, request, shown>>

\* The texts main() prints: money in most, the balance after an OK; nothing
\* for a reply of a type that only requests have.
Display(msg) ==
  LET type == IF msg.error # "none" THEN "INVALID" ELSE msg.type
  IN  [type |-> IF type \in DOMAIN Act THEN "nothing" ELSE type,
       money |-> IF type \in DOMAIN Act \cup {"INVALID"} \/ order.type = "BALANCE"
                 THEN {} ELSE order.amt,
       balance |-> IF type = "OK" THEN msg.amt ELSE {}]

AtmReceives ==
  /\ pc = "reply"
  /\ \E received \in {RecvMsg(process.atm, wire)} :
       /\ process' = [process EXCEPT !.atm = received.process]
       /\ shown' = Display(received.msg)
  /\ wire' = None
  /\ pc' = "shown"
  /\ UNCHANGED <<id, line, order, request, answer>>

\* The customer leaves, the input ends, or the turn is over.
Terminating == pc \in {"bye", "failed", "shown"} /\ UNCHANGED vars

Next == ReadId \/ ReadLine \/ EndOfInput \/ Estab_con \/ AtmSends \/ BankReceives
        \/ BankAnswers \/ AtmReceives \/ Terminating

Spec == Init /\ [][Next]_vars
-----------------------------------------------------------------------------
(***************************************************************************)
(* A message of either direction has a type of the enumeration and words   *)
(* of the right width, whatever the bytes were: a byte of 128 or more is a *)
(* negative char, and must not pass for a small type (ssh.cpp:91).         *)
(***************************************************************************)
OrderTypeOK ==
  /\ order # None => order.type \in DOMAIN Act /\ order.uid \subseteq 0 .. 7
                     /\ order.amt \subseteq 0 .. 63
  /\ request # None => /\ \/ request.type = "INVALID"
                          \/ \E i \in DOMAIN MsgTypes : request.type = MsgTypes[i]
                       /\ request.uid \subseteq 0 .. 7 /\ request.amt \subseteq 0 .. 63
  /\ shown # None => shown.balance \subseteq 0 .. 63

(***************************************************************************)
(* The order that goes to the bank is the one the two lines spell: no id   *)
(* is cut to a byte, no negative amount becomes a huge one, no overflow of *)
(* stoi or stol passes (client.cpp:173-190, 224-238).                      *)
(***************************************************************************)
SentAsTyped ==
  pc = "connect" =>
    /\ Spells(id, order.uid)
    /\ line[1] = Act[order.type]
    /\ IF order.type = "BALANCE" THEN order.amt = {} ELSE Spells(Funds(line), order.amt)

(***************************************************************************)
(* An id and an order written as the prompts ask for them are never turned *)
(* away (client.cpp:166, 192-194).                                         *)
(***************************************************************************)
GoodInputAccepted ==
  [][pc' = "id" => (pc = "id" => ~GoodId(id')) /\ (pc = "line" => ~GoodLine(line'))]_vars

SameKeys(p, q) ==
  p.hmac_key = q.hmac_key /\ p.aes_key = q.aes_key /\ p.aes_iv = q.aes_iv

\* The key string of create_HMAC fills one chunk, of which the first 64
\* characters count, and they are hmac_key.
KeyStringFits(p) == Len(KeyString(p.keys)) < 448

Alike ==
  /\ process # None
  /\ ~process.atm.raw /\ ~process.bank.raw
  /\ SameKeys(process.atm.keys, process.bank.keys)
  /\ KeyStringFits(process.atm) /\ KeyStringFits(process.bank)

(***************************************************************************)
(* Two programs with the same keys: the bank reads the very order, though  *)
(* the key string of the tag runs on behind hmac_key into memory that      *)
(* differs (hmac.cpp:25) and each hash starts in static words that an      *)
(* earlier one has left (sha1.cpp:90-94).                                  *)
(***************************************************************************)
OrderArrives ==
  Alike /\ request # None =>
    request = [type |-> order.type, uid |-> order.uid, amt |-> order.amt, error |-> "none"]

(***************************************************************************)
(* And the customer sees what the bank decided, with the balance it sent   *)
(* (client.cpp:282-327).                                                   *)
(***************************************************************************)
AnswerArrives ==
  Alike /\ shown # None =>
    /\ shown.type = answer.type
    /\ shown.balance = answer.amt

(***************************************************************************)
(* With other keys than the sender's a program that compares tags refuses, *)
(* or reads the type, account and upper six bytes of the amount that were  *)
(* sent.  The tag covers these eight bytes and no more: convert() takes 64 *)
(* characters of a chunk (ssh.cpp:82, sha1.cpp:80).                        *)
(***************************************************************************)
AcceptedWasSent ==
  /\ request # None /\ ~process.bank.raw /\ request.error = "none" =>
       /\ request.type = order.type /\ request.uid = order.uid
       /\ request.amt \ 0 .. 15 = order.amt \ 0 .. 15
  /\ shown # None /\ ~process.atm.raw /\ shown.type # "INVALID" =>
       /\ shown.type = answer.type
       /\ shown.balance \ 0 .. 15 = answer.amt \ 0 .. 15

(***************************************************************************)
(* A tag has the 40 characters that are copied from it; the assertion that *)
(* says so is compiled out by NDEBUG (ssh.cpp:115-116).                    *)
(***************************************************************************)
TagIsFull == wire # None => Len(wire.mac) = output_length
=============================================================================
