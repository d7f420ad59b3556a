-------------------------------- MODULE Dial --------------------------------
(***************************************************************************)
(* How each program gets its socket: make_client() of client.cpp tries to  *)
(* connect, make_and_bind_sd() of bank.cpp tries to bind, once per entry   *)
(* of the list that getaddrinfo() returned.  Both loops step an iterator   *)
(* through the list and both pass the head of the list to the system calls.*)
(* Fresh descriptors are numbered from the lowest free one; the list and   *)
(* the answers of the system calls are the environment's.                  *)
(***************************************************************************)
EXTENDS Integers, SequencesExt

CONSTANTS Addresses,   \* socket addresses
          MaxList,     \* the longest list getaddrinfo() returns here
          MaxFd        \* the highest descriptor this model can open

ASSUME DialAssumption == MaxList \in Nat /\ MaxFd \in Nat

VARIABLES program,   \* "atm" or "bank"
          usable,    \* the addresses on which connect() or bind() succeeds now
          list,      \* what getaddrinfo() returned, a sequence of addresses
          fds,       \* the open descriptors
          start,     \* the descriptors open at the call (main()'s stdio)
          pc, itr, sd, freed, result,   \* itr counts entries from 1; result -1 is failure
          tried      \* history: the addresses passed to connect() or bind()

vars == <<program, usable, list, fds, start, pc, itr, sd, tried, freed, result>>

Pcs == {"getaddrinfo", "socket", "use", "close", "done"}
Lists == BoundedSeq(Addresses, MaxList)
Fds == 0 .. MaxFd

\* The standard streams are open, or the program was started with stdin closed.
Init ==
  /\ program \in {"atm", "bank"}
  /\ usable \in SUBSET Addresses
  /\ start \in {{0, 1, 2}, {1, 2}} /\ fds = start
  /\ list = <<>> /\ pc = "getaddrinfo" /\ itr = 0 /\ sd = -1
  /\ tried = <<>> /\ freed = 0 /\ result = -1

Return(r) == pc' = "done" /\ result' = r

GetaddrinfoFails ==
  /\ pc = "getaddrinfo"
  /\ Return(-1)
  /\ UNCHANGED <<program, usable, list, fds, start, itr, sd, tried, freed>>

\* getaddrinfo() succeeds with at least one entry.
Getaddrinfo ==
  /\ pc = "getaddrinfo"
  /\ list' \in Lists \ {<<>>}
  /\ itr' = 1 /\ pc' = "socket"
  /\ UNCHANGED <<program, usable, fds, start, sd, tried, freed, result>>

\* itr = itr->ai_next; behind the last entry both programs free the list and
\* report failure.
NextEntry ==
  IF itr < Len(list)
  THEN itr' = itr + 1 /\ pc' = "socket" /\ UNCHANGED <<freed, result>>
  ELSE itr' = itr /\ freed' = freed + 1 /\ Return(-1)

LowestFree == CHOOSE n \in Fds \ fds : \A k \in Fds \ fds : n <= k

\* The bank tests !(sd = socket(...)): it gives up on descriptor 0, which it
\* leaves open, and goes on with -1.
Socket ==
  /\ pc = "socket"
  /\ sd' = LowestFree
  /\ fds' = fds \cup {sd'}
  /\ IF program = "bank" /\ sd' = 0
     THEN freed' = freed + 1 /\ Return(-1)
     ELSE pc' = "use" /\ UNCHANGED <<freed, result>>
  /\ UNCHANGED <<program, usable, list, start, itr, tried>>

SocketFails ==
  /\ pc = "socket"
  /\ IF program = "atm"
     THEN NextEntry /\ UNCHANGED sd
     ELSE sd' = -1 /\ pc' = "use" /\ UNCHANGED <<itr, freed, result>>
  /\ UNCHANGED <<program, usable, list, fds, start, tried>>

\* connect(client, res->ai_addr, ..) or bind(sd, res->ai_addr, ..).
Use ==
  /\ pc = "use"
  /\ IF sd # -1 /\ list[1] \in usable
     THEN freed' = freed + 1 /\ Return(sd)
     ELSE pc' = "close" /\ UNCHANGED <<freed, result>>
  /\ tried' = Append(tried, list[1])
  /\ UNCHANGED <<program, usable, list, fds, start, itr, sd>>

\* Faulty: the descriptor is left open.
CloseForgotten ==
  /\ pc = "close"
  /\ NextEntry
  /\ UNCHANGED <<program, usable, list, fds, start, sd, tried>>

\* Faulty: the error path frees the list and falls through to the next entry.
CloseFallsThrough ==
  /\ pc = "close"
  /\ fds' = fds \ {sd}
  /\ IF itr < Len(list)
     THEN itr' = itr + 1 /\ pc' = "socket" /\ freed' = freed + 1 /\ UNCHANGED result
     ELSE itr' = itr /\ freed' = freed + 1 /\ Return(-1)
  /\ UNCHANGED <<program, usable, list, start, sd, tried>>

\* The bank gives up when close() fails, which it does on -1.
Close ==
  /\ pc = "close"
  /\ fds' = fds \ {sd}
  /\ IF program = "bank" /\ sd \notin fds
     THEN freed' = freed + 1 /\ Return(-1) /\ UNCHANGED itr
     ELSE NextEntry
  /\ UNCHANGED <<program, usable, list, start, sd, tried>>

Terminating == pc = "done" /\ UNCHANGED vars

Next == GetaddrinfoFails \/ Getaddrinfo \/ Socket \/ SocketFails \/ Use \/ Close
        \/ Terminating

Spec == Init /\ [][Next]_vars
-----------------------------------------------------------------------------
TypeOK ==
  /\ program \in {"atm", "bank"} /\ usable \subseteq Addresses /\ list \in Lists
  /\ fds \subseteq Fds /\ start \subseteq Fds /\ pc \in Pcs
  /\ itr \in 0 .. MaxList /\ sd \in Fds \cup {-1} /\ tried \in Lists
  /\ freed \in 0 .. 1 /\ result \in Fds \cup {-1}

(***************************************************************************)
(* Started with its standard streams open, a program leaves the function   *)
(* with exactly the descriptor it returns, or with none, and has freed the *)
(* list exactly once if it got one, through every mix of failing calls.    *)
(***************************************************************************)
NothingLeaks ==
  pc = "done" /\ 0 \in start =>
    /\ fds = start \cup ({result} \ {-1})
    /\ list # <<>> => freed = 1

(***************************************************************************)
(* When the ATM gives up after one connect() per entry of the list, no     *)
(* entry is usable (client.cpp:34: "loop through every socket and connect  *)
(* to the first one").                                                     *)
(***************************************************************************)
TriesEveryAddress ==
  pc = "done" /\ result = -1 /\ program = "atm" /\ Len(tried) = Len(list)
    => ToSet(list) \cap usable = {}
=============================================================================
