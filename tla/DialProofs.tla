----------------------------- MODULE DialProofs -----------------------------
(***************************************************************************)
(* For every address list and every mix of failing calls: a program that   *)
(* was started with its standard streams open leaves make_client() or      *)
(* make_and_bind_sd() with no descriptor but the one it returns, and has   *)
(* freed the list once (NothingEverLeaks).                                 *)
(***************************************************************************)
EXTENDS Dial, SequenceTheorems, TLAPS

\* One descriptor more than the standard streams can be opened.
RoomForOne == MaxFd >= 3

\* What is open and what has been freed at each point of the loop; a program
\* started with its standard streams open leaves nothing behind.
Books ==
  /\ start \in {{0, 1, 2}, {1, 2}}
  /\ sd \in Fds \cup {-1}
  /\ pc \in Pcs
  /\ pc \in {"socket", "use", "close"} => list # <<>> /\ freed = 0 /\ result = -1
  /\ pc = "getaddrinfo" => list = <<>> /\ freed = 0 /\ result = -1
  /\ pc \in {"getaddrinfo", "socket"} => fds = start
  /\ pc \in {"use", "close"} => fds = start \cup ({sd} \ {-1}) /\ sd \notin start
  /\ NothingLeaks

\* socket() returns a descriptor that was not open.
LEMMA LowestFreeIsFree ==
  ASSUME RoomForOne, NEW S \in {{0, 1, 2}, {1, 2}}, fds = S
  PROVE  LowestFree \in Fds \ S
<1>1. 0 \in Fds /\ 3 \in Fds
  BY DialAssumption DEF RoomForOne, Fds
<1>2. \E n \in Fds \ fds : \A k \in Fds \ fds : n <= k
  <2>1. CASE S = {0, 1, 2}
    <3>1. \A k \in Fds \ fds : 3 <= k
      BY <2>1, DialAssumption DEF Fds
    <3> QED
      BY <1>1, <2>1, <3>1
  <2>2. CASE S = {1, 2}
    <3>1. \A k \in Fds \ fds : 0 <= k
      BY DialAssumption DEF Fds
    <3> QED
      BY <1>1, <2>2, <3>1
  <2> QED
    BY <2>1, <2>2
<1> QED
  BY <1>2 DEF LowestFree

\* The function begins with the books in order.
LEMMA BooksInit == Init => Books
BY DEF Init, Books, Pcs, NothingLeaks

\* No step disturbs them.
LEMMA BooksStep ==
  ASSUME RoomForOne
  PROVE  Books /\ [Next]_vars => Books'
<1>9. -1 \notin Fds
  BY DialAssumption DEF Fds
<1> SUFFICES ASSUME Books, [Next]_vars
             PROVE  Books'
  OBVIOUS
<1> USE DEF Books, Pcs, NothingLeaks
<1>0. ASSUME NextEntry, freed = 0, result = -1, list # <<>>,
             UNCHANGED <<list, start, sd>>, fds' = start
      PROVE  Books'
  BY <1>0 DEF NextEntry, Return
<1>1. CASE GetaddrinfoFails
  BY <1>1 DEF GetaddrinfoFails, Return
<1>2. CASE Getaddrinfo
  BY <1>2 DEF Getaddrinfo
<1>3. CASE Socket
  <2>1. LowestFree \in Fds \ start
    BY <1>3, LowestFreeIsFree DEF Socket
  <2>2. sd' \in Fds \ start /\ fds' = start \cup {sd'}
    BY <1>3, <2>1 DEF Socket
  <2>3. CASE program = "bank" /\ sd' = 0
    BY <1>3, <2>2, <2>3 DEF Socket, Return
  <2>4. CASE ~(program = "bank" /\ sd' = 0)
    BY <1>9, <1>3, <2>2, <2>4 DEF Socket
  <2> QED
    BY <2>3, <2>4
<1>4. CASE SocketFails
  <2>1. CASE program = "atm"
    BY <1>0, <1>4, <2>1 DEF SocketFails
  <2>2. CASE program # "atm"
    BY <1>9, <1>4, <2>2 DEF SocketFails
  <2> QED
    BY <2>1, <2>2
<1>5. CASE Use
  <2>1. CASE sd # -1 /\ list[1] \in usable
    BY <1>5, <2>1 DEF Use, Return
  <2>2. CASE ~(sd # -1 /\ list[1] \in usable)
    BY <1>5, <2>2 DEF Use
  <2> QED
    BY <2>1, <2>2
<1>6. CASE Close
  <2>1. fds' = start
    BY <1>6 DEF Close
  <2>2. CASE program = "bank" /\ sd \notin fds
    BY <1>6, <2>1, <2>2 DEF Close, Return
  <2>3. CASE ~(program = "bank" /\ sd \notin fds)
    BY <1>0, <1>6, <2>1, <2>3 DEF Close
  <2> QED
    BY <2>2, <2>3
<1>7. CASE UNCHANGED vars
  BY <1>7 DEF vars
<1> QED
  BY <1>1, <1>2, <1>3, <1>4, <1>5, <1>6, <1>7 DEF Next, Terminating

(***************************************************************************)
(* Every way out of both loops, by success, by an error path or behind the *)
(* last entry, has closed what it opened and freed the list once           *)
(* (bank.cpp:40-68, client.cpp:35-52).                                     *)
(***************************************************************************)
THEOREM NothingEverLeaks ==
  ASSUME RoomForOne
  PROVE  Spec => []NothingLeaks
<1>1. Books => NothingLeaks
  BY DEF Books
<1> QED
  BY <1>1, BooksInit, BooksStep, PTL DEF Spec
-----------------------------------------------------------------------------
(***************************************************************************)
(* The type invariant.  That tried stays as short as the list is no matter *)
(* of types: the loop passes an address to the system at most once for     *)
(* each entry, which Rounds counts.                                        *)
(***************************************************************************)
Rounds ==
  /\ pc = "getaddrinfo" => itr = 0 /\ tried = <<>>
  /\ pc \in {"socket", "use", "close"} =>
       /\ itr \in 1 .. Len(list)
       /\ Len(tried) <= IF pc = "close" THEN itr ELSE itr - 1

\* A list is a sequence of at most MaxList addresses.
LEMMA ListsAre == Lists = {s \in Seq(Addresses) : Len(s) <= MaxList}
<1>1. ASSUME NEW s \in Lists PROVE s \in Seq(Addresses) /\ Len(s) <= MaxList
  BY <1>1, DialAssumption DEF Lists, BoundedSeq, SeqOf
<1>2. ASSUME NEW s \in Seq(Addresses), Len(s) <= MaxList PROVE s \in Lists
  <2>1. Len(s) \in 0 .. MaxList /\ s \in [1 .. Len(s) -> Addresses]
    BY <1>2, DialAssumption
  <2> QED
    BY <2>1 DEF Lists, BoundedSeq, SeqOf
<1> QED
  BY <1>1, <1>2

\* The head of a list is an address, and one more try fits while tried is
\* shorter than the list.
LEMMA OneMoreTry ==
  ASSUME NEW l \in Lists, NEW t \in Lists, Len(t) < Len(l)
  PROVE  Append(t, l[1]) \in Lists /\ Len(Append(t, l[1])) = Len(t) + 1
<1>1. l \in Seq(Addresses) /\ t \in Seq(Addresses) /\ Len(l) <= MaxList
  BY ListsAre
<1>2. l[1] \in Addresses
  BY <1>1
<1>3. Append(t, l[1]) \in Seq(Addresses) /\ Len(Append(t, l[1])) = Len(t) + 1
  BY <1>1, <1>2
<1>4. Len(Append(t, l[1])) <= MaxList
  BY <1>1, <1>3, DialAssumption
<1> QED
  BY <1>3, <1>4, ListsAre

(***************************************************************************)
(* For any addresses and any length of the list, whatever calls fail, the  *)
(* variables of make_client() and make_and_bind_sd() keep their types: no  *)
(* list is freed twice, the iterator stays inside the list, and neither    *)
(* loop makes more attempts than the list has entries.                     *)
(***************************************************************************)
THEOREM DialTypeCorrect ==
  ASSUME RoomForOne
  PROVE  Spec => []TypeOK
<1> DEFINE Inv == TypeOK /\ Books /\ Rounds
<1>0. -1 \notin Fds /\ {0, 1, 2} \subseteq Fds
  BY DialAssumption DEF Fds, RoomForOne
<1>1. Init => Inv
  <2>1. <<>> \in Lists
    BY ListsAre, DialAssumption
  <2> QED
    BY <1>0, <2>1, BooksInit, DialAssumption DEF Init, TypeOK, Rounds, Pcs
<1>2. Inv /\ [Next]_vars => Inv'
  <2> SUFFICES ASSUME Inv, [Next]_vars
               PROVE  TypeOK' /\ Rounds'
    BY BooksStep
  <2> USE DEF TypeOK, Rounds, Pcs
  <2>1. list \in Seq(Addresses) /\ Len(list) \in 0 .. MaxList /\ Len(tried) \in Nat
    BY ListsAre, DialAssumption
  <2>2. pc # "done" => freed = 0
    BY DEF Books
  <2>3. ASSUME NextEntry, freed = 0, pc \in {"socket", "close"}, fds' \subseteq Fds,
               sd' \in Fds \cup {-1}, UNCHANGED <<program, usable, list, start, tried>>
        PROVE  TypeOK' /\ Rounds'
    BY <2>1, <2>3, DialAssumption DEF NextEntry, Return
  <2>4. CASE GetaddrinfoFails
    BY <2>4 DEF GetaddrinfoFails, Return
  <2>5. CASE Getaddrinfo
    <3>1. list' \in Seq(Addresses) /\ Len(list') \in 1 .. MaxList /\ Len(tried') = 0
      BY <2>5, ListsAre, DialAssumption, EmptySeq DEF Getaddrinfo
    <3> QED
      BY <2>5, <3>1, DialAssumption DEF Getaddrinfo
  <2>6. CASE Socket
    <3>1. LowestFree \in Fds
      BY <2>6, LowestFreeIsFree DEF Socket, Books
    <3> QED
      BY <2>2, <2>6, <3>1, <2>1 DEF Socket, Return
  <2>7. CASE SocketFails
    BY <2>1, <2>2, <2>3, <2>7 DEF SocketFails
  <2>8. CASE Use
    <3>1. tried' \in Lists /\ Len(tried') <= itr
      BY <2>1, <2>8, OneMoreTry DEF Use
    <3> QED
      BY <2>1, <2>2, <2>8, <3>1 DEF Use, Return
  <2>9. CASE Close
    <3>1. CASE program = "bank" /\ sd \notin fds
      BY <2>1, <2>2, <2>9, <3>1 DEF Close, Return
    <3>2. CASE ~(program = "bank" /\ sd \notin fds)
      BY <2>1, <2>2, <2>3, <2>9, <3>2 DEF Close
    <3> QED
      BY <3>1, <3>2
  <2>10. CASE UNCHANGED vars
    BY <2>10 DEF vars
  <2> QED
    BY <2>4, <2>5, <2>6, <2>7, <2>8, <2>9, <2>10 DEF Next, Terminating
<1>3. Inv => TypeOK
  OBVIOUS
<1> QED
  BY <1>1, <1>2, <1>3, PTL DEF Spec
=============================================================================
