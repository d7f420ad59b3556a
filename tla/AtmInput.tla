------------------------------ MODULE AtmInput ------------------------------
(***************************************************************************)
(* What the ATM makes of the two lines a customer types: client.cpp calls  *)
(* stoi() on the first, looks at two characters of the second and calls    *)
(* stol() on the rest.  A line is a sequence of one-character strings; a   *)
(* number is a sign and the word of its magnitude.                         *)
(***************************************************************************)
EXTENDS Words

INT_BITS == 32
LONG_BITS == 64

DIGITS == <<"0", "1", "2", "3", "4", "5", "6", "7", "8", "9">>
IsSpace == {" ", "\t"}
IsDigit == {DIGITS[i] : i \in 1 .. 10}

DigitOf(c) == (CHOOSE i \in 1 .. 10 : DIGITS[i] = c) - 1

\* Words of any width, and their addition: a bit is carried to b if it is made
\* somewhere below and passed on from there.
Carry(x, y, b) == \E i \in x \cap y : i < b /\ \A j \in i + 1 .. b - 1 : j \in x \cup y
Add(x, y) ==
  {b \in x \cup y \cup {c + 1 : c \in x \cup y} : b \in Xor(x, y) <=> ~Carry(x, y, b)}

Shifted(x, n) == {b + n : b \in x}
TenTimes(x) == Add(Shifted(x, 3), Shifted(x, 1))
-----------------------------------------------------------------------------
\* The longest beginning of s made of chars, and what follows it.
Run(s, chars) ==
  SubSeq(s, 1, Min({i \in 1 .. Len(s) + 1 : i = Len(s) + 1 \/ s[i] \notin chars}) - 1)
After(s, chars) == SubSeq(s, Len(Run(s, chars)) + 1, Len(s))

\* strtol: spaces, one sign, digits; what follows is left alone.
Unspaced(s) == After(s, IsSpace)
Signed(s, signs) == Unspaced(s) # <<>> /\ Head(Unspaced(s)) \in signs

Numeral(s) ==
  Run(IF Signed(s, {"-", "+"}) THEN Tail(Unspaced(s)) ELSE Unspaced(s), IsDigit)

Strtol(s) ==
  LET numeral == Numeral(s)
      word[i \in 0 .. Len(numeral)] ==
        IF i = 0 THEN {} ELSE Add(TenTimes(word[i - 1]), Bits(DigitOf(numeral[i])))
  IN  [negative |-> Signed(s, {"-"}), word |-> word[Len(numeral)]]

\* The two exceptions of stoi() and stol().
InvalidArgument(s) == Numeral(s) = <<>>
OutOfRange(s, bits) ==
  LET n == Strtol(s)
  IN  ~(n.word \subseteq 0 .. bits - 2) /\ ~(n.negative /\ n.word = {bits - 1})

LessThanZero(n) == n.negative /\ n.word # {}

\* A cast to an unsigned type: two's complement, then the low bits.
Cast(n, bits) ==
  (IF n.negative THEN Add((0 .. 127) \ n.word, {0}) ELSE n.word) \cap (0 .. bits - 1)
-----------------------------------------------------------------------------
\* The first prompt: 0 to 255.
IdRefused(id) ==
  \/ InvalidArgument(id)
  \/ OutOfRange(id, INT_BITS)
  \/ LessThanZero(Strtol(id))
  \/ ~(Strtol(id).word \subseteq 0 .. 7)

UId(id) == Cast(Strtol(id), 8)

\* The second prompt.
Act == [DEPOSIT |-> "1", WITHDRAW |-> "2", BALANCE |-> "3"]

MovesMoney(message) == message[1] \in {Act.DEPOSIT, Act.WITHDRAW}

Funds(message) == SubSeq(message, 4, Len(message))

\* Faulty: a negative amount passes, and is cast.
FundsRefusedNot(message) ==
  \/ Len(message) < 4
  \/ message[3] # "$"
  \/ InvalidArgument(Funds(message))
  \/ OutOfRange(Funds(message), LONG_BITS)

\* Faulty: one character more.
FundsRefusedShort(message) ==
  \/ Len(message) < 5
  \/ message[3] # "$"
  \/ InvalidArgument(Funds(message))
  \/ OutOfRange(Funds(message), LONG_BITS)
  \/ LessThanZero(Strtol(Funds(message)))

FundsRefused(message) ==
  \/ Len(message) < 4
  \/ message[3] # "$"
  \/ InvalidArgument(Funds(message))
  \/ OutOfRange(Funds(message), LONG_BITS)
  \/ LessThanZero(Strtol(Funds(message)))

IsQuit(message) == message # <<>> /\ message[1] = "q"

Aborted(message) ==
  \/ message = <<>>
  \/ message # <<>> /\ MovesMoney(message) /\ FundsRefused(message)
  \/ message # <<>> /\ ~IsQuit(message) /\ \A type \in DOMAIN Act : message[1] # Act[type]

\* What is sent.
Request(u_id, message) ==
  [type |-> CHOOSE type \in DOMAIN Act : Act[type] = message[1],
   uid |-> u_id,
   amt |-> IF MovesMoney(message) THEN Cast(Strtol(Funds(message)), 64) ELSE {}]
-----------------------------------------------------------------------------
\* What the lines say, read without the code: word is the value of the numeral
\* that s begins with, spaces, a plus sign and the sign of a zero apart.
Power10(k) ==
  LET power[i \in 0 .. k] == IF i = 0 THEN {0} ELSE TenTimes(power[i - 1])
  IN  power[k]

DigitTimes(d, x) ==
  LET part(b) == IF b \in Bits(d) THEN Shifted(x, b) ELSE {}
  IN  Add(Add(part(3), part(2)), Add(part(1), part(0)))

Value(numeral) ==
  LET sum[i \in 0 .. Len(numeral)] ==
        IF i = 0 THEN {}
        ELSE Add(sum[i - 1], DigitTimes(DigitOf(numeral[i]), Power10(Len(numeral) - i)))
  IN  sum[Len(numeral)]

Spells(s, word) ==
  \E first, last \in 1 .. Len(s) :
    /\ first <= last
    /\ \A i \in 1 .. first - 2 : s[i] \in IsSpace
    /\ first > 1 => s[first - 1] \in IsSpace \cup {"+"} \cup (IF word = {} THEN {"-"} ELSE {})
    /\ \A i \in first .. last : s[i] \in IsDigit
    /\ last < Len(s) => s[last + 1] \notin IsDigit
    /\ word = Value(SubSeq(s, first, last))

\* As the prompts ask for them (client.cpp:166, 192-194), the amount within a
\* long.
IsNumeral(s) == s # <<>> /\ \A i \in DOMAIN s : s[i] \in IsDigit
GoodId(id) == IsNumeral(id) /\ Value(id) \subseteq 0 .. 7
GoodLine(message) ==
  \/ message \in {<<Act.BALANCE>>, <<"q">>}
  \/ /\ Len(message) > 3
     /\ MovesMoney(message) /\ message[2] = " " /\ message[3] = "$"
     /\ IsNumeral(Funds(message))
     /\ Value(Funds(message)) \subseteq 0 .. LONG_BITS - 2
=============================================================================
