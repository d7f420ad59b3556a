---------------------------- MODULE MCOrderPath -----------------------------
\* OrderPath with a few lines and a few pairs of keys.
EXTENDS OrderPath

Num(digits) == [i \in DOMAIN digits |-> DIGITS[digits[i] + 1]]

LongMax == Num(<<9, 2, 2, 3, 3, 7, 2, 0, 3, 6, 8, 5, 4, 7, 7, 5, 8, 0, 7>>)
LongMaxPlus1 == Num(<<9, 2, 2, 3, 3, 7, 2, 0, 3, 6, 8, 5, 4, 7, 7, 5, 8, 0, 8>>)

MCIds ==
  {Num(<<2, 5, 5>>), Num(<<0, 0, 7>>), <<" ", "+", "7", "x">>,
   <<>>, <<"x">>, <<" ">>, <<"-", "1">>, <<"+", "-", "7">>, Num(<<2, 5, 6>>),
   Num(<<4, 2, 9, 4, 9, 6, 7, 3, 0, 3>>),     \* 2^32 + 7
   LongMaxPlus1}

MCLines ==
  {<<"3">>, <<"3", "x">>, <<"2", " ", "$", "5">>, <<"1", " ", "$">> \o LongMax,
   <<"1", "x", "$", " ", "9", "9", "9", ".", "5">>, <<"2", " ", "$", "-", "0">>,
   <<>>, <<"q">>, <<"x">>, <<"1">>, <<"1", " ", "$">>, <<"1", " ", "5", "$">>,
   <<"2", " ", "$", "4", "0", "0", "0", "0", "0">>, <<"1", " ", "$", "-", "5">>, <<"1", " ", "$", "$", "5">>,
   <<"2", " ", "$">> \o LongMaxPlus1}

\* The largest balance, and one with the top bit of three of its bytes set.
MCBalances == {0 .. 63, {1, 7, 23, 47}}

Shared(n) == Tuple([i \in 1 .. 128 |-> Bits(48 + ((n * i) % 10))])
Bytes(n) == Tuple([i \in 1 .. 26 |-> Bits(1 + ((n * i) % 255))])

\* A zero inside the AES key ends the key string there.
WithZero(bytes) == [bytes EXCEPT ![3] = {}]

Keys1(behind) == GenKeys(Shared(7), Bytes(37), Bytes(91), behind)
Keys2 == GenKeys(Shared(7), WithZero(Bytes(53)), Bytes(91), <<>>)
OtherAes == GenKeys(Shared(7), Bytes(41), Bytes(18), <<>>)
OtherMac == GenKeys(Shared(3), Bytes(37), Bytes(91), <<>>)

Behind(n) == Tuple([i \in 1 .. n |-> Bits(200)])

\* The words before the first hash, and after some other one.
Fresh == Tuple([i \in 1 .. 5 |-> {}])
Used == Run_sha(Fresh, Shared(3))

Process(keys, raw, holder) == [keys |-> keys, raw |-> raw, holder |-> holder]

MCProcesses ==
  { \* The same keys; what lies behind them differs, up to the length that still
    \* fits one chunk; the bank has served others before.
    [atm |-> Process(Keys1(<<>>), FALSE, Fresh), bank |-> Process(Keys1(Behind(5)), FALSE, Used)],
    [atm |-> Process(Keys1(Behind(351)), FALSE, Fresh), bank |-> Process(Keys1(<<>>), FALSE, Used)],
    [atm |-> Process(Keys2, FALSE, Used), bank |-> Process(Keys2, FALSE, Fresh)],
    \* One byte more.
    [atm |-> Process(Keys1(<<>>), FALSE, Fresh), bank |-> Process(Keys1(Behind(352)), FALSE, Fresh)],
    \* One of the two exchanges has failed.
    [atm |-> Process(Keys1(<<>>), FALSE, Fresh), bank |-> Process(OtherAes, FALSE, Fresh)],
    [atm |-> Process(Keys1(<<>>), FALSE, Fresh), bank |-> Process(OtherMac, FALSE, Fresh)],
    \* A rawbank, and a rawatm that takes part in the exchange with an NRSA bank.
    [atm |-> Process(Keys1(<<>>), FALSE, Fresh), bank |-> Process(Keys1(<<>>), TRUE, Fresh)],
    [atm |-> Process(Keys1(<<>>), TRUE, Fresh), bank |-> Process(OtherAes, FALSE, Fresh)] }
=============================================================================
