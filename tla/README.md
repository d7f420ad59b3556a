# A TLA+ model of the bank and its ATMs

This directory specifies CryptoProject: a bank process (`bank.cpp`) that keeps up
to 256 accounts in memory, and ATM processes (`client.cpp`) that send it one
order per TCP connection, after a HELLO and a Diffie-Hellman key exchange, under
AES-CBC and an HMAC. The modules are checked with TLC; the theorems in the
`*Proofs` modules are checked with TLAPS.

## Inventory of the system

| component | state | operations | where modelled |
|---|---|---|---|
| ledger (`bank.cpp:159-211`) | `static uint64_t safe[UCHAR_MAX]` | deposit, withdraw, balance, bad format | `Bank`, `Accounts` |
| bank process (`bank.cpp:71-275`) | the connection served, stage (hello, keyex, bank), `gtimeout`, the alarm, session keys | accept, `try_recv`, the SIGALRM handler, `hello`, `keyex`, `bank`, shutdown and close, exit | `Session` |
| ATM process (`client.cpp:55-332`) | the connection, stage, `all_keys` (kept from one order to the next) | prompt, connect, `estab_con`, request, reply, exit | `Session`; the prompts and the display in `AtmInput`, `OrderPath` |
| socket setup (`bank.cpp:25-69`, `client.cpp:19-53`) | descriptors, the address list, its iterator | `make_and_bind_sd`, `make_client` | `Dial` |
| key exchange (`KeyGeneration.cpp`, `ssh.hpp:44-108`, `ssh.cpp:25-70`) | key halves, primes and private exponents as decimal strings, the two `Keys` | constructors and `genKeys` of `ClientDiffieKeys` and `ServerDiffieKeys` | `KeyExchange` |
| RSA (`RSA/`) | d, N of the owner and e2, N2 of the other side | generate, set, save, load; encrypt, decrypt | `RsaKeys`; encryption in `KeyExchange` |
| key files (`MakeKeys.cpp`, `clientKeys`, `serverKeys`) | two files of five lines | `MakeKeys`, by hand, at any time | `RsaKeys`, `KeyExchange` |
| message codec (`ssh.cpp:72-117`) | none | `SendMsg`, `RecvMsg` | `Envelope`, `OrderPath`; symbolic in `Session` |
| AES-CBC, HMAC, SHA-1 (`aes/`, `hmac/`) | static tables, SHA-1's `holder` | encrypt, decrypt, `create_HMAC`, `fill_key`, `fill_iv` | `Aes`, `Sha1`, `Mac`, `Envelope`; symbolic in `Session`; the refusals of `fill_key` and `fill_iv` in `KeyExchange` |
| string helpers (`util.cpp`) | none | conversions, modular power, random primes | those in use, in `KeyExchange` |

How they interact. Everything between the two programs goes over one TCP
connection per order, as byte strings of fixed lengths (HELLO, 768 bytes, 256
bytes, 56 bytes each way): nothing on the wire says which stage a string belongs
to. Inside the bank the SIGALRM handler shares the flag `gtimeout` with
`try_recv`, and `shutdown()`'s failure is how the death of an ATM reaches `main`.
The bank is single-threaded, so one slow ATM delays all others.

What is hard. A signal that lands before, in or after `recv`; ATMs that stall or
die in any stage, with data still under way; resets, and the SIGPIPE of a send
after one; a reply lost after the balance has changed; the two sides' keys
disagreeing; the three kinds of build (`make both` and `dh*`: NRSA; `atm`, `bank`,
`testatm`, `testbank`: RSA; `raw*`: NENCRYPT) meeting each other; numbers that
lose their leading zeros or exceed a modulus; key files that change or are cut
short under a program that reads them; a tag whose key has no end and whose hash
sees an eighth of its input; account 255; `UINT64_MAX`. PROJECT.json
lists each of these at its line, with the property that watches it or the reason why
none does.

## The modules

* `Accounts` is what the ledger promises: balances are ordinary naturals up to a
  bound, a deposit or a withdrawal moves exactly its amount and is written down
  as a line of the account's statement. No machine arithmetic.
* `Bank` is the array and the switch of `bank()`, in arithmetic modulo
  `UINT64_MAX + 1`. The word behind the array (index `UCHAR_MAX`) belongs to a
  `Neighbour` that may write it at any time. `reported` is a history variable:
  per account, the request last accepted and the balance it was told, the
  account's last `line` in `Accounts`. `ImplementsAccounts` is the refinement.
* `Teller` is what the two programs promise a customer together: an order is
  posted at most once and atomically; who is told an outcome is told the one that
  was posted; who is told of a failure has had nothing posted; only a customer
  whose machine died may not know.
* `Session` composes one bank and several ATMs. Each ATM is at the prompt, before
  a send, in a recv or has exited, in one of three stages; the bank has
  `try_recv` cut at the points a signal can land (`arm`, `enter`, `recv`,
  `disarm`), then `handle` and `shutdown`. A connection has the state its bank-side
  kernel sees (`open`, `fin`, `rst_due`, `rst`, `shut`) and two queues of unread
  packets. `Serve` contains `Bank`'s actions, so the ledger is the same one.
  `order`, `entry`, `receipt` and `fate` are history variables, for `Teller`.
* `RsaKeys` is `MakeKeys`, which draws two key pairs and writes two files, an
  `endl` at a time, and the ATM and the bank that each read one. It has no
  specification of its own.
* `KeyExchange` composes it with one session: both programs load their keys while
  `MakeKeys` may be at work, try them out in HELLO and run the two exchanges,
  computed out: digits as sequences, base `B` and width `W` instead of 10 and 128.
  Powers and the values of strings are recursive functions, so that the sums can
  be reasoned about for every base and width.
* `AtmInput` is what the two prompts of the ATM accept and what they make of it;
  `stoi` and `stol` are external and modelled with their exceptions.
* `Aes`, `Sha1` and `Mac` compute the block cipher, the hash and the tag as the
  code does, which is not as the standards do; `Envelope` is `SendMsg` and `RecvMsg`
  over them. Numbers are sets of bits there (`Words`), so a `uint64_t` or a `long`
  has its full width. The loops of the cipher and the hash are recursive functions, and
  `Add32` combines carries over runs of 1, 2, 4, 8 and 16 bits, so that they can be
  reasoned about.
* `OrderPath` composes these: one order from the keyboard to the bank and its
  answer back to the screen, one action a step, with the two processes' keys, what lies
  in memory behind the keys, and the static words that SHA-1 keeps between hashes.
* `Dial` is the two loops that open a socket.
* `MCBank`, `MCSession`, `MCKeyExchange`, `MCOrderPath` give values to constants; `Dial`
  needs no module for that.
* `SessionInv` is the inductive invariant of `Session`, in parts with a name each.
* The theorems are in `BankProofs`, `DialProofs`, `KeyExchangeProofs`, and in two
  chains. For `Session`: `SessionProofs` (types, and whose turn it is on each
  connection) and `OutcomeProofs` (what is posted, told and closed; from these `Teller`
  and conservation). For `OrderPath`: `MacProofs` (what a tag depends on), `AesProofs`
  (decrypting undoes encrypting) and `OrderPathProofs` (what arrives).

Operators whose comment begins with "Faulty:" are not part of any specification.
Each is a plausible bug in the definition it precedes; putting it in that
definition's place makes TLC report the property that PROJECT.json names beside
it, which shows that the property can fail.

### What the abstraction keeps and drops

A packet is a record of its kind and of the key it was made with; a reader opens
it only with the same key in the same kind of build. A reader that checks MACs
refuses anything else, one that does not (`raw`) takes any message at all. This
treats the MAC as perfect; how far the real one is from that is what
`AcceptedWasSent` of `OrderPath` says. A key-exchange packet carries the key the reader will
derive; what the two sides derive is a pair from `KeyOutcomes`, which has the
pairs where they agree, disagree, or either one refuses (`genKeys` returns -1):
`KeyExchange` says when which happens.

The same goes for what RSA may do to a process. In builds that use it a HELLO may be
refused on either side because the keys do not belong together, and a process may be
aborted: `substr` or `mpz_class` throws, or GMP divides by zero, and nothing catches
that. `BankAborts` ends the bank in `hello()` or in the constructor of
`ServerDiffieKeys`, before it has sent anything; `AtmSendFails`, `AtmRecvHello` and
`AtmRecvKeyex` have the ATM's aborts, which its kernel turns into a close like any other.
`Session` lets each happen whenever it is possible for some keys, `KeyExchange` says for which.

Reads are of whole packets: each packet is sent by one `send`, and `recv` has
`MSG_WAITALL`; a packet shorter than the read leaves the reader waiting, one that
is longer is cut (a connection on which that happens is closed before the rest
matters, since the cut piece is no valid HELLO). `getaddrinfo`, the C library's
buffers and the terminal are left out of `Session`. `SA_RESTART` is not set, so the
signal ends the `recv` it lands in. A dying ATM with unread data causes a reset, as
on Linux; a bank that sends to a closed peer receives one later (`RstArrives`).

`OrderPath` has no connection, signal or death: `estab_con()` succeeds, and every
packet arrives whole; `Session` has the rest. Which keys and memory the two sides
have after `estab_con()` is a constant, `Processes`, and the balance of an `OK` is any
of `Balances`: `Bank` says which. One turn of the prompt loop is modelled; the next
one begins as this one does. In `KeyExchange` the two loads come first and the files
are not read again in the session. A program that finds no file exits (`NoKeyFile`);
one that finds an empty file has the modulus 0, and GMP aborts it (`HelloAborts`).
`hash_string` shifts a `uint32_t` by 128, 96, 64 and 32 places, which C++ leaves open;
the instruction that g++ emits for these builds takes the count modulo 32 and leaves
the word as it is, and so does the model. For sample keys and a sample order the tag
and the packet that the model computes are, byte for byte, those of the compiled code.

## The runs

| run | bounds | what it shows |
|---|---|---|
| `bank` | 2 accounts, 2-bit words | no wrap, told balances stand, `Accounts` implemented |
| `bank_uid255` | with account `UCHAR_MAX` | **violation** of `ReportedStands`: the account lies behind the array |
| `session` | 2 ATMs, 3 connections, backlog 2, kills, every key outcome | the protocol stays in step, never sends into a reset, dies only of a killed ATM (these are NRSA builds), adds up, implements `Teller`; `CleanInv` holds |
| `session_live` | 2 ATMs, 2 connections, backlog 1, kills, every key outcome | every session ends; every ATM that runs is answered |
| `session_faults` | 2 ATMs, 2 connections, any system call may fail, NRSA and RSA builds | the safety that survives: in step, no send into a reset, conservation, true displays; the inductive invariant `SInv` |
| `session_builds` | 9 pairs of builds, 1 ATM, 2 orders of one kind, RSA keys that may not fit | a bank that checks MACs keeps straight accounts with any ATM; a raw bank never gets past HELLO with a raw or dh ATM; what ends a bank is a killed ATM or an abort over RSA, and never the latter between NRSA builds; `SInv` for every pair; an ATM that runs is refused, aborted or served, and left waiting for ever only by a raw bank that gets a plain HELLO |
| `session_preempt` | 1 ATM, the bank may lose the CPU for 3 s | **violation** of `SessionEnds` |
| `keyex` | base 4, width 2, primes 5 and 13, both RSA modes; key files of an earlier run or none, `MakeKeys` run once more at any point | equal keys without RSA, and with RSA where plaintexts fit; keys that do not belong together end the session in HELLO, keys that do never |
| `keyex_rsa` | the same with three primes and one set of key files, RSA only | **violation** of `OfferArrives` |
| `order_path` | 11 ids, 16 lines, 8 pairs of processes, 2 balances; ten rounds, 64-bit words, real lengths | what was typed is sent, what was sent is read, and what was not sent is refused or differs in two bytes of the amount; good input is never turned away; the tag is 40 characters long |
| `dial` | lists of up to 3 of 3 addresses, any of them usable, any call failing | one descriptor out, list freed once |
| `dial_tries` | the same | **violation** of `TriesEveryAddress` |

Why the bounds are enough. A session touches one connection, and sessions
interact only through the backlog, the accounts, and the `all_keys` an ATM keeps:
in `session`, two ATMs with a third connection give a queue behind a session, a second order
of one ATM, and two orders on one account whose sum exceeds `UINT64_MAX` (3 in
all these runs; the amounts are 1, 2 and 3, and in `session_builds`, whose question is who
reads whom, 2). Four values of a word suffice for
both guards to be met, missed, and met exactly. In `keyex` the primes are chosen
so that halves with a leading zero occur, and the moduli 91 and 143 (with
exponents 5 and 7) so that two-prime plaintexts lie on both sides of the
modulus, as 256-digit strings do for the real key files, whose moduli begin with
1668 and 3236. The bank's exponent is drawn as 5, which divides its toitent, so the
search for e has to move. One more run of `MakeKeys` gives keys of two runs, a new
file beside an old one, and files cut after any line. HELLO is 46 there: with moduli
of two digits some other number comes back right by accident under keys that do not
belong together, and with the 256 digits of the code that has no chance worth a
state. In `order_path` the lines stand on both sides of every check: 255 and 256,
2^32 + 7, LONG_MAX and LONG_MAX + 1, three characters and four, signs, spaces,
trailing text; an amount with bytes of 128 and more. The pairs of processes agree
with different memory behind the keys, up to the last length the hash cannot see and
one byte beyond it, differ in one of the two keys, have a zero byte inside a key, and
include a build without a tag check on either side; the static words of SHA-1 are
fresh or used. In `dial`, three entries give a first, a middle and a last.
`CHECK_DEADLOCK FALSE` stands in one configuration, `MCSessionBuilds`: there the
system does stop, a raw or dh ATM and a raw bank waiting for each other. That this
pair is the only one in which an ATM is left waiting is `OnlyRawHellosHang`.

Fairness. `BankFairSpec` assumes weak fairness of the bank's steps (it is a
running process whose system calls return) and of the expiry of a timer that was
set. ATMs get none: `SessionEnds` holds though every ATM may stall for ever.
`EveryAtmAnswered`, and `OnlyRawHellosHang` with it, assumes weak fairness of the steps of the one ATM it speaks about; its competitors may still stall. Customers, kills and failing calls are
never fair. `session_preempt` differs only in letting the alarm land before
`recv` is entered.

## What the violations say

* Account 255 is offered by the ATM and lies outside `safe` (`bank.cpp:168`).
* The alarm race (`bank.cpp:79-81`) needs a bank that is off the CPU for
  `TIMEOUT` seconds between two statements; `gtimeout` is not looked at before
  `recv`.
* The RSA builds lose any key-exchange plaintext that is not below the
  receiver's modulus (`RSA.cpp:68-96`). The default target, `make both`, is an
  NRSA build and is not affected.
* `make_client` steps `itr` and connects to `res` (`client.cpp:35-46`);
  `make_and_bind_sd` does the same (`bank.cpp:40-58`).

## The proofs

All are for every value of the constants allowed by the named assumptions, and for
every number of accounts, ATMs and connections. Where a theorem has a hypothesis of
its own, it is said here why it cannot go.

| theorem | states | hypothesis |
|---|---|---|
| `BankTypeCorrect` | `[]BankTypeOK` | none |
| `ReportedIsKept` | `[]ReportedStands` | no account is `UCHAR_MAX` |
| `BankImplementsAccounts` | `ImplementsAccounts` | no account is `UCHAR_MAX` |
| `SessionTypeCorrect` | `[]TypeOK` | none |
| `ProgramsAgree` | `[]SInv`, the inductive invariant of `Session` | none |
| `FailuresAreClean` | `[]CleanInv` | none |
| `SessionsStayInStep` | `[]InStep` | `HellosFit`: no RSA ATM with an NRSA bank |
| `NoSendOnReset` | `[]NeverSendsOnReset` | none |
| `RawBankPostsNothing` | `[]RawHellosNeverMeet` | none |
| `CustomersAreToldTruly` | `[]ToldTruly` | `CiphersMatch`: both sides encrypt or neither |
| `OnlyCrashesEndTheBank` | `[]BankDiesOnlyOfCrash` | no system call fails by itself |
| `SessionImplementsTeller` | `ImplementsTeller` | both of the last two |
| `AccountsAreConserved` | `[]Conservation` | `RawBanksAreSpared`: no RSA ATM with a raw bank |
| `MacsGuardTheAccounts` | `[]MacsGuardAccounts` | none |
| `NothingEverLeaks`, `DialTypeCorrect` | `[]NothingLeaks`, `[]TypeOK` of `Dial` | `RoomForOne`: one more descriptor than stdin, stdout and stderr can be open |
| `PlainKeysAgree` | `[]PlainExchangeAgrees` | none |
| `FreshKeysPassHello` | `[]FreshKeysMeet` | every draw is `Regular`; `HelloFits`; `NoneIsApart` |
| `FreshKeysAgree` | `[](SameRun => FittingExchangeAgrees)` | every draw is `Regular`; `NoneIsApart` |
| `VouchedKeysAgree` | `[]FittingExchangeAgrees` of every behaviour with `[]HelloVouches` | `NoneIsApart` |
| `SameKeySameTag` | `Create_HMAC` does not depend on the words that SHA-1 was left with, nor on the key string beyond 64 characters | one chunk each: key strings of less than 448 characters |
| `FullTags` | every tag has 40 characters | none |
| `DecryptUndoesEncrypt` | `Decrypt(Encrypt(block, key), key) = block`, all blocks | no other than `TablesAssumption`, which TLC evaluates |
| `OrdersAreTyped` | `[]OrderTypeOK` | the same |
| `OrdersArrive` | `[]OrderArrives` | the same |
| `AnswersArrive` | `[]AnswerArrives` | the same |
| `TagsAreFull` | `[]TagIsFull` | the same |
| `OrdersAreSpelled` | `[]SentAsTyped` | none |
| `GoodInputPasses` | `GoodInputAccepted` | none |
| `AcceptedUnlessTagsCollide` | `AcceptedWasSent`, or two texts with one tag (`Collides`) | the assumption about tables |

The ledger. The type invariant is inductive because the two word operations are
reduced modulo `UINT64_MAX + 1`; `ReportedStands` is inductive with it once no account
lies behind the array (the run `bank_uid255` refutes it otherwise). A step of the
switch maps to `Credit`, `Debit` or a stutter of `Accounts`: its guards are what makes
the machine operations equal the ideal ones, in two lemmas about `Add64` and `Sub64`.

The session. `TypeOK` is not inductive: a step of either process indexes by the
connection it holds, so `SessionProofs` adds `Placed`. Everything after that rests on
`SInv` of `SessionInv`, which three runs check as an invariant:

* `Owned` and `LinedUp`: a connection belongs to one ATM, stands in the backlog once,
  and is not served before it is accepted. Without them a step of one ATM could
  disturb another's connection.
* `OnePacket`: at most one packet is under way on a connection, the bank's buffer
  included, and it is the one of the stage the bank is in. A connection that is
  being reset has nothing more for the bank, which is why no send follows a reset.
* `Turns`: ATM and bank alternate on an open connection, stage by stage. This is
  the lockstep that the code relies on and that nothing on the wire states.
* `Posted`: an order is posted when its session ends, and the reply under way is
  the one that was posted.
* `Unheard`: a bank that waits for an encrypted HELLO reads nothing of a plain one.
* `FailsClean` (with `SInv`, while no call fails): an ATM that gives up has had
  nothing posted, and only a killed one resets its connection.

The proof that a step keeps them does not go action by action through all parts. Each
action is first shown to be one of a few forms: it connects, sends, reads and moves
on, gives up, or leaves the wire alone; and for the bank accepts, takes a packet,
replies, goes on, closes or dies (of a reset, a fault of the system, or RSA). Then each part is shown to be kept by each form. A
lemma says that a step which touches one connection keeps `InOrder` and `Turn` of the others.

The hypotheses. The HELLO of an RSA ATM is longer than the one an NRSA bank reads, so
that bank takes ten bytes of it, refuses them and closes: harmless, but the
read is not of what was written, and `InStep` says it always is. The customers of a
build that encrypts and of one that does not cannot read each other's replies, and
then nothing is told. A raw bank takes any message for an order, so with an RSA ATM, whose
HELLO passes, it posts what nobody ordered; `session_builds` has these pairs.
A call that fails by itself can lose a reply after the balance has changed, and a failing
`accept()` or `shutdown()` ends the bank, so `OnlyCrashesEndTheBank` excludes them too. It holds
for any builds because `BankDiesOnlyOfCrash` has both causes: an ATM that was killed, for which
the proof uses `FailsClean` (only then is a connection reset when `shutdown()` meets it), and an
abort in HELLO or the key exchange with a packet in hand, unless both programs are NRSA builds
(`PlainBuilds`). What it leaves out is everything else: timeouts, refusals, key exchanges that
fail, orderly closes, and `bank()` itself.

Conservation. The sum over connections is a fold, about which the library has no
theorem that can be used here. `OutcomeProofs` shows that a function which adds up subsets exists
and is unique, by taking a smallest subset on which two disagree (well-founded
induction over strict subsets, without an operator parameter), and from it what one
more posted order does to the sum. `Books` says that each balance is the sum of what
was posted so far; it is inductive because `Serve` posts what it does to the account.

The key exchange. `PlainKeysAgree` says that without RSA both sides end
with the same keys or both without. The chain: `PowModIs` (the loop that stands for
`mpz_powm` computes the power), `PowAdd` and `PowTimes`, hence `SecretsMeet`,
`(g^a)^b = (g^b)^a` modulo a prime; `DigitsValue`, `FieldIs` and `SplitFields` (a number that is
written in base `B`, padded to `W` places and cut out again is the number); `PrimeIs`
(the prime survives the trip, leading digit and all); then `ExchangeInv`, what each side holds and
what is on the wire at each point of the exchange, as far as what is encrypted comes back. Induction over numbers is
`Induct`, again by a smallest counterexample.

With RSA the chain begins with arithmetic: a common divisor is a combination (`Bezout`), so
what is coprime to the toitent has an inverse and the loop that counts e upwards ends at such a number
(`ExponentOf`; this takes e no greater than the toitent where it starts); Fermat's theorem, by
counting how often a number's powers go round below a prime (`Fermat`); a number that
both primes divide is divided by their product (`TwoPrimes`, which takes that the primes differ);
together `RsaComesBack`, that what is below the modulus comes back. `KeysInv` is the inductive
invariant of the key files: whatever `MakeKeys` was doing when a program read its file,
each file and each key that was read in full belongs to one draw, that of the run
it names; two files of one run therefore fit together (`KeyUndoes`). `PointInv` says for
each point of the exchange that the programs got there with keys read and no modulus missing,
and `TrustAgrees` that between two sides that undo each other whatever fits does come back, which is
what `ExchangeInv` waits for. That the theorems are about states that occur is checked where it can be: TLC evaluates
`HelloFits` and `Regular` of the constants of `keyex` (`MCKeysAreRegular`).

The hypotheses. `Regular` says that the two primes of a key differ and that e starts no
higher than the toitent. The code tests neither: it draws numbers of 128 digits, two
of which are equal by an accident beyond reckoning, and an e of 128 digits is below a toitent of
255. `HelloFits` holds as `HELLO_MSG` has ten digits and a modulus 255 or 256.
`NoneIsApart` keeps the value that stands for "nothing" apart from records. Primes are primes in the
model; `mpz_probab_prime_p` finds probable ones. A HELLO that comes back right by accident under keys
that do not belong together would make `HelloVouches` false, and for that reason
it is a premise of `VouchedKeysAgree`, and a property for TLC to check.

The dial loops. `Books` says what is open and what is freed at each point;
`Rounds` counts the attempts against the entries of the list, which is what keeps the
iterator inside it.

The tag. `MacProofs` goes up through the code: words of 32 bits and their sums stay such
words; the strings of digits that the helpers pass around have the lengths that the next
one counts on; padding makes whole chunks, of which `convert()` reads 64 characters
each. `RunForgets` says that `run_sha` starts from constants whatever `holder` had in it,
and `RunAgrees` that strings which agree in length and in what is read of each chunk hash alike.
From these `KeptAgree`: what `create_HMAC` makes of two key strings of one chunk is, where it
matters, the same as soon as their first 64 characters are. This is why the missing
terminator of `hmac_key` (`hmac.cpp:25`) does no harm until 352 bytes without a zero lie behind the keys.

The cipher. A step of `Backward` undoes the step of `Forward` with the same subkey, whatever
that subkey is, so the key schedule matters only in that both sides have the same (`SubkeysAre`:
blocks). `addRoundKey` adds twice; the rows turn there and back; `Times` is linear in its
first argument (`TimesAdds`: the product bit by bit, then the long division), so that a
byte after both `MixColumns` is a sum of products of single bytes, in which all but one vanish. What is
left is ground fact about tables: that `SBOX_R` undoes `SBOX_F`, and the products with the
pairs of factors. That is `TablesAssumption` of `Aes`, the one place where a proof rests
on a computation: it has no parameter, and TLC evaluates it for all 256 bytes whenever
`order_path` runs. The provers do not compute with such tables.

The order. `OrderPathProofs` shows that CBC decryption undoes encryption, block for
block, that the words of a message survive the trip through bytes (`Ptxt`, `Unsigned`, `Amount`), and
that the receiver's tag is the sender's. `PathInv` is the inductive invariant: while a packet is
under way it is what `SendMsg` made of the order or the answer with some static words
(`Carries`), and what has been received is, if both programs hold the same
keys and compare tags, what was sent.

The keyboard. `SentAsTyped` compares two readings of a line. The code's is a loop, ten times
the number and a digit more, in words; the other one is positional, the sum of the digits times
their powers of ten. Words are sets of bits here and sums combine carries, so the proof
first shows that addition of words of any width is commutative and associative (`CarryStep` to
`AddFour`), that ten times a number is eight times and twice the number, that tables of digits and powers say what
they should, and then, by induction over the length of the numeral, that the loop gives the sum
(`HornerIsSum`). `RunIs`, `NumeralStands` and `StrtolIs` say where in the line the numeral
lies; `CastIs` that the casts lose nothing of what the range checks let through. `PromptInv`
says of each point of the two prompts what has been read. `GoodInputPasses` is the converse: what is
written as the prompt asks has a numeral, no sign, and passes both checks. Both are for lines of any length.

Other keys. Nothing can be proved of the tags of two different texts, which may be equal; the
hash of this code covers an eighth of its input and its key string may repeat.
`AcceptedUnlessTagsCollide` says that this is the only way: whatever the two programs hold, a
receiver that compares tags accepts the type, the account and the upper six bytes that were
sent (the last two bytes of the amount are behind the eight that the hash covers), or else the
text that it decrypts differs from the text that was sent and has the same tag (`Collides`). The
invariant is `AcceptInv`, on top of `PathInv`. For the eight pairs of processes of
`order_path` no tags collide.

Not proved, only model-checked: `HelloVouches`, which is true of the HELLO and the moduli chosen
and not of all, and `AcceptedWasSent` without its exception, for the same kind of reason. Both
would be statements about numbers and hashes that are chosen at random.
Out of the prover's reach and left to TLC for good: `SessionEnds`,
`EveryAtmAnswered` and `OnlyRawHellosHang` (liveness).

## Not modelled

* Code without a caller in the two programs or `MakeKeys`: `convertToASCII`,
  `convertFromASCII`, `calcLCM`, `KeyEncryption.cpp`, `getOtherPublicKeys`,
  `GetSendingSize`, `GetReceivingSize`, `printKeys`, `TestKeyExchange`, and of the
  hash's helpers `circle_shift`, `addBin`, `Bin_to_Dec`, `and_string`, `or_string`,
  `not_string`, `convert_plaintext`.
* Tests and code that is compiled out: the `main` of `RSA.cpp`, `TEST_AES` in
  `aes.cpp`, `poly.cpp` (prints a polynomial for debugging), `hello.cpp`.
* Terminal output, other than which message is displayed with which balance.
* The draw of a random prime: `getRandPrime` is a choice from a set.
* `cbc_encrypt` with a length that is no multiple of a block: no caller has one.

Nothing else in `src/` changes state.

## Plan

1. (done) `Accounts`, `Bank`, `Teller`, `Session`, `KeyExchange`, `Dial`; their
   runs; `BankProofs`, `DialProofs`; type correctness in `SessionProofs`.
2. (done) `RsaKeys`, with HELLO in `KeyExchange`; `AtmInput`, `Aes`, `Sha1`, `Mac`,
   `Envelope`, `OrderPath`.
3. (done) Proofs: the inductive invariant of `Session` and all its safety
   properties, `ImplementsTeller`, conservation, the plain key exchange, `Dial`.
4. (done) Proofs: `OrderPath`'s types, `OrderArrives`, `AnswerArrives` and `TagIsFull`, with the
   cipher and the tag of the code: what a tag depends on, and that decrypting undoes encrypting.
5. (done) Proofs: the RSA key exchange, down to Fermat's theorem; the key files as
   `MakeKeys` writes and the programs read them.
6. (done) Proofs: the two prompts, for lines of any length; what a receiver with other keys may
   accept; the inductive invariants of `Session` as theorems of their own.

What is left: nothing that TLAPS can settle of the properties the runs check. New properties would
begin with what `OrderPath` and `Session` keep apart, the alphabet of the wire of the one and the bytes
of the other.
