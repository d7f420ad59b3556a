------------------------------ MODULE Envelope ------------------------------
(***************************************************************************)
(* The bytes of an encrypted message: SendMsg and RecvMsg of ssh.cpp over  *)
(* the block cipher of Aes and the tag of Mac.                             *)
(*                                                                         *)
(* A process is a record: keys, what ssh::Keys and the memory behind it    *)
(* hold; raw, whether it is built with -D NENCRYPT; holder, the static     *)
(* words of sha1.cpp, left as the last hash left them.                     *)
(***************************************************************************)
EXTENDS Aes, Mac

MSG_LEN == 10
AES_BUF_LEN == MSG_LEN + BLOCK_BYTES - (MSG_LEN % BLOCK_BYTES)

MsgTypes == <<"DEPOSIT", "WITHDRAW", "BALANCE", "OK", "BAD_FORMAT",
              "TOO_MUCH_BANK", "NOT_ENOUGH_DOUGH">>
INVALID == 7
-----------------------------------------------------------------------------
\* struct Keys and what is behind it, and a program that holds them.
Keyring == [hmac_key : [1 .. byte_length -> Byte], aes_key : Blocks, aes_iv : Blocks,
            behind : Seq(Byte)]
Programs == [keys : Keyring, raw : BOOLEAN, holder : Hash]

\* fill_key and fill_iv: the first bytes of the exported number; with fewer
\* the exchange has failed.
Fill(bytes) == SubSeq(bytes, 1, BLOCK_BYTES)

\* ssh::genKeys.  behind is what follows in memory, up to the first zero.
GenKeys(hmac_shared, aes_key, aes_iv, behind) ==
  [hmac_key |-> SubSeq(hmac_shared, 1, byte_length),
   aes_key |-> Fill(aes_key), aes_iv |-> Fill(aes_iv), behind |-> behind]

\* std::string(keys.hmac_key), which has no terminating zero of its own.
KeyString(keys) ==
  LET memory == keys.hmac_key \o keys.aes_key \o keys.aes_iv \o keys.behind \o <<{}>>
  IN  SubSeq(memory, 1, Min({i \in DOMAIN memory : memory[i] = {}}) - 1)
-----------------------------------------------------------------------------
XorBlocks(x, y) == Tuple([n \in 1 .. BLOCK_BYTES |-> Xor(x[n], y[n])])

Block(text, i) == SubSeq(text, BLOCK_BYTES * (i - 1) + 1, BLOCK_BYTES * i)

Cbc_encrypt(ptxt, keys) ==
  LET cipher[i \in 0 .. Len(ptxt) \div BLOCK_BYTES] ==
        IF i = 0 THEN keys.aes_iv
        ELSE Encrypt(XorBlocks(Block(ptxt, i), cipher[i - 1]), keys.aes_key)
  IN  FlattenSeq([i \in 1 .. Len(ptxt) \div BLOCK_BYTES |-> cipher[i]])

Cbc_decrypt(ctxt, keys) ==
  LET previous(i) == IF i = 1 THEN keys.aes_iv ELSE Block(ctxt, i - 1)
  IN  FlattenSeq([i \in 1 .. Len(ctxt) \div BLOCK_BYTES |->
        XorBlocks(Decrypt(Block(ctxt, i), keys.aes_key), previous(i))])
-----------------------------------------------------------------------------
\* type, uid, the amount with its first byte on top, and zeros.
Ptxt(type, uid, amt) ==
  Tuple([n \in 1 .. AES_BUF_LEN |->
    IF n = 1 THEN Bits(CHOOSE t \in 0 .. INVALID - 1 : At(MsgTypes, t) = type)
    ELSE IF n = 2 THEN uid
    ELSE IF n <= MSG_LEN THEN ByteOf(amt, MSG_LEN - n) ELSE {}])

\* What create_HMAC leaves in holder; the tag is its digits.
TagWords(process, ptxt) == Create_HMAC(process.holder, ptxt, KeyString(process.keys))

\* A process after a tag that left words in holder.
Hashed(process, words) == [process EXCEPT !.holder = words]

\* The packet: the tag comes before the text.
Packet(process, ptxt, words) ==
  [mac |-> Hash_string(words),
   ctxt |-> IF process.raw THEN ptxt ELSE Cbc_encrypt(ptxt, process.keys)]

Sent(process, ptxt, words) ==
  [process |-> Hashed(process, words), msg |-> Packet(process, ptxt, words)]

\* The process after SendMsg, and what it sends.
SendMsg(process, type, uid, amt) ==
  LET ptxt == Ptxt(type, uid, amt) IN Sent(process, ptxt, TagWords(process, ptxt))

\* (unsigned int) of a signed char, which repeats the sign bit.
Unsigned(c) == IF 7 \in c THEN c \cup 8 .. 31 ELSE c

\* Faulty: the type is compared as the signed number it is.
UnknownTypeSigned(c) == 7 \notin c /\ (c \ 0 .. 2 # {} \/ c = 0 .. 2)

UnknownType(c) == Unsigned(c) \ 0 .. 2 # {} \/ c = 0 .. 2

\* Faulty: the cast to unsigned char is missing, and the sign bit spreads.
AmountSigned(ptxt) ==
  LET amt[n \in 2 .. MSG_LEN] ==
        IF n = 2 THEN {}
        ELSE Shl(amt[n - 1], 8, 64) \cup (IF 7 \in ptxt[n] THEN ptxt[n] \cup 8 .. 63 ELSE ptxt[n])
  IN  amt[MSG_LEN]

Amount(ptxt) ==
  LET amt[n \in 2 .. MSG_LEN] ==
        IF n = 2 THEN {} ELSE Shl(amt[n - 1], 8, 64) \cup ptxt[n]
  IN  amt[MSG_LEN]

\* A type byte as the enumeration: above its last value it has no name.
TypeOf(c) == IF Raw(c) < INVALID THEN At(MsgTypes, Raw(c)) ELSE "unnamed"

Refused(error) == [type |-> "INVALID", uid |-> {}, amt |-> {}, error |-> error]

\* Faulty: the tags are not compared.
ReadUnchecked(ptxt, tagFits) ==
  IF UnknownType(ptxt[1]) THEN Refused("type")
  ELSE [type |-> TypeOf(ptxt[1]), uid |-> ptxt[2], amt |-> Amount(ptxt), error |-> "none"]

\* What RecvMsg makes of the plaintext.
Read(ptxt, tagFits) ==
  IF ~tagFits THEN Refused("mac")
  ELSE IF UnknownType(ptxt[1]) THEN Refused("type")
  ELSE [type |-> TypeOf(ptxt[1]), uid |-> ptxt[2], amt |-> Amount(ptxt), error |-> "none"]

Opened(process, ptxt, words, mac) ==
  [process |-> Hashed(process, words), msg |-> Read(ptxt, Hash_string(words) = mac)]

Checked(process, ptxt, mac) == Opened(process, ptxt, TagWords(process, ptxt), mac)

\* The process after RecvMsg, and the message.  A failed comparison computes the
\* tag once more for the log.
RecvMsg(process, msg) ==
  IF process.raw THEN [process |-> process, msg |-> Read(msg.ctxt, TRUE)]
  ELSE Checked(process, Cbc_decrypt(msg.ctxt, process.keys), msg.mac)
=============================================================================
