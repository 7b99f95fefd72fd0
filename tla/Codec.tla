-------------------------------- MODULE Codec --------------------------------
(***************************************************************************)
(* The ipp messages and their two encodings (ipp/v1, ipp/v2).              *)
(*                                                                         *)
(* A byte is a number below Base, 16-bit fields are two of them.  What     *)
(* travels are cells <<key, byte>>: the key is Clear in version 1, and in  *)
(* version 2 what AES-CBC made of the secret.  Who reads cells of another  *)
(* key reads noise, and nothing in the code tells noise from a message:    *)
(* no version is compared and no text is authenticated, so that it is      *)
(* parsed like any other.  The cipher itself is the standard library's.    *)
(***************************************************************************)
EXTENDS Integers, Sequences

CONSTANTS Base,      \* values of a byte
          Block,     \* AES block size
          Noise(_)   \* the texts of that length that another key may make of cells

ASSUME BaseAssumption  == Base \in Nat /\ Base > 3
ASSUME BlockAssumption == Block \in Nat /\ 0 < Block /\ Block < Base

\* What a cell's first part says of the other: readable, random, or enciphered.
Clear  == <<"clear", "">>
Random == <<"random", "">>

Byte == 0 .. Base - 1
Word == Base * Base

VERSION_V1 == 1
VERSION_V2 == 2
MSG_TYPE_REQ              == 1
MSG_TYPE_CLIENT_HELLO     == 2
MSG_TYPE_PROXY_HELLO      == 3
MSG_TYPE_CONN_CREATE      == 4
MSG_TYPE_CONN_CREATE_DONE == 5
MSG_TYPE_CONN_CLOSE       == 6
MSG_TYPE_CONN_HB          == 7
ATTR_TYPE_BODY   == 1
ATTR_TYPE_PORT   == 2
ATTR_TYPE_CLI_ID == 3
ERROR_CODE_BROWSER_PORT_OCUP == 1
ERROR_CODE_VERSION_NOT_MATCH == 2

Error == [error |-> TRUE]

-----------------------------------------------------------------------------
\* Messages.

newMessage(v, type, cliID, cID, sID, errCode, attrs) ==
  [version |-> v, type |-> type, serialNo |-> sID, cID |-> cID, cliID |-> cliID,
   errorCode |-> errCode, attrs |-> attrs]

\* Attr{AT, AL, AV}: the length is cut to 16 bits.
Attr(type, value) == [type |-> type, length |-> Len(value) % Word, value |-> value]

\* ForConnCreateDone, ForConnClose and ForConnHB: the type and the numbers.
ForConn(v, type, cliID, cID, sID) == newMessage(v, type, cliID, cID, sID, 0, <<>>)
ForConnCreate(v, port, cliID, cID, sID) ==
  newMessage(v, MSG_TYPE_CONN_CREATE, cliID, cID, sID, 0, <<Attr(ATTR_TYPE_PORT, port)>>)
ForClientHelloReq(v, port, sID) ==
  newMessage(v, MSG_TYPE_CLIENT_HELLO, 0, 0, sID, 0, <<Attr(ATTR_TYPE_PORT, port)>>)
ForServerHelloReq(v, cliID, port, sID, errCode) ==
  newMessage(v, MSG_TYPE_PROXY_HELLO, 0, 0, sID, errCode,
             <<Attr(ATTR_TYPE_PORT, port), Attr(ATTR_TYPE_CLI_ID, cliID)>>)
ForReq(v, body, cliID, cID, sID) ==
  newMessage(v, MSG_TYPE_REQ, cliID, cID, sID, 0, <<Attr(ATTR_TYPE_BODY, body)>>)

-----------------------------------------------------------------------------
\* Bytes.

U16(n)   == <<(n \div Base) % Base, n % Base>>
Num16(b) == b[1] * Base + b[2]
U32(n)   == U16(n \div Word) \o U16(n)
Num32(b) == Num16(b) * Word + b[3] * Base + b[4]

\* strconv.FormatInt and ParseInt in base ten.
Digits[n \in Nat] == IF n < 10 THEN <<n>> ELSE Append(Digits[n \div 10], n % 10)
ParseInt(s) ==
  LET upTo[i \in 0 .. Len(s)] == IF i = 0 THEN 0 ELSE 10 * upTo[i - 1] + s[i]
  IN upTo[Len(s)]

AttrBytes(a) == <<a.type>> \o U16(a.length + 3) \o a.value

\* The attributes one after another: last[i] are the last i of them.
AttrsBytes(attrs) ==
  LET last[i \in 0 .. Len(attrs)] ==
        IF i = 0 THEN <<>> ELSE AttrBytes(attrs[Len(attrs) + 1 - i]) \o last[i - 1]
  IN last[Len(attrs)]

\* The fields in the order in which Marshall writes them; version 1 leaves out
\* the error code.
Plain(m) ==
  <<m.version, m.type>> \o U16(m.serialNo) \o U16(m.cID) \o U16(m.cliID)
    \o (IF m.version = VERSION_V2 THEN <<m.errorCode>> ELSE <<>>)
    \o <<Len(m.attrs)>>
    \o AttrsBytes(m.attrs)

HeaderLen(v) == IF v = VERSION_V2 THEN 10 ELSE 9

\* One round of UnMarshall's loop: what is left of the input, and AttrMaps.
ReadAttr(acc) ==
  LET b == acc.rest
      n == (Num16(SubSeq(b, 2, 3)) - 3) % Word
  IN IF ~acc.ok \/ Len(b) < 3 THEN [acc EXCEPT !.ok = FALSE]
     ELSE IF Len(b) < n + 3 THEN [acc EXCEPT !.ok = FALSE]
     ELSE [ok |-> TRUE, rest |-> SubSeq(b, n + 4, Len(b)),
           map |-> [t \in DOMAIN acc.map \cup {b[1]} |->
                      IF t = b[1] THEN SubSeq(b, 4, n + 3) ELSE acc.map[t]]]

\* The loop: after[i] is what i rounds make of b.
ReadAttrs(b, n) ==
  LET after[i \in 0 .. n] ==
        IF i = 0 THEN [ok |-> TRUE, map |-> <<>>, rest |-> b] ELSE ReadAttr(after[i - 1])
  IN after[n]

\* The decoded message: the header, and the attributes by their type.
Parse(v, b) ==
  IF Len(b) < HeaderLen(v) THEN Error
  ELSE LET h   == HeaderLen(v)
           acc == ReadAttrs(SubSeq(b, h + 1, Len(b)), b[h])
       IN IF ~acc.ok THEN Error
          ELSE [version |-> b[1], type |-> b[2], serialNo |-> Num16(SubSeq(b, 3, 4)),
                cID |-> Num16(SubSeq(b, 5, 6)), cliID |-> Num16(SubSeq(b, 7, 8)),
                errorCode |-> IF v = VERSION_V2 THEN b[9] ELSE 0,
                attr |-> acc.map]

-----------------------------------------------------------------------------
\* The cipher of version 2.

PKCS7Padding(p) ==
  LET n == Block - (Len(p) % Block)
  IN p \o [i \in 1 .. n |-> n]

\* The last byte says how much to cut off; more than there is is a panic.
PKCS7UnPadding(p) ==
  IF p[Len(p)] > Len(p) THEN Error ELSE [text |-> SubSeq(p, 1, Len(p) - p[Len(p)])]

Tag(key, b)   == [i \in 1 .. Len(b) |-> <<key, b[i]>>]
Untag(c)      == [i \in 1 .. Len(c) |-> c[i][2]]
HasKey(c, key) == \A i \in 1 .. Len(c) : c[i][1] = key

\* The texts that cells may be taken for by who reads them under a key.  (A torn
\* length may put the reader out of step with the blocks; not told apart here.)
Texts(c, key) == IF HasKey(c, key) THEN {Untag(c)} ELSE Noise(Len(c))

evpBytesToKey(secret) == <<"key", secret>>

\* A random vector of one block, then the enciphered blocks.
AesCBCEncrypt(p, secret) ==
  Tag(Random, [i \in 1 .. Block |-> 0]) \o Tag(evpBytesToKey(secret), PKCS7Padding(p))

\* The possible results.  Too short, not whole blocks, nothing to unpad: the panics
\* that UnMarshall recovers from and turns into an error.
AesCBCDncrypt(c, secret) ==
  LET body == SubSeq(c, Block + 1, Len(c))
  IN IF Len(c) <= Block \/ Len(body) % Block # 0
     THEN {Error}
     ELSE {PKCS7UnPadding(t) : t \in Texts(body, evpBytesToKey(secret))}

\* An endpoint is a version and a secret; version 1 takes no secret.
Marshall(e, m) ==
  IF e.version = VERSION_V1 THEN Tag(Clear, Plain(m)) ELSE AesCBCEncrypt(Plain(m), e.secret)

\* The possible results of an endpoint that is given c.
UnMarshall(e, c) ==
  IF e.version = VERSION_V1
  THEN {Parse(VERSION_V1, t) : t \in Texts(c, Clear)}
  ELSE {IF d = Error THEN Error ELSE Parse(VERSION_V2, d.text) : d \in AesCBCDncrypt(c, e.secret)}
=============================================================================
