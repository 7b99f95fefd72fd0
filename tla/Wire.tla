--------------------------------- MODULE Wire ---------------------------------
(***************************************************************************)
(* One direction of the connection between a client and a proxy: frames of *)
(* a four byte length and a message, written whole by any goroutine, and   *)
(* the receive loop that cuts the byte stream into messages again.         *)
(*                                                                         *)
(* The length is read with one Read, which returns what has arrived; the   *)
(* message is read with io.ReadFull, which waits for all of it.  The two   *)
(* ends may have been given different versions or secrets.                 *)
(***************************************************************************)
EXTENDS Codec

CONSTANTS Endpoints,   \* sides, versions and secrets that the two ends may be given
          Inputs(_),   \* the messages that an endpoint's handlers may send
          Port,        \* the port that the client at the receiving end wants
          MaxSent      \* bound: messages

\* The first value of m's attributes of type t.
Value(m, t) ==
  LET i == CHOOSE j \in DOMAIN m.attrs : m.attrs[j].type = t IN m.attrs[i].value

\* What a handler of endpoint e may send: the fields fit their bytes and no type of
\* attribute comes twice.  A body is one read of 4096 bytes at most, ports and client
\* ids are shorter, so that no attribute's length is cut.
Fits(e, m) ==
  /\ m.version = e.version /\ m.type \in Byte /\ m.errorCode \in Byte
  /\ {m.serialNo, m.cID, m.cliID} \subseteq 0 .. Word - 1
  /\ m.attrs \in Seq([type : Byte, length : 0 .. Word - 1, value : Seq(Byte)])
  /\ Len(m.attrs) \in Byte
  /\ \A i \in DOMAIN m.attrs : m.attrs[i].length = Len(m.attrs[i].value)
  /\ \A i, j \in DOMAIN m.attrs : m.attrs[i].type = m.attrs[j].type => i = j

\* What sayHello answers: the port that was asked for, or an error and no port, and
\* the client id in any case.
Answers(m) ==
  /\ {m.attrs[i].type : i \in DOMAIN m.attrs} = {ATTR_TYPE_PORT, ATTR_TYPE_CLI_ID}
  /\ Value(m, ATTR_TYPE_CLI_ID) # <<>>
  /\ m.errorCode \in {0, ERROR_CODE_BROWSER_PORT_OCUP}
  /\ Value(m, ATTR_TYPE_PORT) = IF m.errorCode = 0 THEN Port ELSE <<>>

\* A mapping names a port: the parser takes an empty one too, but what is answered to
\* that is a refusal and an acceptance alike in version 1.
ASSUME PortAssumption      == Port # <<>>
ASSUME EndpointsAssumption == \A e \in Endpoints : e.version \in {VERSION_V1, VERSION_V2}
ASSUME MaxSentAssumption   == MaxSent \in Nat
ASSUME InputsAssumption    ==
  \A e \in Endpoints : \A m \in Inputs(e) :
    Fits(e, m) /\ (m.type = MSG_TYPE_PROXY_HELLO => Answers(m))

VARIABLES
  tx, rx,   \* side, version and secret of the sender and of the receiver
  sent,     \* the messages written
  stream,   \* the cells written and not yet read
  cut,      \* the connection was lost: nothing is written or added any more
  need,     \* the length of the message to be read, or NoLength
  inbox,    \* the messages handed to a handler
  refused,  \* how many messages did not unmarshal
  torn      \* a Read returned a part of a length

vars == <<tx, rx, sent, stream, cut, need, inbox, refused, torn>>

NoLength == -1
Rest(s, n) == SubSeq(s, n + 1, Len(s))

Init ==
  /\ tx \in Endpoints /\ rx \in Endpoints /\ tx.side # rx.side
  /\ sent = <<>> /\ stream = <<>> /\ cut = FALSE
  /\ need = NoLength /\ inbox = <<>> /\ refused = 0 /\ torn = FALSE

Frame(c) == Tag(Clear, U32(Len(c))) \o c

Write(m) ==
  /\ ~cut /\ Len(sent) < MaxSent
  /\ sent' = Append(sent, m)
  /\ stream' = stream \o Frame(Marshall(tx, m))
  /\ UNCHANGED <<tx, rx, cut, need, inbox, refused, torn>>

\* The connection breaks: some of what is under way is lost.
Cut(n) ==
  /\ ~cut
  /\ cut' = TRUE
  /\ stream' = SubSeq(stream, 1, n)
  /\ UNCHANGED <<tx, rx, sent, need, inbox, refused, torn>>

\* Variant: the length is taken to count its own bytes.
ReadLengthLess(n) ==
  /\ need = NoLength /\ n <= Len(stream)
  /\ need' = Num32(Untag(SubSeq(stream, 1, n)) \o [i \in 1 .. 4 - n |-> 0]) - 4
  /\ stream' = Rest(stream, n)
  /\ torn' = (torn \/ n < 4)
  /\ UNCHANGED <<tx, rx, sent, cut, inbox, refused>>

\* Read(length) returns n bytes; the others of length stay 0.
ReadLength(n) ==
  /\ need = NoLength /\ n <= Len(stream)
  /\ need' = Num32(Untag(SubSeq(stream, 1, n)) \o [i \in 1 .. 4 - n |-> 0])
  /\ stream' = Rest(stream, n)
  /\ torn' = (torn \/ n < 4)
  /\ UNCHANGED <<tx, rx, sent, cut, inbox, refused>>

\* Variant: the message is read with Read as well.
ReadSome ==
  /\ need # NoLength /\ Len(stream) > 0
  /\ need' = NoLength
  /\ LET n == IF need < Len(stream) THEN need ELSE Len(stream)
     IN /\ stream' = Rest(stream, n)
        /\ \E m \in UnMarshall(rx, SubSeq(stream, 1, n)
                                     \o Tag(Clear, [i \in 1 .. need - n |-> 0])) :
             \/ m = Error /\ refused' = refused + 1 /\ UNCHANGED inbox
             \/ m # Error /\ inbox' = Append(inbox, m) /\ UNCHANGED refused
  /\ UNCHANGED <<tx, rx, sent, cut, torn>>

\* io.ReadFull, UnMarshall, and the handler; a message that does not unmarshal
\* is left out.
ReadMessage ==
  /\ need # NoLength /\ need <= Len(stream)
  /\ need' = NoLength
  /\ stream' = Rest(stream, need)
  /\ \E m \in UnMarshall(rx, SubSeq(stream, 1, need)) :
       \/ m = Error /\ refused' = refused + 1 /\ UNCHANGED inbox
       \/ m # Error /\ inbox' = Append(inbox, m) /\ UNCHANGED refused
  /\ UNCHANGED <<tx, rx, sent, cut, torn>>

Next ==
  \/ \E m \in Inputs(tx) : Write(m)
  \/ \E n \in 0 .. Len(stream) : Cut(n)
  \/ \E n \in 1 .. 4 : ReadLength(n)
  \/ ReadMessage

Spec == Init /\ [][Next]_vars

\* Variant: the port is not compared.
AcceptsAnyPort(e, m) ==
  /\ m.errorCode \notin {ERROR_CODE_BROWSER_PORT_OCUP, ERROR_CODE_VERSION_NOT_MATCH}
  /\ m.attr[ATTR_TYPE_CLI_ID] # <<>>
  /\ m.version = e.version

\* What proxyHelloHandler makes of a proxy hello.
Accepts(e, m) ==
  /\ m.errorCode \notin {ERROR_CODE_BROWSER_PORT_OCUP, ERROR_CODE_VERSION_NOT_MATCH}
  /\ m.attr[ATTR_TYPE_CLI_ID] # <<>>
  /\ m.version = e.version
  /\ m.attr[ATTR_TYPE_PORT] = Port

-----------------------------------------------------------------------------
Alike == tx.version = rx.version /\ (tx.version = VERSION_V2 => tx.secret = rx.secret)

TypeOK ==
  /\ tx \in Endpoints /\ rx \in Endpoints
  /\ \A i \in DOMAIN stream : stream[i][2] \in Byte
  /\ need \in 0 .. Word * Word - 1 \cup {NoLength}
  /\ Len(sent) <= MaxSent /\ refused \in Nat
  /\ cut \in BOOLEAN /\ torn \in BOOLEAN

\* m was sent, d was made of it.  Version 1 does not carry the error code.
Same(m, d) ==
  /\ d.version = m.version /\ d.type = m.type /\ d.serialNo = m.serialNo
  /\ d.cID = m.cID /\ d.cliID = m.cliID
  /\ d.errorCode = IF m.version = VERSION_V2 THEN m.errorCode ELSE 0
  /\ DOMAIN d.attr = {m.attrs[j].type : j \in DOMAIN m.attrs}
  /\ \A t \in DOMAIN d.attr : d.attr[t] = Value(m, t)

\* However the stream is cut into segments and wherever it ends: as long as no
\* length was torn, the handlers get a prefix of what was sent, field by field,
\* and all of it once the stream is read.
InStep ==
  Alike /\ ~torn =>
    /\ refused = 0 /\ Len(inbox) <= Len(sent)
    /\ \A i \in DOMAIN inbox : Same(sent[i], inbox[i])
    /\ ~cut /\ stream = <<>> /\ need = NoLength => Len(inbox) = Len(sent)

\* Whatever versions and secrets the ends were given, and whatever noise one makes of
\* the other's messages: a message that is refused, or taken for another, costs
\* the stream nothing but itself.  The receiver stays on the boundaries of the frames.
FramesKept ==
  ~torn =>
    LET taken == Len(inbox) + refused
    IN /\ taken <= Len(sent)
       /\ need # NoLength => taken < Len(sent) /\ need = Len(Marshall(tx, sent[taken + 1]))
       /\ ~cut /\ stream = <<>> /\ need = NoLength => taken = Len(sent)

\* A refusal is understood as one in both versions, though version 1 drops the
\* error code on the way, and an acceptance as an acceptance, with its client id.
VerdictSurvives ==
  Alike /\ ~torn =>
    \A i \in DOMAIN inbox :
      inbox[i].type = MSG_TYPE_PROXY_HELLO =>
        /\ Accepts(rx, inbox[i]) <=> sent[i].errorCode = 0
        /\ ParseInt(inbox[i].attr[ATTR_TYPE_CLI_ID]) = ParseInt(Value(sent[i], ATTR_TYPE_CLI_ID))
=============================================================================
