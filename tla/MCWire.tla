-------------------------------- MODULE MCWire --------------------------------
(* Sixteen values of a byte and blocks of four: fields of two bytes, messages *)
(* that fill their last block and messages that do not, an empty port and a   *)
(* client id of two digits.  Every pair of versions and secrets; noise is a   *)
(* message without attributes, one with an attribute, or cannot be unpadded.  *)
EXTENDS Wire

Wanted == <<8, 0>>

Noises(n) == {[i \in 1 .. n |-> b] : b \in {0, 1, 15}}

Ends == [side : {"client", "proxy"}, version : {VERSION_V1}, secret : {"none"}]
          \cup [side : {"client", "proxy"}, version : {VERSION_V2}, secret : {"s", "t"}]

Messages(e) ==
  LET v == e.version
  IN IF e.side = "client"
     THEN {ForClientHelloReq(v, Wanted, 1), ForReq(v, <<5, 0, 5>>, 12, 3, 255),
           ForConn(v, MSG_TYPE_CONN_CREATE_DONE, 12, 200, 3), ForConn(v, MSG_TYPE_CONN_HB, 12, 0, 2)}
     ELSE {ForServerHelloReq(v, Digits[12], Wanted, 1, 0),
           ForServerHelloReq(v, Digits[7], <<>>, 1, ERROR_CODE_BROWSER_PORT_OCUP),
           ForConnCreate(v, Wanted, 12, 3, 4), ForConn(v, MSG_TYPE_CONN_CLOSE, 12, 200, 5)}
=============================================================================
