------------------------------ MODULE MCSerialNo ------------------------------
(* A counter of a few values and more draws than it has: it comes round.      *)
EXTENDS SerialNo
=============================================================================
