------------------------------ MODULE MCSession ------------------------------
(* A tick is two and a half seconds: the waits of 5, 5, 10 and 15 seconds are *)
(* 2, 2, 4 and 6 ticks, and a message may take one of them.                   *)
EXTENDS Session

File(ps, r) == [mapping |-> [i \in DOMAIN ps |-> <<ps[i], "x">>], rest |-> r]

TwoPorts == File(<<"a", "b">>, 1)

\* One client, two clients, and an entry without an address.
FewFiles == {File(<<"b">>, 1), TwoPorts, [mapping |-> <<<<"b">>>>, rest |-> 1]}

\* Nothing, or the only port of the first file.
FewAliens == {{}, {"b"}}

\* Edits and failures come while no other program holds the port.  The file with two
\* clients comes by an edit, and then nothing fails.
Short ==
  /\ alien # {} => edits + breaks = 0
  /\ file = TwoPorts => edits = 1 /\ breaks = 0
=============================================================================
