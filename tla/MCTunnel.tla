------------------------------- MODULE MCTunnel -------------------------------
(* Small sessions for TLC.  The connections are interchangeable: a safety run *)
(* may look at one of them for each permutation.                              *)
EXTENDS Tunnel, TLC

OneEach == [s \in Sides |-> 1]
TwoEach == [s \in Sides |-> 2]
Reply   == [s \in Sides |-> IF s = "client" THEN 1 ELSE 0]
Request == [s \in Sides |-> IF s = "proxy" THEN 1 ELSE 0]
\* The two sides send at most two pieces together, the proxy's at most one of them;
\* in a behaviour with a stop or a failed Accept only the client's sends, at most one.
Short ==
  \A c \in Conns :
    LET client == sent[<<"client", c>>]  proxy == sent[<<"proxy", c>>]
    IN  /\ client + proxy <= 2 /\ proxy <= 1
        /\ stop["client"] \/ stop["proxy"] \/ (~listening /\ ~sessClose["proxy"])
             => client <= 1 /\ proxy = 0

\* One side sends, one piece, and only the other stops reading.
OneWay ==
  \A c \in Conns :
    LET sends(s) == sent[<<s, c>>] > 0 \/ stalled[<<Other(s), c>>]
    IN  ~(sends("proxy") /\ sends("client"))

\* The applications of one connection may stop reading, but do not close; those of the
\* others close, and read on: what a slow one does to the others.
Slow == CHOOSE c \in Conns : TRUE
OneSlow ==
  \A s \in Sides, c \in Conns :
    (fin[<<s, c>>] => c # Slow) /\ (stalled[<<s, c>>] => c = Slow)

Symmetry == Permutations(Conns)
=============================================================================
