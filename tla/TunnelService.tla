---------------------------- MODULE TunnelService ----------------------------
(***************************************************************************)
(* What the tunnel promises to the two applications of a connection (the   *)
(* browser at the proxy, the forwarded server at the client), whatever     *)
(* messages the two endpoints exchange to keep the promise:                *)
(*   - what one application sends reaches the other one whole, once and in *)
(*     order, up to the point the connection ends;                         *)
(*   - the tunnel ends an application's connection on its own account only *)
(*     when the application left, when the other one left and everything   *)
(*     that one sent is delivered, or when the connection was cut short.   *)
(***************************************************************************)
EXTENDS Naturals, Sequences

CONSTANTS Conns,      \* the connections that browsers make
          MaxChunks   \* bound: MaxChunks[s] pieces of data an application at side s sends

Sides == {"proxy", "client"}

VARIABLES
  sent,   \* sent[<<s, c>>]: how many pieces the application at side s sent
  got,    \* got[<<s, c>>]: what it received; a piece is <<connection, number>>
  fin,    \* fin[<<s, c>>]: it closed its end
  shut,   \* shut[<<s, c>>]: the tunnel closed its end
  cut     \* the connections a failure, a stop or a refused dial cut short

vars == <<sent, got, fin, shut, cut>>

Other(s) == IF s = "proxy" THEN "client" ELSE "proxy"
Ends     == Sides \X Conns

Init ==
  /\ sent = [e \in Ends |-> 0]
  /\ got  = [e \in Ends |-> <<>>]
  /\ fin  = [e \in Ends |-> FALSE]
  /\ shut = [e \in Ends |-> FALSE]
  /\ cut  = {}

Send(s, c) ==
  /\ ~fin[<<s, c>>] /\ sent[<<s, c>>] < MaxChunks[s]
  /\ sent' = [sent EXCEPT ![<<s, c>>] = @ + 1]
  /\ UNCHANGED <<got, fin, shut, cut>>

Deliver(s, c) ==
  /\ ~fin[<<s, c>>] /\ ~shut[<<s, c>>]
  /\ Len(got[<<s, c>>]) < sent[<<Other(s), c>>]
  /\ got' = [got EXCEPT ![<<s, c>>] = Append(@, <<c, Len(@) + 1>>)]
  /\ UNCHANGED <<sent, fin, shut, cut>>

Close(s, c) ==
  /\ fin' = [fin EXCEPT ![<<s, c>>] = TRUE]
  /\ UNCHANGED <<sent, got, shut, cut>>

Cut(C) ==
  /\ cut' = cut \cup C
  /\ UNCHANGED <<sent, got, fin, shut>>

\* All that the other application sent has arrived.
Complete(s, c) == Len(got[<<s, c>>]) = sent[<<Other(s), c>>]

Shut(s, c) ==
  /\ \/ c \in cut
     \/ fin[<<s, c>>]
     \/ fin[<<Other(s), c>>] /\ Complete(s, c)
  /\ shut' = [shut EXCEPT ![<<s, c>>] = TRUE]
  /\ UNCHANGED <<sent, got, fin, cut>>

Next ==
  \/ \E s \in Sides, c \in Conns :
        Send(s, c) \/ Deliver(s, c) \/ Close(s, c) \/ Shut(s, c)
  \/ \E C \in SUBSET Conns : Cut(C)

Spec == Init /\ [][Next]_vars

-----------------------------------------------------------------------------
TypeOK ==
  /\ sent \in [Ends -> Nat]
  /\ got  \in [Ends -> Seq(Conns \X Nat)]
  /\ fin  \in [Ends -> BOOLEAN]
  /\ shut \in [Ends -> BOOLEAN]
  /\ cut \subseteq Conns

\* An application receives a prefix of what the other one sent on the same
\* connection: nothing lost in between, doubled, reordered or from elsewhere.
InOrder ==
  \A s \in Sides, c \in Conns :
    /\ Len(got[<<s, c>>]) <= sent[<<Other(s), c>>]
    /\ \A i \in 1 .. Len(got[<<s, c>>]) : got[<<s, c>>][i] = <<c, i>>

\* An application whose end was closed under it, without having left and
\* without a failure, has received everything there was.
NoTruncation ==
  \A s \in Sides, c \in Conns :
    shut[<<s, c>>] /\ ~fin[<<s, c>>] /\ c \notin cut => fin[<<Other(s), c>>] /\ Complete(s, c)
=============================================================================
