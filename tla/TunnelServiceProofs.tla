------------------------- MODULE TunnelServiceProofs -------------------------
(***************************************************************************)
(* What the abstract tunnel guarantees for every set of connections and    *)
(* every amount of data: delivery in order, and no early end.  Tunnel      *)
(* implements the abstract tunnel (TunnelOrderProofs), so that these two   *)
(* properties are its own (NothingTruncated there).                        *)
(***************************************************************************)
EXTENDS TunnelService, SequenceTheorems, TLAPS

Inv == TypeOK /\ InOrder /\ NoTruncation

\* The other side of a side is the other side.
LEMMA OtherSide ==
  \A s \in Sides : Other(s) \in Sides /\ Other(s) # s /\ Other(Other(s)) = s
BY DEF Sides, Other

LEMMA EndsOf == \A s \in Sides, c \in Conns : <<s, c>> \in Ends /\ <<Other(s), c>> \in Ends
BY OtherSide DEF Ends

LEMMA InitInv == Init => Inv
<1> SUFFICES ASSUME Init PROVE Inv
  OBVIOUS
<1>1. \A s \in Sides, c \in Conns :
        sent[<<Other(s), c>>] = 0 /\ got[<<s, c>>] = <<>> /\ shut[<<s, c>>] = FALSE
  BY EndsOf DEF Init
<1>2. TypeOK
  BY DEF Init, TypeOK
<1> QED  BY <1>1, <1>2 DEF Inv, InOrder, NoTruncation

\* An application sends: there is more to come, for one that nobody told the end.
LEMMA SendInv ==
  ASSUME Inv, NEW s \in Sides, NEW c \in Conns, Send(s, c) PROVE Inv'
<1>1. /\ <<s, c>> \in Ends /\ sent' = [sent EXCEPT ![<<s, c>>] = @ + 1]
      /\ ~fin[<<s, c>>] /\ UNCHANGED <<got, fin, shut, cut>>
  BY EndsOf DEF Send
<1>2. TypeOK'
  BY <1>1 DEF Inv, TypeOK
<1>3. ASSUME NEW t \in Sides, NEW d \in Conns
      PROVE  \/ sent'[<<Other(t), d>>] = sent[<<Other(t), d>>]
             \/ Other(t) = s /\ d = c /\ sent'[<<Other(t), d>>] = sent[<<Other(t), d>>] + 1
  BY <1>1, EndsOf DEF Inv, TypeOK
<1>4. InOrder'
  <2> SUFFICES ASSUME NEW t \in Sides, NEW d \in Conns
               PROVE  /\ Len(got[<<t, d>>]) <= sent'[<<Other(t), d>>]
                      /\ \A i \in 1 .. Len(got[<<t, d>>]) : got[<<t, d>>][i] = <<d, i>>
    BY <1>1 DEF InOrder
  <2>1. /\ Len(got[<<t, d>>]) <= sent[<<Other(t), d>>]
        /\ \A i \in 1 .. Len(got[<<t, d>>]) : got[<<t, d>>][i] = <<d, i>>
    BY DEF Inv, InOrder
  <2>2. sent[<<Other(t), d>>] \in Nat /\ Len(got[<<t, d>>]) \in Nat
    BY EndsOf DEF Inv, TypeOK
  <2> QED  BY <1>3, <2>1, <2>2
<1>5. NoTruncation'
  <2> SUFFICES ASSUME NEW t \in Sides, NEW d \in Conns,
                      shut[<<t, d>>], ~fin[<<t, d>>], d \notin cut
               PROVE  fin[<<Other(t), d>>] /\ Len(got[<<t, d>>]) = sent'[<<Other(t), d>>]
    BY <1>1 DEF NoTruncation, Complete
  <2>1. fin[<<Other(t), d>>] /\ Len(got[<<t, d>>]) = sent[<<Other(t), d>>]
    BY DEF Inv, NoTruncation, Complete
  <2> QED  BY <1>1, <1>3, <2>1
<1> QED  BY <1>2, <1>4, <1>5 DEF Inv

\* A piece arrives: the next one, and not after the end.
LEMMA DeliverInv ==
  ASSUME Inv, NEW s \in Sides, NEW c \in Conns, Deliver(s, c) PROVE Inv'
<1> DEFINE new == Append(got[<<s, c>>], <<c, Len(got[<<s, c>>]) + 1>>)
<1>1. /\ <<s, c>> \in Ends /\ got' = [got EXCEPT ![<<s, c>>] = new]
      /\ ~shut[<<s, c>>] /\ Len(got[<<s, c>>]) < sent[<<Other(s), c>>]
      /\ UNCHANGED <<sent, fin, shut, cut>>
  BY EndsOf DEF Deliver
<1>2. got[<<s, c>>] \in Seq(Conns \X Nat) /\ sent[<<Other(s), c>>] \in Nat
  BY EndsOf DEF Inv, TypeOK
<1>3. /\ new \in Seq(Conns \X Nat) /\ Len(new) = Len(got[<<s, c>>]) + 1
      /\ \A i \in 1 .. Len(got[<<s, c>>]) : new[i] = got[<<s, c>>][i]
      /\ new[Len(got[<<s, c>>]) + 1] = <<c, Len(got[<<s, c>>]) + 1>>
  <2>1. <<c, Len(got[<<s, c>>]) + 1>> \in Conns \X Nat
    BY <1>2
  <2> QED  BY <1>2, <2>1, AppendProperties
<1> HIDE DEF new
<1>4. TypeOK'
  BY <1>1, <1>3 DEF Inv, TypeOK
<1>5. ASSUME NEW t \in Sides, NEW d \in Conns
      PROVE  IF t = s /\ d = c THEN got'[<<t, d>>] = new ELSE got'[<<t, d>>] = got[<<t, d>>]
  BY <1>1, EndsOf DEF Inv, TypeOK
<1>6. InOrder'
  <2> SUFFICES ASSUME NEW t \in Sides, NEW d \in Conns
               PROVE  /\ Len(got'[<<t, d>>]) <= sent[<<Other(t), d>>]
                      /\ \A i \in 1 .. Len(got'[<<t, d>>]) : got'[<<t, d>>][i] = <<d, i>>
    BY <1>1 DEF InOrder
  <2>1. /\ Len(got[<<t, d>>]) <= sent[<<Other(t), d>>]
        /\ \A i \in 1 .. Len(got[<<t, d>>]) : got[<<t, d>>][i] = <<d, i>>
    BY DEF Inv, InOrder
  <2>2. CASE t = s /\ d = c
    <3>1. got'[<<t, d>>] = new /\ Len(got[<<s, c>>]) \in Nat
      BY <1>2, <1>5, <2>2
    <3>2. Len(new) <= sent[<<Other(s), c>>]
      BY <1>1, <1>2, <1>3, <3>1
    <3>3. ASSUME NEW i \in 1 .. Len(new) PROVE new[i] = <<c, i>>
      <4>1. CASE i = Len(got[<<s, c>>]) + 1
        BY <1>3, <4>1
      <4>2. CASE i \in 1 .. Len(got[<<s, c>>])
        BY <1>3, <2>1, <2>2, <4>2
      <4> QED  BY <1>3, <3>1, <4>1, <4>2
    <3> QED  BY <2>2, <3>1, <3>2, <3>3
  <2>3. CASE ~(t = s /\ d = c)
    BY <1>5, <2>1, <2>3
  <2> QED  BY <2>2, <2>3
<1>7. NoTruncation'
  <2> SUFFICES ASSUME NEW t \in Sides, NEW d \in Conns,
                      shut[<<t, d>>], ~fin[<<t, d>>], d \notin cut
               PROVE  fin[<<Other(t), d>>] /\ Len(got'[<<t, d>>]) = sent[<<Other(t), d>>]
    BY <1>1 DEF NoTruncation, Complete
  <2> QED  BY <1>1, <1>5 DEF Inv, NoTruncation, Complete
<1> QED  BY <1>4, <1>6, <1>7 DEF Inv

\* Closing, by an application or by the tunnel, and cutting.
LEMMA EndInv ==
  ASSUME Inv,
         \/ \E s \in Sides, c \in Conns : Close(s, c) \/ Shut(s, c)
         \/ \E C \in SUBSET Conns : Cut(C)
  PROVE  Inv'
<1>1. UNCHANGED <<sent, got>>
  BY DEF Close, Shut, Cut
<1>2. TypeOK'
  BY DEF Inv, TypeOK, Close, Shut, Cut
<1>3. InOrder'
  BY <1>1 DEF Inv, InOrder
<1>4. NoTruncation'
  <2>1. ASSUME NEW s \in Sides, NEW c \in Conns, Close(s, c) PROVE NoTruncation'
    <3>1. \A t \in Sides, d \in Conns : fin[<<t, d>>] => fin'[<<t, d>>]
      BY <2>1, EndsOf DEF Close, Inv, TypeOK
    <3>2. UNCHANGED <<sent, got, shut, cut>>
      BY <2>1 DEF Close
    <3> QED  BY <3>1, <3>2, OtherSide DEF Inv, NoTruncation, Complete
  <2>2. ASSUME NEW s \in Sides, NEW c \in Conns, Shut(s, c) PROVE NoTruncation'
    <3>1. \A t \in Sides, d \in Conns : shut'[<<t, d>>] => shut[<<t, d>>] \/ (t = s /\ d = c)
      BY <2>2, EndsOf DEF Shut, Inv, TypeOK
    <3>2. UNCHANGED <<sent, got, fin, cut>>
      BY <2>2 DEF Shut
    <3>3. c \in cut \/ fin[<<s, c>>] \/ (fin[<<Other(s), c>>] /\ Complete(s, c))
      BY <2>2 DEF Shut
    <3> QED  BY <3>1, <3>2, <3>3 DEF Inv, NoTruncation, Complete
  <2>3. ASSUME NEW C \in SUBSET Conns, Cut(C) PROVE NoTruncation'
    <3>1. UNCHANGED <<sent, got, fin, shut>> /\ cut \subseteq cut'
      BY <2>3 DEF Cut
    <3> QED  BY <3>1 DEF Inv, NoTruncation, Complete
  <2> QED  BY <2>1, <2>2, <2>3
<1> QED  BY <1>2, <1>3, <1>4 DEF Inv

\* What an application receives is a prefix of what was sent to it, and the
\* tunnel never ends a connection on its own account before the rest arrived.
THEOREM Delivery == Spec => [](TypeOK /\ InOrder /\ NoTruncation)
<1>1. Inv /\ [Next]_vars => Inv'
  <2> SUFFICES ASSUME Inv, [Next]_vars PROVE Inv'
    OBVIOUS
  <2>1. CASE Next
    BY <2>1, SendInv, DeliverInv, EndInv DEF Next
  <2>2. CASE UNCHANGED vars
    BY <2>2 DEF vars, Inv, TypeOK, InOrder, NoTruncation, Complete
  <2> QED  BY <2>1, <2>2
<1> QED  BY InitInv, <1>1, PTL DEF Spec, Inv
=============================================================================
