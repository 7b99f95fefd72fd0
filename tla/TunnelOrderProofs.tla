-------------------------- MODULE TunnelOrderProofs --------------------------
(***************************************************************************)
(* Data arrives in order, once, and at the right application (InOrder),    *)
(* for any connections, pieces and faults, as long as no number is given   *)
(* twice.                                                                  *)
(*                                                                         *)
(* InOrder is about what has been received; the inductive invariant Order  *)
(* follows every piece on its way.  A reader holds a piece between Read    *)
(* and Write, so that two readers of one end could exchange two pieces:    *)
(* there is one (ReadOnce), since one DONE is sent for a connection.  The  *)
(* REQs in flight continue what was received as long as the application    *)
(* can be reached; once it cannot, or the session is down (Downed), what   *)
(* is lost is the rest (Pieces).  An end becomes reachable only before     *)
(* anything is read for it (Untouched).                                    *)
(*                                                                         *)
(* The second part proves, under the same assumption, that Tunnel          *)
(* implements TunnelService (KeepsPromise).  What remains for it is why an *)
(* end may be closed: the invariant Endings says that without a failure an *)
(* end is closed, and a CLOSE sent, only by one that rests, behind all its *)
(* data.                                                                   *)
(***************************************************************************)
EXTENDS TunnelProofs

\* A REQ of connection c and a DONE under c's number in flight; the client's
\* receiver about to write the DONE of c.
Carries(s, i, c) == chan[s][i].type = "REQ" /\ chan[s][i].conn = c
Finishes(i, c)   == chan["client"][i].type = "DONE" /\ chan["client"][i].cid = cid[c]
Finishing(c)     == recv["client"].pc = "done" /\ recv["client"].conn = c

\* Each end of a connection gets one reader: the client's when it dials, the
\* proxy's by the one DONE.
ReadOnce ==
  /\ \A s \in Sides, c \in Conns : readers[<<s, c>>] <= 1
  /\ \A i \in 1 .. Len(chan["client"]), c \in Conns : Finishes(i, c) =>
       /\ trigger[<<"client", c>>] # "none" /\ ~Finishing(c) /\ readers[<<"proxy", c>>] = 0
       /\ \A j \in 1 .. Len(chan["client"]) : Finishes(j, c) => j = i
  /\ \A c \in Conns : Finishing(c) =>
       trigger[<<"client", c>>] # "none" /\ readers[<<"proxy", c>>] = 0
  /\ \A i \in 1 .. Len(chan["client"]) :
       chan["client"][i].type = "DONE" => chan["client"][i].cid <= seq

\* Nothing is read or sent before the client has armed its close trigger.
Untouched ==
  \A c \in Conns : trigger[<<"client", c>>] = "none" =>
    \A s \in Sides :
      /\ readers[<<s, c>>] = 0 /\ taken[<<s, c>>] = 0
      /\ \A i \in 1 .. Len(chan[s]) : ~Carries(s, i, c)

\* A close signal of the session is given only when it is down.
Downed == \A s \in Sides : sessClose[s] => ~Up

\* The receiver of t has looked c up, and is writing to its application.
WritesTo(t, c) == recv[t].pc = "write" /\ recv[t].conn = c

\* A piece that arrives at side t reaches c's application.
Reaches(t, c) ==
  sock[<<t, c>>] = "open" /\ ~fin[<<t, c>>] /\ (bind[<<t, cid[c]>>] = c \/ WritesTo(t, c))

\* How many pieces the readers have passed on; the last one taken may be held.
Passed(s, c) == IF held[<<s, c>>] = {} THEN taken[<<s, c>>] ELSE taken[<<s, c>>] - 1

\* The pieces of c from side s: each REQ continues the one before it, the first
\* one what was received, and the last one is the last that was passed on.
Pieces(s, c) ==
  LET g == Len(got[<<Other(s), c>>]) IN
  /\ taken[<<s, c>>] <= sent[<<s, c>>] /\ held[<<s, c>>] \subseteq {taken[<<s, c>>]} \ {0}
  /\ g <= Passed(s, c) /\ \A i \in 1 .. g : got[<<Other(s), c>>][i] = <<c, i>>
  /\ \A i \in 1 .. Len(chan[s]) : Carries(s, i, c) =>
       /\ chan[s][i].chunk \in 1 .. Passed(s, c) /\ chan[s][i].cid = cid[c]
       /\ \A j \in 1 .. i - 1 : Carries(s, j, c) => chan[s][j].chunk < chan[s][i].chunk
  /\ Reaches(Other(s), c) =>
       /\ \A i \in 1 .. Len(chan[s]) : Carries(s, i, c) =>
            /\ chan[s][i].chunk > g
            /\ \/ chan[s][i].chunk = g + 1
               \/ \E j \in 1 .. i - 1 : Carries(s, j, c) /\ chan[s][j].chunk + 1 = chan[s][i].chunk
       /\ Up => \/ Passed(s, c) = g
                \/ \E i \in 1 .. Len(chan[s]) :
                     Carries(s, i, c) /\ chan[s][i].chunk = Passed(s, c)

Order == /\ ReadOnce /\ Untouched /\ Downed
         /\ \A s \in Sides, c \in Conns : Pieces(s, c)

-----------------------------------------------------------------------------
\* The pieces in flight are the same, d places further on.
Kept(s, d, c) ==
  /\ \A i \in 1 .. Len(chan'[s]) : Carries(s, i, c)' =>
       i + d \in 1 .. Len(chan[s]) /\ Carries(s, i + d, c) /\ chan'[s][i] = chan[s][i + d]
  /\ \A i \in 1 .. Len(chan[s]) : Carries(s, i, c) =>
       i - d \in 1 .. Len(chan'[s]) /\ Carries(s, i - d, c)'

\* So are the DONEs.
KeptDone(d) ==
  \A i \in 1 .. Len(chan'["client"]) : chan'["client"][i].type = "DONE" =>
    i + d \in 1 .. Len(chan["client"]) /\ chan'["client"][i] = chan["client"][i + d]

\* The types that the steps below need.
LEMMA Typed ==
  ASSUME Inv, NEW s \in Sides, NEW c \in Conns
  PROVE  /\ Other(s) \in Sides /\ Other(s) # s /\ Other(Other(s)) = s
         /\ <<s, c>> \in Ends /\ <<Other(s), c>> \in Ends
         /\ chan[s] \in Seq(Message) /\ Len(chan[s]) \in Nat
         /\ taken[<<s, c>>] \in Nat /\ sent[<<s, c>>] \in Nat /\ readers[<<s, c>>] \in Nat
         /\ got[<<Other(s), c>>] \in Seq(Conns \X Nat) /\ Len(got[<<Other(s), c>>]) \in Nat
<1>1. Other(s) \in Sides /\ Other(s) # s /\ Other(Other(s)) = s
  BY DEF Other, Sides
<1>2. <<s, c>> \in Ends /\ <<Other(s), c>> \in Ends
  BY <1>1 DEF Ends
<1>3. chan[s] \in Seq(Message)
  BY DEF Inv, TypeOK, Message
<1>4. got[<<Other(s), c>>] \in Seq(Conns \X Nat)
  BY <1>2 DEF Inv, TypeOK
<1>5. taken[<<s, c>>] \in Nat /\ sent[<<s, c>>] \in Nat /\ readers[<<s, c>>] \in Nat
  BY <1>2 DEF Inv, TypeOK
<1> QED  BY <1>1, <1>2, <1>3, <1>4, <1>5

\* A step that passes on, delivers and loses no piece of an end.
LEMMA PiecesCalm ==
  ASSUME Inv, NEW s \in Sides, NEW c \in Conns, NEW d \in {0, 1}, Pieces(s, c), Kept(s, d, c),
         cid'[c] = cid[c], taken'[<<s, c>>] = taken[<<s, c>>], held'[<<s, c>>] = held[<<s, c>>],
         got'[<<Other(s), c>>] = got[<<Other(s), c>>], sent'[<<s, c>>] >= sent[<<s, c>>],
         sent'[<<s, c>>] \in Nat,
         Reaches(Other(s), c)' => Reaches(Other(s), c), Up' => Up
  PROVE  Pieces(s, c)'
<1> DEFINE g == Len(got[<<Other(s), c>>])
<1>0. /\ Len(chan[s]) \in Nat /\ taken[<<s, c>>] \in Nat /\ sent[<<s, c>>] \in Nat /\ g \in Nat
      /\ Passed(s, c)' = Passed(s, c) /\ Passed(s, c) \in Int
  BY Typed DEF Passed
<1>1. ASSUME NEW i \in 1 .. Len(chan'[s]), Carries(s, i, c)'
      PROVE  /\ chan'[s][i].chunk \in 1 .. Passed(s, c) /\ chan'[s][i].cid = cid[c]
             /\ \A j \in 1 .. i - 1 : Carries(s, j, c)' => chan'[s][j].chunk < chan'[s][i].chunk
  <2>1. /\ i + d \in 1 .. Len(chan[s]) /\ Carries(s, i + d, c) /\ chan'[s][i] = chan[s][i + d]
        /\ chan[s][i + d].chunk \in 1 .. Passed(s, c) /\ chan[s][i + d].cid = cid[c]
        /\ \A j \in 1 .. (i + d) - 1 : Carries(s, j, c) => chan[s][j].chunk < chan[s][i + d].chunk
    BY <1>1 DEF Kept, Pieces
  <2>2. ASSUME NEW j \in 1 .. i - 1, Carries(s, j, c)'
        PROVE  chan'[s][j].chunk < chan'[s][i].chunk
    <3>1. j \in 1 .. Len(chan'[s]) /\ j + d \in 1 .. (i + d) - 1
      BY <1>1
    <3>2. Carries(s, j + d, c) /\ chan'[s][j] = chan[s][j + d]
      BY <2>2, <3>1 DEF Kept
    <3> QED  BY <2>1, <3>1, <3>2
  <2> QED  BY <2>1, <2>2
<1>2. ASSUME Reaches(Other(s), c)', NEW i \in 1 .. Len(chan'[s]), Carries(s, i, c)'
      PROVE  /\ chan'[s][i].chunk > g
             /\ \/ chan'[s][i].chunk = g + 1
                \/ \E j \in 1 .. i - 1 : Carries(s, j, c)' /\ chan'[s][j].chunk + 1 = chan'[s][i].chunk
  <2>1. /\ i + d \in 1 .. Len(chan[s]) /\ Carries(s, i + d, c) /\ chan'[s][i] = chan[s][i + d]
        /\ chan[s][i + d].chunk > g
        /\ \/ chan[s][i + d].chunk = g + 1
           \/ \E j \in 1 .. (i + d) - 1 :
                Carries(s, j, c) /\ chan[s][j].chunk + 1 = chan[s][i + d].chunk
    BY <1>2 DEF Kept, Pieces
  <2>2. CASE \E j \in 1 .. (i + d) - 1 :
               Carries(s, j, c) /\ chan[s][j].chunk + 1 = chan[s][i + d].chunk
    <3>1. PICK j \in 1 .. (i + d) - 1 :
               Carries(s, j, c) /\ chan[s][j].chunk + 1 = chan[s][i + d].chunk
      BY <2>2
    <3>2. j \in 1 .. Len(chan[s])
      BY <1>0, <2>1, <3>1
    <3>3. j - d \in 1 .. Len(chan'[s]) /\ Carries(s, j - d, c)'
      BY <3>1, <3>2 DEF Kept
    <3>4. chan'[s][j - d] = chan[s][(j - d) + d] /\ (j - d) + d = j
      BY <3>3 DEF Kept
    <3>5. j - d \in 1 .. i - 1
      BY <3>1, <3>3
    <3> QED  BY <2>1, <3>1, <3>3, <3>4, <3>5
  <2> QED  BY <2>1, <2>2
<1>3. ASSUME Reaches(Other(s), c)', Up'
      PROVE  \/ Passed(s, c) = g
             \/ \E i \in 1 .. Len(chan'[s]) : Carries(s, i, c)' /\ chan'[s][i].chunk = Passed(s, c)
  <2>1. \/ Passed(s, c) = g
        \/ \E i \in 1 .. Len(chan[s]) : Carries(s, i, c) /\ chan[s][i].chunk = Passed(s, c)
    BY <1>3 DEF Pieces
  <2>2. ASSUME NEW i \in 1 .. Len(chan[s]), Carries(s, i, c)
        PROVE  /\ i - d \in 1 .. Len(chan'[s]) /\ Carries(s, i - d, c)'
               /\ chan'[s][i - d] = chan[s][i]
    <3>1. i - d \in 1 .. Len(chan'[s]) /\ Carries(s, i - d, c)'
      BY <2>2 DEF Kept
    <3>2. chan'[s][i - d] = chan[s][(i - d) + d] /\ (i - d) + d = i
      BY <3>1 DEF Kept
    <3> QED  BY <3>1, <3>2
  <2> QED  BY <2>1, <2>2
<1>4. /\ g <= Passed(s, c) /\ \A i \in 1 .. g : got[<<Other(s), c>>][i] = <<c, i>>
      /\ taken[<<s, c>>] <= sent[<<s, c>>] /\ held[<<s, c>>] \subseteq {taken[<<s, c>>]} \ {0}
  BY DEF Pieces
<1>5. taken'[<<s, c>>] <= sent'[<<s, c>>] /\ held'[<<s, c>>] \subseteq {taken'[<<s, c>>]} \ {0}
  <2>1. \A x, y, z \in Nat : x <= y /\ z >= y => x <= z
    OBVIOUS
  <2>2. taken[<<s, c>>] <= sent'[<<s, c>>]
    BY <1>0, <1>4, <2>1
  <2> QED  BY <1>4, <2>2
<1> QED  BY <1>0, <1>1, <1>2, <1>3, <1>4, <1>5 DEF Pieces

\* The channels as they are, with a message more, or with one less.
LEMMA SameKept ==
  ASSUME Inv, chan' = chan
  PROVE  KeptDone(0) /\ \A s \in Sides, c \in Conns : Kept(s, 0, c)
<1>1. \A s \in Sides : \A i \in 1 .. Len(chan[s]) : i + 0 = i /\ i - 0 = i
  OBVIOUS
<1>2. "client" \in Sides
  BY DEF Sides
<1>3. KeptDone(0)
  BY <1>1, <1>2 DEF KeptDone
<1>4. ASSUME NEW s \in Sides, NEW c \in Conns PROVE Kept(s, 0, c)
  BY <1>1 DEF Kept, Carries
<1> QED  BY <1>3, <1>4

\* What is written comes behind the messages in flight.
LEMMA WriteKept ==
  ASSUME Inv, NEW t \in Sides, NEW m \in Message, Write(t, m)
  PROVE  /\ \A s \in Sides, c \in Conns :
              m.type # "REQ" \/ m.conn # c \/ s # t => Kept(s, 0, c)
         /\ m.type # "DONE" => KeptDone(0)
<1>1. chan' = chan \/ chan' = [chan EXCEPT ![t] = Append(@, m)]
  BY DEF Write, Written, WriteFails
<1>2. CASE chan' = chan
  BY <1>2, SameKept
<1>3. CASE chan' = [chan EXCEPT ![t] = Append(@, m)]
  <2>1. ASSUME NEW s \in Sides
        PROVE  /\ Len(chan[s]) \in Nat /\ Len(chan'[s]) >= Len(chan[s]) /\ Len(chan'[s]) \in Nat
               /\ \A i \in 1 .. Len(chan[s]) : chan'[s][i] = chan[s][i]
               /\ \A i \in 1 .. Len(chan'[s]) :
                    i \in 1 .. Len(chan[s]) \/ (s = t /\ chan'[s][i] = m)
    <3>1. chan \in [Sides -> Seq(Message)]
      BY DEF Inv, TypeOK, Message
    <3>2. CASE s = t
      <4>1. chan'[s] = Append(chan[s], m) /\ chan[s] \in Seq(Message)
        BY <1>3, <3>1, <3>2
      <4> QED  BY <3>2, <4>1
    <3>3. CASE s # t
      <4>1. chan'[s] = chan[s] /\ chan[s] \in Seq(Message)
        BY <1>3, <3>1, <3>3
      <4>2. Len(chan[s]) \in Nat
        BY <4>1
      <4> QED  BY <3>3, <4>1, <4>2
    <3> QED  BY <3>2, <3>3
  <2>2. ASSUME NEW s \in Sides, NEW c \in Conns,
               m.type # "REQ" \/ m.conn # c \/ s # t
        PROVE  Kept(s, 0, c)
    <3>1. ASSUME NEW i \in 1 .. Len(chan'[s]), Carries(s, i, c)'
          PROVE  i + 0 \in 1 .. Len(chan[s]) /\ Carries(s, i + 0, c) /\ chan'[s][i] = chan[s][i + 0]
      <4>1. i \in 1 .. Len(chan[s]) /\ chan'[s][i] = chan[s][i] /\ i + 0 = i
        BY <2>1, <2>2, <3>1 DEF Carries
      <4> QED  BY <3>1, <4>1 DEF Carries
    <3>2. ASSUME NEW i \in 1 .. Len(chan[s]), Carries(s, i, c)
          PROVE  i - 0 \in 1 .. Len(chan'[s]) /\ Carries(s, i - 0, c)'
      <4>1. i - 0 = i /\ i \in 1 .. Len(chan'[s]) /\ chan'[s][i] = chan[s][i]
        BY <2>1
      <4> QED  BY <3>2, <4>1 DEF Carries
    <3> QED  BY <3>1, <3>2 DEF Kept
  <2>3. ASSUME m.type # "DONE" PROVE KeptDone(0)
    <3> SUFFICES ASSUME NEW i \in 1 .. Len(chan'["client"]), chan'["client"][i].type = "DONE"
                 PROVE  i + 0 \in 1 .. Len(chan["client"]) /\ chan'["client"][i] = chan["client"][i + 0]
      BY DEF KeptDone
    <3>1. "client" \in Sides /\ i + 0 = i
      BY DEF Sides
    <3> QED  BY <2>1, <2>3, <3>1
  <2> QED  BY <2>2, <2>3
<1> QED  BY <1>1, <1>2, <1>3

\* A message that is read is gone, and the others are one place further on.
LEMMA HeadGone ==
  ASSUME Inv, NEW t \in Sides, NEW x, chan[Other(t)] # <<>>, In(t).type = x, Consume(t)
  PROVE  /\ \E d \in {0, 1} : KeptDone(d)
         /\ \A c \in Conns : Kept(t, 0, c)
         /\ \A c \in Conns : x # "REQ" \/ In(t).conn # c => Kept(Other(t), 1, c)
<1> DEFINE o == Other(t)
<1>1. /\ o \in Sides /\ o # t /\ \A s \in Sides : s = t \/ s = o
      /\ chan \in [Sides -> Seq(Message)]
  BY DEF Other, Sides, Inv, TypeOK, Message
<1>2. /\ chan[o] \in Seq(Message) /\ chan[o] # <<>> /\ Head(chan[o]).type = x
      /\ chan' = [chan EXCEPT ![o] = Tail(@)] /\ In(t) = Head(chan[o])
  BY <1>1 DEF Consume, In
<1> HIDE DEF o
<1>3. /\ Head(chan[o]) = chan[o][1] /\ Len(chan[o]) \in Nat
      /\ Len(Tail(chan[o])) = Len(chan[o]) - 1
      /\ \A i \in 1 .. Len(Tail(chan[o])) : Tail(chan[o])[i] = chan[o][i + 1]
  BY <1>2
<1>4. chan'[o] = Tail(chan[o]) /\ chan'[t] = chan[t]
  BY <1>1, <1>2
<1>5. \A c \in Conns : Kept(t, 0, c)
  <2>1. \A i \in 1 .. Len(chan[t]) : i + 0 = i /\ i - 0 = i
    OBVIOUS
  <2> QED  BY <1>4, <2>1 DEF Kept, Carries
<1>6. ASSUME NEW c \in Conns, x # "REQ" \/ In(t).conn # c PROVE Kept(o, 1, c)
  <2>1. ~Carries(o, 1, c)
    BY <1>2, <1>3, <1>6 DEF Carries
  <2>2. ASSUME NEW i \in 1 .. Len(chan'[o])
        PROVE  i + 1 \in 1 .. Len(chan[o]) /\ chan'[o][i] = chan[o][i + 1]
    BY <1>3, <1>4
  <2>3. ASSUME NEW i \in 1 .. Len(chan[o]), Carries(o, i, c)
        PROVE  i - 1 \in 1 .. Len(chan'[o]) /\ Carries(o, i - 1, c)'
    <3>1. i # 1
      BY <2>1, <2>3
    <3>2. i - 1 \in 1 .. Len(chan'[o]) /\ (i - 1) + 1 = i
      BY <1>3, <1>4, <3>1
    <3>3. chan'[o][i - 1] = chan[o][i]
      BY <2>2, <3>2
    <3> QED  BY <2>3, <3>2, <3>3 DEF Carries
  <2>4. ASSUME NEW i \in 1 .. Len(chan'[o]), Carries(o, i, c)'
        PROVE  i + 1 \in 1 .. Len(chan[o]) /\ Carries(o, i + 1, c) /\ chan'[o][i] = chan[o][i + 1]
    BY <2>2, <2>4 DEF Carries
  <2> QED  BY <2>3, <2>4 DEF Kept
<1>7. \E d \in {0, 1} : KeptDone(d)
  <2>1. CASE o = "client"
    <3>1. KeptDone(1)
      <4>1. ASSUME NEW i \in 1 .. Len(chan'[o])
            PROVE  i + 1 \in 1 .. Len(chan[o]) /\ chan'[o][i] = chan[o][i + 1]
        BY <1>3, <1>4
      <4> QED  BY <2>1, <4>1 DEF KeptDone
    <3> QED  BY <3>1
  <2>2. CASE t = "client"
    <3>1. KeptDone(0)
      <4>1. \A i \in 1 .. Len(chan["client"]) : i + 0 = i
        OBVIOUS
      <4> QED  BY <1>4, <2>2, <4>1 DEF KeptDone
    <3> QED  BY <3>1
  <2> QED  BY <1>1, <2>1, <2>2 DEF Sides
<1> QED  BY <1>5, <1>6, <1>7 DEF o

\* The same, of a message that its handler waits for.
LEMMA HeadKept ==
  ASSUME Inv, NEW t \in Sides, NEW x, Incoming(t, x)
  PROVE  /\ \E d \in {0, 1} : KeptDone(d)
         /\ \A c \in Conns : Kept(t, 0, c)
         /\ \A c \in Conns : x # "REQ" \/ In(t).conn # c => Kept(Other(t), 1, c)
BY HeadGone DEF Incoming, AtHead, In

\* A step that starts no reader, and announces none to the proxy.
LEMMA ReadOnceCalm ==
  ASSUME Inv, ReadOnce, NEW d \in {0, 1}, KeptDone(d), cid' = cid, seq' = seq,
         \A s \in Sides, c \in Conns :
           readers'[<<s, c>>] \in Nat /\ readers'[<<s, c>>] <= readers[<<s, c>>],
         \A c \in Conns : trigger'[<<"client", c>>] = "none" => trigger[<<"client", c>>] = "none",
         \A c \in Conns : Finishing(c)' => Finishing(c)
  PROVE  ReadOnce'
<1>1. ASSUME NEW s \in Sides, NEW c \in Conns
      PROVE  readers'[<<s, c>>] <= 1 /\ (readers[<<s, c>>] = 0 => readers'[<<s, c>>] = 0)
  <2>1. /\ readers[<<s, c>>] \in Nat /\ readers[<<s, c>>] <= 1
        /\ readers'[<<s, c>>] \in Nat /\ readers'[<<s, c>>] <= readers[<<s, c>>]
    BY Typed DEF ReadOnce
  <2>2. \A x, y \in Nat : x <= 1 /\ y <= x => y <= 1 /\ (x = 0 => y = 0)
    OBVIOUS
  <2> QED  BY <2>1, <2>2
<1>2. "proxy" \in Sides
  BY DEF Sides
<1>3. ASSUME NEW i \in 1 .. Len(chan'["client"]), NEW c \in Conns, Finishes(i, c)'
      PROVE  /\ trigger'[<<"client", c>>] # "none" /\ ~Finishing(c)'
             /\ readers'[<<"proxy", c>>] = 0
             /\ \A j \in 1 .. Len(chan'["client"]) : Finishes(j, c)' => j = i
  <2>1. i + d \in 1 .. Len(chan["client"]) /\ Finishes(i + d, c)
    BY <1>3 DEF KeptDone, Finishes
  <2>2. ASSUME NEW j \in 1 .. Len(chan'["client"]), Finishes(j, c)' PROVE j = i
    <3>1. j + d \in 1 .. Len(chan["client"]) /\ Finishes(j + d, c)
      BY <2>2 DEF KeptDone, Finishes
    <3>2. j + d = i + d
      BY <2>1, <3>1 DEF ReadOnce
    <3> QED  BY <3>2
  <2> QED  BY <1>1, <1>2, <2>1, <2>2 DEF ReadOnce
<1>4. ASSUME NEW c \in Conns, Finishing(c)'
      PROVE  trigger'[<<"client", c>>] # "none" /\ readers'[<<"proxy", c>>] = 0
  BY <1>1, <1>2, <1>4 DEF ReadOnce
<1>5. ASSUME NEW i \in 1 .. Len(chan'["client"]), chan'["client"][i].type = "DONE"
      PROVE  chan'["client"][i].cid <= seq'
  BY <1>5 DEF KeptDone, ReadOnce
<1> QED  BY <1>1, <1>3, <1>4, <1>5 DEF ReadOnce

\* A step that neither reads nor sends for a connection that is not dialled.
LEMMA UntouchedCalm ==
  ASSUME Untouched,
         \A c \in Conns : trigger'[<<"client", c>>] = "none" =>
           /\ trigger[<<"client", c>>] = "none"
           /\ \A s \in Sides :
                /\ readers[<<s, c>>] = 0 => readers'[<<s, c>>] = 0
                /\ taken'[<<s, c>>] = taken[<<s, c>>]
                /\ \A i \in 1 .. Len(chan'[s]) : Carries(s, i, c)' =>
                     \E j \in 1 .. Len(chan[s]) : Carries(s, j, c)
  PROVE  Untouched'
BY DEF Untouched

\* A connection of which nothing was read or sent, whatever becomes reachable.
LEMMA PiecesFresh ==
  ASSUME Inv, NEW s \in Sides, NEW c \in Conns, Pieces(s, c),
         taken[<<s, c>>] = 0, taken'[<<s, c>>] = 0, held'[<<s, c>>] = held[<<s, c>>],
         got'[<<Other(s), c>>] = got[<<Other(s), c>>], sent'[<<s, c>>] \in Nat,
         \A i \in 1 .. Len(chan'[s]) : ~Carries(s, i, c)'
  PROVE  Pieces(s, c)'
<1>1. held[<<s, c>>] = {} /\ Passed(s, c) = 0 /\ held'[<<s, c>>] = {} /\ Passed(s, c)' = 0
  BY DEF Pieces, Passed
<1>2. Len(got[<<Other(s), c>>]) = 0
  BY <1>1, Typed DEF Pieces
<1>3. taken'[<<s, c>>] <= sent'[<<s, c>>]
  OBVIOUS
<1> QED  BY <1>1, <1>2, <1>3 DEF Pieces

\* Pieces that cannot reach the application any more: what was received stays a
\* prefix.
LEMMA PiecesUnreached ==
  ASSUME Inv, NEW s \in Sides, NEW c \in Conns, NEW d \in {0, 1}, Pieces(s, c),
         \A i \in 1 .. Len(chan'[s]) :
           i + d \in 1 .. Len(chan[s]) /\ chan'[s][i] = chan[s][i + d],
         cid'[c] = cid[c], taken'[<<s, c>>] = taken[<<s, c>>], held'[<<s, c>>] = held[<<s, c>>],
         got'[<<Other(s), c>>] = got[<<Other(s), c>>], sent'[<<s, c>>] = sent[<<s, c>>],
         ~Reaches(Other(s), c)' \/ (~Up' /\ \A i \in 1 .. Len(chan'[s]) : ~Carries(s, i, c)')
  PROVE  Pieces(s, c)'
<1>1. Passed(s, c)' = Passed(s, c)
  BY DEF Passed
<1>2. ASSUME NEW i \in 1 .. Len(chan'[s]), Carries(s, i, c)'
      PROVE  /\ chan'[s][i].chunk \in 1 .. Passed(s, c) /\ chan'[s][i].cid = cid[c]
             /\ \A j \in 1 .. i - 1 : Carries(s, j, c)' => chan'[s][j].chunk < chan'[s][i].chunk
  <2>1. i + d \in 1 .. Len(chan[s]) /\ Carries(s, i + d, c) /\ chan'[s][i] = chan[s][i + d]
    BY <1>2 DEF Carries
  <2>2. ASSUME NEW j \in 1 .. i - 1, Carries(s, j, c)'
        PROVE  chan'[s][j].chunk < chan'[s][i].chunk
    <3>1. j \in 1 .. Len(chan'[s]) /\ j + d \in 1 .. (i + d) - 1
      BY <1>2
    <3>2. Carries(s, j + d, c) /\ chan'[s][j] = chan[s][j + d]
      BY <2>2, <3>1 DEF Carries
    <3> QED  BY <2>1, <3>1, <3>2 DEF Pieces
  <2> QED  BY <2>1, <2>2 DEF Pieces
<1> QED  BY <1>1, <1>2 DEF Pieces

\* No application end is opened or bound that was not, and a receiver takes up what
\* is bound only.
Fewer ==
  /\ \A e \in Ends : (sock'[e] = "open" => sock[e] = "open") /\ (fin[e] => fin'[e])
  /\ \A s \in Sides, n \in CIDs : bind'[<<s, n>>] \in {bind[<<s, n>>], None}
  /\ \A s \in Sides, c \in Conns :
       WritesTo(s, c)' => WritesTo(s, c) \/ bind[<<s, cid[c]>>] = c

\* What is reachable after such a step was so before.
LEMMA FewerReached ==
  ASSUME Inv, Fewer, NEW t \in Sides, NEW c \in Conns, cid[c] # 0, cid'[c] = cid[c],
         Reaches(t, c)'
  PROVE  Reaches(t, c)
<1>1. cid[c] \in CIDs /\ <<t, c>> \in Ends
  BY DEF Inv, TypeOK, CIDs, Ends
<1>2. bind'[<<t, cid[c]>>] = c \/ WritesTo(t, c)'
  BY DEF Reaches
<1>3. bind[<<t, cid[c]>>] = c \/ WritesTo(t, c)
  BY <1>1, <1>2, ConnsAssumption DEF Fewer
<1> QED  BY <1>1, <1>3 DEF Fewer, Reaches

\* A connection's pieces, at a step that moves none of them.
LEMMA PieceStill ==
  ASSUME Inv, Inv', Order, Fewer, cid' = cid, Up' => Up, NEW s \in Sides, NEW c \in Conns,
         taken'[<<s, c>>] = taken[<<s, c>>], held'[<<s, c>>] = held[<<s, c>>],
         got'[<<Other(s), c>>] = got[<<Other(s), c>>], sent'[<<s, c>>] >= sent[<<s, c>>],
         \E d \in {0, 1} : Kept(s, d, c)
  PROVE  Pieces(s, c)'
<1>1. PICK d \in {0, 1} : Kept(s, d, c)
  OBVIOUS
<1>2. /\ Other(s) \in Sides /\ <<s, c>> \in Ends /\ Pieces(s, c)
      /\ sent'[<<s, c>>] \in Nat
  BY Typed DEF Order, Inv, TypeOK
<1>3. CASE cid[c] # 0
  <2>1. Reaches(Other(s), c)' => Reaches(Other(s), c)
    BY <1>2, <1>3, FewerReached
  <2> QED  BY <1>1, <1>2, <2>1, PiecesCalm
<1>4. CASE cid[c] = 0
  <2>1. /\ taken[<<s, c>>] = 0
        /\ \A i \in 1 .. Len(chan[s]) : ~Carries(s, i, c)
    BY <1>4 DEF Order, Untouched, Inv, Numbered, Sides
  <2>2. \A i \in 1 .. Len(chan'[s]) : ~Carries(s, i, c)'
    BY <1>1, <2>1 DEF Kept
  <2> QED  BY <1>2, <2>1, <2>2, PiecesFresh
<1> QED  BY <1>3, <1>4

\* All pieces, at a step that moves none.
LEMMA PiecesStill ==
  ASSUME Inv, Inv', Order, Fewer, UNCHANGED <<cid, taken, held, got>>, Up' => Up,
         \A e \in Ends : sent'[e] >= sent[e],
         \A s \in Sides, c \in Conns : \E d \in {0, 1} : Kept(s, d, c)
  PROVE  \A s \in Sides, c \in Conns : Pieces(s, c)'
BY PieceStill DEF Ends

\* The session does not come up again, and its close signals say that it is down.
LEMMA DownedNext ==
  ASSUME Inv, Downed, [Next]_vars PROVE Downed' /\ (Up' => Up)
<1> DEFINE Lost == /\ broken => broken'
                   /\ \A s \in Sides : sessOpen'[s] => sessOpen[s]
                   /\ \A s \in Sides : sessClose'[s] => sessClose[s] \/ ~Up'
<1>0. ASSUME Lost PROVE Downed' /\ (Up' => Up)
  BY <1>0 DEF Downed, Up
<1>1. ASSUME UNCHANGED sess PROVE Lost
  BY <1>1 DEF sess
<1>2. ASSUME NEW s \in Sides, NEW m, Write(s, m) PROVE Lost
  <2>1. CASE Written(s, m)
    BY <2>1 DEF Written
  <2>2. CASE WriteFails(s)
    <3>1. ~Up' /\ UNCHANGED <<sessOpen, broken>>
      BY <2>2 DEF WriteFails, Up
    <3> QED  BY <3>1
  <2> QED  BY <1>2, <2>1, <2>2 DEF Write
<1>3. ASSUME NEW s \in Sides, Consume(s) PROVE Lost
  BY <1>3 DEF Consume
<1>4. ASSUME NEW s \in Sides, CloseSess(s) PROVE Lost
  <2>1. /\ sessOpen' = [sessOpen EXCEPT ![s] = FALSE] /\ broken' = broken
        /\ sessOpen \in [Sides -> BOOLEAN]
    BY <1>4 DEF CloseSess, Inv, TypeOK
  <2>2. ~sessOpen'[s] /\ \A t \in Sides : sessOpen'[t] => sessOpen[t]
    BY <2>1
  <2>3. ~Up'
    BY <2>2 DEF Up
  <2> QED  BY <2>1, <2>2, <2>3
<1>5. ASSUME NEW s \in Sides, ReceiveEnd(s) PROVE Lost
  <2>1. ~Up /\ UNCHANGED <<sessOpen, broken>>
    BY <1>5 DEF ReceiveEnd, Downed
  <2>2. ~Up'
    BY <2>1 DEF Up
  <2> QED  BY <2>1, <2>2
<1>6. CASE Break
  <2>1. broken' /\ UNCHANGED <<sessOpen, sessClose>>
    BY <1>6 DEF Break
  <2> QED  BY <1>0, <2>1 DEF Up
<1> HIDE DEF Lost
<1>7. CASE checkClientHB \/ sendHB \/ CloseListener \/ UNCHANGED vars
  <2>1. CASE sendHB
    <3>1. Write("client", Msg("CLOSE", 0, None, 0))
      BY <2>1 DEF sendHB, Write
    <3> QED  BY <1>0, <1>2, <3>1 DEF Sides
  <2> QED  BY <1>0, <1>1, <1>4, <1>7, <2>1 DEF checkClientHB, CloseListener, vars, Sides
<1>8. ASSUME NEW s \in Sides, Stop(s) \/ StopSess(s) PROVE Downed' /\ (Up' => Up)
  <2>1. CASE Stop(s)
    BY <2>1 DEF Stop, Downed, Up
  <2>2. CASE StopSess(s)
    BY <1>0, <1>4, <2>2 DEF StopSess
  <2> QED  BY <1>8, <2>1, <2>2
<1>9. CASE AcceptLoop \/ \E c \in Conns : Accept(c)
  <2>1. CASE sendBrowserConnCreateEvent
    <3>1. \E m : Write("proxy", m)
      BY <2>1 DEF sendBrowserConnCreateEvent, Write
    <3> QED  BY <1>0, <1>2, <3>1 DEF Sides
  <2>2. CASE Store \/ \E c \in Conns : Accept(c)
    BY <1>0, <1>1, <2>2 DEF Store, Accept
  <2> QED  BY <1>9, <2>1, <2>2 DEF AcceptLoop
<1>10. ASSUME NEW s \in Sides, Receiver(s) PROVE Downed' /\ (Up' => Up)
  <2>1. CASE ReceiveEnd(s)
    BY <1>0, <1>5, <2>1
  <2>2. CASE \E t \in Sides : OnReq(t) \/ OnReqWrite(t) \/ OnClose(t)
    BY <1>0, <1>1, <1>3, <2>2 DEF OnReq, OnReqWrite, OnClose, Incoming
  <2>3. CASE \E t \in Sides : OnCloseUnbind(t) \/ OnCloseClose(t)
    BY <1>0, <1>1, <2>3 DEF OnCloseUnbind, OnCloseClose
  <2>4. CASE clientConnCreateDoneHandler \/ OnCreate
    BY <1>0, <1>3, <2>4 DEF clientConnCreateDoneHandler, OnCreate, Incoming, Sides
  <2>5. CASE DialRefused \/ DialStore \/ ArmForward
    BY <1>0, <1>1, <2>5 DEF DialRefused, DialStore, ArmForward
  <2>6. CASE SendRefused \/ sendCreateConnDoneEvent
    BY <1>0, <1>2, <2>6 DEF SendRefused, sendCreateConnDoneEvent, Sides
  <2> QED  BY <1>10, <2>1, <2>2, <2>3, <2>4, <2>5, <2>6
           DEF Receiver, clientReqHandler, proxyReqHandler, clientConnCloseHandler,
               proxyCloseBrowserConnHandler, proxyCreateBrowserConnHandler
<1>11. ASSUME NEW s \in Sides, NEW c \in Conns,
              App(s, c) \/ Reader(s, c) \/ Trigger(s, c) \/ Finalize(s, c)
       PROVE  Downed' /\ (Up' => Up)
  <2>1. CASE SendReq(s, c) \/ Notify(s, c)
    BY <1>0, <1>2, <2>1 DEF SendReq, Notify
  <2>2. CASE Read(s, c) \/ ReadEnd(s, c) \/ App(s, c) \/ Finalize(s, c)
    BY <1>0, <1>1, <2>2 DEF Read, ReadEnd, App, AppSend, AppClose, AppStall,
                                 AppResume, Finalize
  <2>3. CASE FireBrowser(c) \/ FireForward(c) \/ UnbindForward(c) \/ CloseAfter(s, c)
    BY <1>0, <1>1, <2>3 DEF FireBrowser, FireForward, UnbindForward, CloseAfter
  <2> QED  BY <1>11, <2>1, <2>2, <2>3 DEF Reader, Trigger
<1> QED  BY <1>6, <1>7, <1>8, <1>9, <1>10, <1>11 DEF Next

-----------------------------------------------------------------------------
\* A step that moves no piece, starts no reader and dials nothing.
Calm ==
  /\ UNCHANGED <<cid, seq, taken, held, got>> /\ Fewer
  /\ \A e \in Ends : sent'[e] >= sent[e] /\ readers'[e] <= readers[e]
  /\ \A c \in Conns : trigger'[<<"client", c>>] = "none" => trigger[<<"client", c>>] = "none"
  /\ \A c \in Conns : Finishing(c)' => Finishing(c)

\* What calm steps do to the messages in flight.
Shifted == /\ \E d \in {0, 1} : KeptDone(d)
           /\ \A s \in Sides, c \in Conns : \E d \in {0, 1} : Kept(s, d, c)

\* Such a step keeps the order.
LEMMA OrderCalm ==
  ASSUME Inv, Inv', Order, [Next]_vars, Calm, Shifted PROVE Order'
<1>1. \A s \in Sides, c \in Conns : readers'[<<s, c>>] \in Nat /\ <<s, c>> \in Ends
  BY DEF Inv, TypeOK, Ends
<1>2. ReadOnce'
  BY <1>1, ReadOnceCalm DEF Order, Calm, Shifted
<1>3. Untouched'
  <2>1. ASSUME NEW c \in Conns, trigger'[<<"client", c>>] = "none"
        PROVE  trigger[<<"client", c>>] = "none"
    BY <2>1 DEF Calm
  <2>2. ASSUME NEW c \in Conns, NEW s \in Sides
        PROVE  /\ readers[<<s, c>>] = 0 => readers'[<<s, c>>] = 0
               /\ taken'[<<s, c>>] = taken[<<s, c>>]
               /\ \A i \in 1 .. Len(chan'[s]) : Carries(s, i, c)' =>
                    \E j \in 1 .. Len(chan[s]) : Carries(s, j, c)
    <3>1. readers'[<<s, c>>] <= readers[<<s, c>>] /\ readers'[<<s, c>>] \in Nat
      BY <1>1 DEF Calm
    <3>2. readers[<<s, c>>] = 0 => readers'[<<s, c>>] = 0
      BY <3>1
    <3>3. \A i \in 1 .. Len(chan'[s]) : Carries(s, i, c)' =>
            \E j \in 1 .. Len(chan[s]) : Carries(s, j, c)
      BY DEF Shifted, Kept
    <3> QED  BY <3>2, <3>3 DEF Calm
  <2> QED  BY <2>1, <2>2, UntouchedCalm DEF Order
<1>4. Downed' /\ \A s \in Sides, c \in Conns : Pieces(s, c)'
  BY DownedNext, PiecesStill DEF Order, Calm, Shifted
<1> QED  BY <1>2, <1>3, <1>4 DEF Order

\* What leaves the channels alone shifts nothing.
LEMMA StillShifted ==
  ASSUME Inv, chan' = chan PROVE Shifted
BY SameKept DEF Shifted

\* Steps of the session.
LEMMA OrderSession ==
  ASSUME Inv, Inv', Order, [Next]_vars,
         \/ Break \/ checkClientHB \/ sendHB \/ CloseListener \/ UNCHANGED vars
         \/ \E s \in Sides : Stop(s) \/ StopSess(s)
  PROVE  Order'
<1>1. UNCHANGED <<apps, conns, maps, chan, recv>>
  <2>1. CASE \E s \in Sides : Stop(s) \/ StopSess(s)
    BY <2>1 DEF Stop, StopSess, CloseSess, loops
  <2>2. CASE Break \/ checkClientHB \/ CloseListener \/ UNCHANGED vars
    BY <2>2 DEF Break, checkClientHB, CloseListener, CloseSess, vars, loops, sess
  <2>3. CASE sendHB
    BY <2>3 DEF sendHB, WriteFails, loops
  <2> QED  BY <2>1, <2>2, <2>3
<1>2. \A e \in Ends : sent[e] \in Nat /\ readers[e] \in Nat
  BY DEF Inv, TypeOK
<1>3. Calm
  BY <1>1, <1>2 DEF Calm, Fewer, WritesTo, apps, conns, maps, Finishing
<1> QED  BY <1>1, <1>3, OrderCalm, StillShifted

\* Steps of the applications and the close triggers, and readers that end.
LEMMA OrderConnection ==
  ASSUME Inv, Inv', Order, [Next]_vars, NEW s \in Sides, NEW c \in Conns,
         \/ App(s, c) \/ ReadEnd(s, c) \/ Trigger(s, c) \/ Finalize(s, c)
  PROVE  Order'
<1>1. /\ \A e \in Ends : sent[e] \in Nat /\ readers[e] \in Nat
      /\ <<s, c>> \in Ends
  BY DEF Inv, TypeOK, Ends
<1>2. UNCHANGED <<cid, seq, taken, held, got, recv>>
  BY DEF App, AppSend, AppClose, AppStall, AppResume, ReadEnd, Trigger, FireBrowser, FireForward, UnbindForward,
         Notify, CloseAfter, Finalize, apps, conns, maps, loops
<1>3. sent' = sent \/ sent' = [sent EXCEPT ![<<s, c>>] = @ + 1]
  BY DEF App, AppSend, AppClose, AppStall, AppResume, ReadEnd, Trigger, FireBrowser, FireForward, UnbindForward,
         Notify, CloseAfter, Finalize, apps, conns, maps, loops
<1>4. readers' = readers \/ readers' = [readers EXCEPT ![<<s, c>>] = @ - 1]
  BY DEF App, AppSend, AppClose, AppStall, AppResume, ReadEnd, Trigger, FireBrowser, FireForward, UnbindForward,
         Notify, CloseAfter, Finalize, apps, conns, maps, loops
<1>5. sock' = sock \/ sock' = [sock EXCEPT ![<<s, c>>] = "closed"]
  BY DEF App, AppSend, AppClose, AppStall, AppResume, ReadEnd, Trigger, FireBrowser, FireForward, UnbindForward,
         Notify, CloseAfter, Finalize, apps, conns, maps, loops
<1>6. fin' = fin \/ fin' = [fin EXCEPT ![<<s, c>>] = TRUE]
  BY DEF App, AppSend, AppClose, AppStall, AppResume, ReadEnd, Trigger, FireBrowser, FireForward, UnbindForward,
         Notify, CloseAfter, Finalize, apps, conns, maps, loops
<1>7. bind' = bind \/ \E t \in Sides : bind' = [bind EXCEPT ![<<t, cid[c]>>] = None]
  BY DEF App, AppSend, AppClose, AppStall, AppResume, ReadEnd, Trigger, FireBrowser, FireForward, UnbindForward,
         Notify, CloseAfter, Finalize, apps, conns, maps, loops, Sides
<1>8. \/ trigger' = trigger
      \/ \E t \in Sides : \E x : x # "none" /\ trigger' = [trigger EXCEPT ![<<t, c>>] = x]
  <2>1. CASE FireBrowser(c)
    BY <2>1 DEF FireBrowser, Sides
  <2>2. CASE FireForward(c)
    BY <2>2 DEF FireForward, Sides
  <2>3. CASE UnbindForward(c)
    BY <2>3 DEF UnbindForward, Sides
  <2>4. CASE Notify(s, c)
    BY <2>4 DEF Notify
  <2>5. CASE CloseAfter(s, c)
    BY <2>5 DEF CloseAfter
  <2>6. CASE App(s, c) \/ ReadEnd(s, c) \/ Finalize(s, c)
    BY <2>6 DEF App, AppSend, AppClose, AppStall, AppResume, ReadEnd, Finalize, conns
  <2> QED  BY <2>1, <2>2, <2>3, <2>4, <2>5, <2>6 DEF Trigger
<1>9. Fewer
  <2>1. \A e \in Ends : sock'[e] = "open" => sock[e] = "open"
    BY <1>5 DEF Inv, TypeOK
  <2>2. \A e \in Ends : fin[e] => fin'[e]
    BY <1>6 DEF Inv, TypeOK
  <2>3. \A t \in Sides, n \in CIDs : bind'[<<t, n>>] \in {bind[<<t, n>>], None}
    <3>1. bind \in [Sides \X CIDs -> Conns \cup {None}]
      BY DEF Inv, TypeOK
    <3>2. CASE bind' = bind
      BY <3>2
    <3>3. ASSUME NEW u \in Sides, bind' = [bind EXCEPT ![<<u, cid[c]>>] = None]
          PROVE  \A t \in Sides, n \in CIDs : bind'[<<t, n>>] \in {bind[<<t, n>>], None}
      BY <3>1, <3>3
    <3> QED  BY <1>7, <3>2, <3>3
  <2> QED  BY <1>2, <2>1, <2>2, <2>3 DEF Fewer, WritesTo
<1>10. \A e \in Ends : sent'[e] >= sent[e] /\ readers'[e] <= readers[e]
  <2>0. sent \in [Ends -> Nat] /\ readers \in [Ends -> Nat]
    BY DEF Inv, TypeOK
  <2>1. \A e \in Ends : sent'[e] = sent[e] \/ sent'[e] = sent[e] + 1
    BY <1>3, <2>0
  <2>2. \A e \in Ends : readers'[e] = readers[e] \/ readers'[e] = readers[e] - 1
    BY <1>4, <2>0
  <2> QED  BY <1>1, <2>1, <2>2
<1>11. \A d \in Conns : trigger'[<<"client", d>>] = "none" => trigger[<<"client", d>>] = "none"
  <2>1. /\ trigger \in [Ends -> {"none", "armed", "unbind", "notify", "close", "done"}]
        /\ \A d \in Conns : <<"client", d>> \in Ends
    BY DEF Inv, TypeOK, Ends, Sides
  <2>2. ASSUME NEW t \in Sides, NEW x, x # "none", trigger' = [trigger EXCEPT ![<<t, c>>] = x]
        PROVE  \A e \in Ends : trigger'[e] = "none" => trigger[e] = "none"
    BY <2>1, <2>2
  <2> QED  BY <1>8, <2>1, <2>2
<1>12. Calm
  BY <1>2, <1>9, <1>10, <1>11 DEF Calm, Finishing
<1>13. Shifted
  <2>1. CASE Notify(s, c)
    <3>1. cid[c] \in CIDs
      BY <2>1 DEF Notify, Inv, TypeOK, Numbered, CIDs
    <3>2. /\ Msg("CLOSE", cid[c], None, 0) \in Message
          /\ Msg("CLOSE", cid[c], None, 0).type = "CLOSE"
      BY <3>1, ControlIsMessage
    <3>3. Write(s, Msg("CLOSE", cid[c], None, 0))
      BY <2>1 DEF Notify
    <3> QED  BY <3>2, <3>3, WriteKept DEF Shifted
  <2>2. CASE ~Notify(s, c)
    <3>1. chan' = chan
      BY <2>2 DEF App, AppSend, AppClose, AppStall, AppResume, ReadEnd, Trigger, FireBrowser, FireForward,
                  UnbindForward, CloseAfter, Finalize, sess
    <3> QED  BY <3>1, StillShifted
  <2> QED  BY <2>1, <2>2
<1> QED  BY <1>12, <1>13, OrderCalm

\* Steps of the accept loop and of the receivers that write control messages,
\* read them, or close.
LEMMA OrderControl ==
  ASSUME Inv, Inv', Order, [Next]_vars, NEW s \in Sides,
         \/ sendBrowserConnCreateEvent \/ OnClose(s) \/ OnCloseUnbind(s) \/ OnCloseClose(s)
         \/ OnCreate \/ DialRefused \/ SendRefused
  PROVE  Order'
<1>1. UNCHANGED <<apps, cid, seq, trigger, readers, held>>
  BY DEF sendBrowserConnCreateEvent, OnClose, OnCloseUnbind, OnCloseClose, OnCreate,
         DialRefused, SendRefused, conns, maps
<1>2. sock' = sock \/ \E e : sock' = [sock EXCEPT ![e] = "closed"]
  BY DEF sendBrowserConnCreateEvent, OnClose, OnCloseUnbind, OnCloseClose, OnCreate,
         DialRefused, SendRefused, conns, maps
<1>3. bind' = bind \/ \E x : bind' = [bind EXCEPT ![x] = None]
  BY DEF sendBrowserConnCreateEvent, OnClose, OnCloseUnbind, OnCloseClose, OnCreate,
         DialRefused, SendRefused, conns, maps
<1>4. \A u \in Sides : recv'[u] = recv[u] \/ recv'[u].pc \notin {"done", "write"}
  <2>1. \A t \in Sides : Loop(t).pc \notin {"done", "write"}
    BY DEF Loop, At
  <2>2. recv \in [Sides -> Receiving] /\ "client" \in Sides
    BY DEF Inv, TypeOK, Receiving, Sides
  <2>3. CASE sendBrowserConnCreateEvent
    BY <2>3 DEF sendBrowserConnCreateEvent
  <2>4. CASE OnClose(s)
    <3>1. \E r : r.pc \notin {"done", "write"} /\ recv' = [recv EXCEPT ![s] = r]
      BY <2>1, <2>4 DEF OnClose, At
    <3> QED  BY <2>2, <3>1
  <2>5. CASE OnCloseUnbind(s) \/ DialRefused
    BY <2>2, <2>5 DEF OnCloseUnbind, DialRefused, Receiving
  <2>6. CASE OnCloseClose(s) \/ SendRefused \/ OnCreate
    <3>1. \E r, t : r.pc \notin {"done", "write"} /\ recv' = [recv EXCEPT ![t] = r]
      BY <2>1, <2>6 DEF OnCloseClose, SendRefused, OnCreate, At, Sides
    <3> QED  BY <2>2, <3>1
  <2> QED  BY <2>3, <2>4, <2>5, <2>6
<1>5. Fewer
  <2>1. /\ sock \in [Ends -> {"none", "open", "closed"}]
        /\ bind \in [Sides \X CIDs -> Conns \cup {None}]
    BY DEF Inv, TypeOK
  <2>2. \A e \in Ends : sock'[e] = "open" => sock[e] = "open"
    BY <1>2, <2>1
  <2>3. \A x \in Sides \X CIDs : bind'[x] \in {bind[x], None}
    BY <1>3, <2>1
  <2> QED  BY <1>1, <1>4, <2>2, <2>3 DEF Fewer, WritesTo, apps
<1>6. Calm
  <2>1. \A e \in Ends : sent[e] \in Nat /\ readers[e] \in Nat
    BY DEF Inv, TypeOK
  <2> QED  BY <1>1, <1>5, <1>4, <2>1 DEF Calm, Finishing, Sides, apps
<1>7. Shifted
  <2>1. CASE sendBrowserConnCreateEvent
    <3>1. /\ accept.conn \in Conns \cup {None} /\ accept.cid \in CIDs /\ 0 \in Nat
          /\ "proxy" \in Sides
      BY <2>1 DEF sendBrowserConnCreateEvent, Inv, Accepting, Sides
    <3>2. /\ Msg("CREATE", accept.cid, accept.conn, 0) \in Message
          /\ Msg("CREATE", accept.cid, accept.conn, 0).type = "CREATE"
      BY <3>1 DEF Msg, Message
    <3>3. Write("proxy", Msg("CREATE", accept.cid, accept.conn, 0))
      BY <2>1 DEF sendBrowserConnCreateEvent, Write
    <3> QED  BY <3>1, <3>2, <3>3, WriteKept DEF Shifted
  <2>2. CASE SendRefused
    <3>1. recv["client"].cid \in CIDs /\ "client" \in Sides
      BY <2>2 DEF SendRefused, Inv, Handling, Sides
    <3>2. /\ Msg("CLOSE", recv["client"].cid, None, 0) \in Message
          /\ Msg("CLOSE", recv["client"].cid, None, 0).type = "CLOSE"
      BY <3>1, ControlIsMessage
    <3>3. Write("client", Msg("CLOSE", recv["client"].cid, None, 0))
      BY <2>2 DEF SendRefused
    <3> QED  BY <3>1, <3>2, <3>3, WriteKept DEF Shifted
  <2>3. ASSUME NEW t \in Sides, NEW x, x # "REQ", Incoming(t, x) PROVE Shifted
    <3>1. \A u \in Sides : u = t \/ u = Other(t)
      BY DEF Other, Sides
    <3> QED  BY <2>3, <3>1, HeadKept DEF Shifted
  <2>4. CASE OnClose(s) \/ OnCreate
    BY <2>3, <2>4 DEF OnClose, OnCreate, Sides
  <2>5. CASE OnCloseUnbind(s) \/ OnCloseClose(s) \/ DialRefused
    BY <2>5, StillShifted DEF OnCloseUnbind, OnCloseClose, DialRefused, sess
  <2> QED  BY <2>1, <2>2, <2>4, <2>5
<1> QED  BY <1>6, <1>7, OrderCalm

\* The client announces that it reads the server: the proxy's reader is to start.
LEMMA OrderDone ==
  ASSUME Inv, Inv', Order, Unique, Drawn, [Next]_vars, sendCreateConnDoneEvent PROVE Order'
<1> DEFINE c == recv["client"].conn
           m == Msg("DONE", recv["client"].cid, None, 0)
<1>1. /\ UNCHANGED <<apps, conns, maps>> /\ Finishing(c) /\ Write("client", m)
      /\ recv' = [recv EXCEPT !["client"] = Loop("client")]
  BY DEF sendCreateConnDoneEvent, Finishing
<1>2. c \in Conns /\ recv["client"].cid \in CIDs /\ cid[c] = recv["client"].cid
  BY DEF sendCreateConnDoneEvent, Inv, Handling, Sides
<1>3. m \in Message /\ m.type = "DONE" /\ m.cid = cid[c]
  <2>1. None \in Conns \cup {None} /\ 0 \in Nat
    OBVIOUS
  <2> QED  BY <1>2, <2>1 DEF Msg, Message
<1> HIDE DEF m
<1>4. "client" \in Sides /\ "proxy" \in Sides
  BY DEF Sides
<1>5. \A s \in Sides, d \in Conns : Kept(s, 0, d)
  BY <1>1, <1>3, <1>4, WriteKept
<1>6. \A i \in 1 .. Len(chan'["client"]) :
        \/ i \in 1 .. Len(chan["client"]) /\ chan'["client"][i] = chan["client"][i]
        \/ i = Len(chan["client"]) + 1 /\ chan'["client"][i] = m
  <2>1. TypeSess
    BY Parts
  <2> QED  BY <1>1, <1>3, <1>4, <2>1, Sending
<1>7. Fewer /\ \A e \in Ends : sent'[e] >= sent[e]
  <2>1. \A e \in Ends : sent[e] \in Nat
    BY DEF Inv, TypeOK
  <2>2. \A s \in Sides : recv'[s] = recv[s] \/ recv'[s].pc # "write"
    BY <1>1 DEF Inv, TypeOK, Loop, At
  <2> QED  BY <1>1, <2>1, <2>2 DEF Fewer, WritesTo, apps, conns, maps
<1>8. Downed' /\ \A s \in Sides, d \in Conns : Pieces(s, d)'
  BY <1>1, <1>5, <1>7, DownedNext, PiecesStill DEF Order, apps, conns, maps
<1>9. Untouched'
  BY <1>1, <1>5, UntouchedCalm DEF Order, Kept, apps, conns
<1>10. \A d \in Conns : ~Finishing(d)'
  BY <1>1, <1>4 DEF Finishing, Loop, At, Inv, TypeOK
<1>11. ASSUME NEW d \in Conns, cid[d] = cid[c] PROVE d = c
  BY <1>2, <1>11 DEF Unique, CIDs
<1>12. /\ trigger[<<"client", c>>] # "none" /\ readers[<<"proxy", c>>] = 0
       /\ \A i \in 1 .. Len(chan["client"]) : ~Finishes(i, c)
  BY <1>1, <1>2 DEF Order, ReadOnce
<1>13. ASSUME NEW i \in 1 .. Len(chan'["client"]), NEW d \in Conns, Finishes(i, d)'
       PROVE  /\ trigger[<<"client", d>>] # "none" /\ readers[<<"proxy", d>>] = 0
              /\ \A j \in 1 .. Len(chan'["client"]) : Finishes(j, d)' => j = i
  <2>1. CASE d = c
    <3>1. \A j \in 1 .. Len(chan'["client"]) : Finishes(j, d)' => j = Len(chan["client"]) + 1
      BY <1>1, <1>6, <1>12, <2>1 DEF Finishes, maps
    <3> QED  BY <1>12, <1>13, <2>1, <3>1
  <2>2. CASE d # c
    <3>1. \A j \in 1 .. Len(chan'["client"]) : Finishes(j, d)' =>
            j \in 1 .. Len(chan["client"]) /\ Finishes(j, d)
      <4>1. cid[d] # cid[c]
        BY <1>11, <2>2
      <4> QED  BY <1>1, <1>3, <1>6, <4>1 DEF Finishes, maps
    <3> QED  BY <1>13, <3>1 DEF Order, ReadOnce
  <2> QED  BY <2>1, <2>2
<1>14. ASSUME NEW i \in 1 .. Len(chan'["client"]), chan'["client"][i].type = "DONE"
       PROVE  chan'["client"][i].cid <= seq
  BY <1>2, <1>3, <1>6, <1>14 DEF Order, ReadOnce, Drawn
<1>15. ReadOnce'
  <2>1. \A s \in Sides, d \in Conns : readers'[<<s, d>>] <= 1
    BY <1>1 DEF Order, ReadOnce, conns
  <2> QED  BY <1>1, <1>10, <1>13, <1>14, <2>1 DEF ReadOnce, conns, maps
<1> QED  BY <1>8, <1>9, <1>15 DEF Order

\* The proxy reads the browser from now on: it did not before.
LEMMA OrderDoneHandler ==
  ASSUME Inv, Inv', Order, Unique, [Next]_vars, clientConnCreateDoneHandler PROVE Order'
<1> DEFINE c == bind[<<"proxy", In("proxy").cid>>]
<1>1. /\ UNCHANGED <<apps, sock, trigger, held, maps>> /\ Incoming("proxy", "DONE")
      /\ readers' = IF c = None THEN readers ELSE [readers EXCEPT ![<<"proxy", c>>] = @ + 1]
      /\ recv' = [recv EXCEPT !["proxy"] = Loop("proxy")]
  BY DEF clientConnCreateDoneHandler
<1>2. "client" \in Sides /\ "proxy" \in Sides /\ Other("proxy") = "client"
  BY DEF Sides, Other
<1>3. /\ In("proxy") = chan["client"][1] /\ In("proxy").type = "DONE" /\ In("proxy") \in Message
      /\ 1 \in 1 .. Len(chan["client"])
      /\ \A i \in 1 .. Len(chan'["client"]) :
           i + 1 \in 1 .. Len(chan["client"]) /\ chan'["client"][i] = chan["client"][i + 1]
  <2>1. TypeSess
    BY Parts
  <2> QED  BY <1>1, <1>2, <2>1, Taking
<1>4. Shifted
  <2>1. \A u \in Sides : u = "proxy" \/ u = "client"
    BY DEF Sides
  <2> QED  BY <1>1, <1>2, <2>1, HeadKept DEF Shifted
<1>5. Fewer /\ \A e \in Ends : sent'[e] >= sent[e]
  <2>1. \A e \in Ends : sent[e] \in Nat
    BY DEF Inv, TypeOK
  <2>2. \A s \in Sides : recv'[s] = recv[s] \/ recv'[s].pc # "write"
    BY <1>1 DEF Inv, TypeOK, Loop, At
  <2> QED  BY <1>1, <2>1, <2>2 DEF Fewer, WritesTo, apps, maps
<1>6. Downed' /\ \A s \in Sides, d \in Conns : Pieces(s, d)'
  BY <1>1, <1>4, <1>5, DownedNext, PiecesStill DEF Order, Shifted, apps, maps
<1>7. \A d \in Conns : Finishing(d)' => Finishing(d)
  BY <1>1, <1>2 DEF Finishing, Inv, TypeOK
<1>8. CASE c = None
  <2>1. \A e \in Ends : readers[e] \in Nat
    BY DEF Inv, TypeOK
  <2>2. Calm
    BY <1>1, <1>5, <1>7, <1>8, <2>1 DEF Calm, apps, maps
  <2> QED  BY <1>4, <2>2, OrderCalm
<1>9. CASE c # None
  <2>1. In("proxy").cid \in CIDs /\ c \in Conns /\ cid[c] = In("proxy").cid
    <3>1. In("proxy").cid \in CIDs
      BY <1>3 DEF Message
    <3>2. c \in Conns
      BY <1>2, <1>9, <3>1 DEF Inv, TypeOK
    <3> QED  BY <1>2, <3>1, <3>2 DEF Inv, Bound
  <2>2. Finishes(1, c)
    BY <1>3, <2>1 DEF Finishes
  <2>3. /\ trigger[<<"client", c>>] # "none" /\ ~Finishing(c) /\ readers[<<"proxy", c>>] = 0
        /\ \A j \in 1 .. Len(chan["client"]) : Finishes(j, c) => j = 1
    BY <1>3, <2>1, <2>2 DEF Order, ReadOnce
  <2>4. /\ readers'[<<"proxy", c>>] = 1
        /\ \A s \in Sides, d \in Conns :
             s # "proxy" \/ d # c => readers'[<<s, d>>] = readers[<<s, d>>]
    <3>1. readers' = [readers EXCEPT ![<<"proxy", c>>] = @ + 1]
      BY <1>1, <1>9
    <3>2. readers \in [Ends -> Nat] /\ <<"proxy", c>> \in Ends
      BY <1>2, <2>1 DEF Inv, TypeOK, Ends
    <3> HIDE DEF c
    <3>3. readers'[<<"proxy", c>>] = readers[<<"proxy", c>>] + 1
      BY <3>1, <3>2
    <3> QED  BY <2>3, <3>1, <3>2, <3>3 DEF Ends
  <2> HIDE DEF c
  <2>5. Untouched'
    <3> SUFFICES ASSUME NEW d \in Conns, trigger'[<<"client", d>>] = "none", NEW s \in Sides
                 PROVE  readers'[<<s, d>>] = readers[<<s, d>>]
      BY <1>1, <1>4, UntouchedCalm DEF Order, Shifted, Kept, apps
    <3> QED  BY <1>1, <2>3, <2>4
  <2>6. \A j \in 1 .. Len(chan'["client"]), d \in Conns : Finishes(j, d)' =>
          d # c /\ j + 1 \in 1 .. Len(chan["client"]) /\ Finishes(j + 1, d)
    <3> SUFFICES ASSUME NEW j \in 1 .. Len(chan'["client"]), NEW d \in Conns, Finishes(j, d)'
                 PROVE  d # c /\ j + 1 \in 1 .. Len(chan["client"]) /\ Finishes(j + 1, d)
      OBVIOUS
    <3>1. j + 1 \in 1 .. Len(chan["client"]) /\ Finishes(j + 1, d) /\ j + 1 # 1
      BY <1>1, <1>3 DEF Finishes, maps
    <3> QED  BY <2>3, <3>1
  <2>7. ReadOnce'
    <3>1. \A s \in Sides, d \in Conns : readers'[<<s, d>>] <= 1
      <4> SUFFICES ASSUME NEW s \in Sides, NEW d \in Conns PROVE readers'[<<s, d>>] <= 1
        OBVIOUS
      <4>1. readers[<<s, d>>] <= 1
        BY DEF Order, ReadOnce
      <4>2. CASE s = "proxy" /\ d = c
        BY <2>4, <4>2
      <4>3. CASE s # "proxy" \/ d # c
        BY <2>4, <4>1, <4>3
      <4> QED  BY <4>2, <4>3
    <3>2. ASSUME NEW i \in 1 .. Len(chan'["client"]), NEW d \in Conns, Finishes(i, d)'
          PROVE  /\ trigger[<<"client", d>>] # "none" /\ ~Finishing(d)'
                 /\ readers'[<<"proxy", d>>] = 0
                 /\ \A j \in 1 .. Len(chan'["client"]) : Finishes(j, d)' => j = i
      <4>1. d # c /\ i + 1 \in 1 .. Len(chan["client"]) /\ Finishes(i + 1, d)
        BY <2>6, <3>2
      <4>2. ASSUME NEW j \in 1 .. Len(chan'["client"]), Finishes(j, d)' PROVE j = i
        <5>1. j + 1 \in 1 .. Len(chan["client"]) /\ Finishes(j + 1, d)
          BY <2>6, <4>2
        <5>2. j + 1 = i + 1
          BY <4>1, <5>1 DEF Order, ReadOnce
        <5> QED  BY <5>2
      <4> QED  BY <1>2, <1>7, <2>4, <4>1, <4>2 DEF Order, ReadOnce
    <3>3. ASSUME NEW d \in Conns, Finishing(d)'
          PROVE  trigger[<<"client", d>>] # "none" /\ readers'[<<"proxy", d>>] = 0
      BY <1>2, <1>7, <2>3, <2>4, <3>3 DEF Order, ReadOnce
    <3>4. ASSUME NEW i \in 1 .. Len(chan'["client"]), chan'["client"][i].type = "DONE"
          PROVE  chan'["client"][i].cid <= seq
      BY <1>3, <3>4 DEF Order, ReadOnce
    <3> QED  BY <1>1, <3>1, <3>2, <3>3, <3>4 DEF ReadOnce, maps
  <2> QED  BY <1>6, <2>5, <2>7 DEF Order
<1> QED  BY <1>8, <1>9

-----------------------------------------------------------------------------
\* A piece is delivered: it is the next one.
LEMMA PiecesDelivered ==
  ASSUME Inv, NEW s \in Sides, NEW c \in Conns, Pieces(s, c), Reaches(Other(s), c),
         1 \in 1 .. Len(chan[s]), Carries(s, 1, c),
         Len(chan'[s]) = Len(chan[s]) - 1,
         \A i \in 1 .. Len(chan'[s]) : chan'[s][i] = chan[s][i + 1],
         cid'[c] = cid[c], taken'[<<s, c>>] = taken[<<s, c>>], held'[<<s, c>>] = held[<<s, c>>],
         sent'[<<s, c>>] = sent[<<s, c>>], Up' => Up,
         got'[<<Other(s), c>>] = Append(got[<<Other(s), c>>], <<c, chan[s][1].chunk>>)
  PROVE  Pieces(s, c)'
<1> DEFINE g == Len(got[<<Other(s), c>>])
<1>1. /\ Len(chan[s]) \in Nat /\ g \in Nat
      /\ Passed(s, c)' = Passed(s, c) /\ Passed(s, c) \in Int
  BY Typed DEF Passed
<1>2. chan[s][1].chunk = g + 1 /\ g + 1 <= Passed(s, c)
  <2>1. /\ chan[s][1].chunk \in 1 .. Passed(s, c)
        /\ \/ chan[s][1].chunk = g + 1
           \/ \E j \in 1 .. 1 - 1 : Carries(s, j, c) /\ chan[s][j].chunk + 1 = chan[s][1].chunk
    BY DEF Pieces
  <2> QED  BY <1>1, <2>1
<1>3. /\ Len(got'[<<Other(s), c>>]) = g + 1
      /\ \A i \in 1 .. g + 1 : got'[<<Other(s), c>>][i] = <<c, i>>
  <2>1. got[<<Other(s), c>>] \in Seq(Conns \X Nat)
    BY Typed
  <2>2. \A i \in 1 .. g : got[<<Other(s), c>>][i] = <<c, i>>
    BY DEF Pieces
  <2>3. /\ Len(got'[<<Other(s), c>>]) = g + 1
        /\ \A i \in 1 .. g : got'[<<Other(s), c>>][i] = got[<<Other(s), c>>][i]
        /\ got'[<<Other(s), c>>][g + 1] = <<c, chan[s][1].chunk>>
    <3>1. <<c, chan[s][1].chunk>> \in Conns \X Nat
      <4>1. chan[s][1].chunk \in Nat
        BY <1>1, <1>2
      <4> QED  BY <4>1
    <3> QED  BY <2>1, <3>1
  <2>4. \A i \in 1 .. g + 1 : i \in 1 .. g \/ i = g + 1
    BY <1>1
  <2> HIDE DEF g
  <2> QED  BY <1>2, <2>2, <2>3, <2>4
<1>4. ASSUME NEW i \in 1 .. Len(chan'[s])
      PROVE  i + 1 \in 1 .. Len(chan[s]) /\ chan'[s][i] = chan[s][i + 1]
  BY <1>1
<1>5. ASSUME NEW i \in 1 .. Len(chan'[s]), Carries(s, i, c)'
      PROVE  /\ i + 1 \in 1 .. Len(chan[s]) /\ Carries(s, i + 1, c)
             /\ chan'[s][i] = chan[s][i + 1]
  BY <1>4, <1>5 DEF Carries
<1>6. ASSUME NEW i \in 2 .. Len(chan[s]), Carries(s, i, c)
      PROVE  /\ i - 1 \in 1 .. Len(chan'[s]) /\ Carries(s, i - 1, c)'
             /\ chan'[s][i - 1] = chan[s][i]
  <2>1. i - 1 \in 1 .. Len(chan'[s]) /\ (i - 1) + 1 = i
    BY <1>1
  <2> QED  BY <1>4, <1>6, <2>1 DEF Carries
<1>7. ASSUME NEW i \in 1 .. Len(chan'[s]), Carries(s, i, c)'
      PROVE  /\ chan'[s][i].chunk \in 1 .. Passed(s, c) /\ chan'[s][i].cid = cid[c]
             /\ \A j \in 1 .. i - 1 : Carries(s, j, c)' => chan'[s][j].chunk < chan'[s][i].chunk
             /\ chan'[s][i].chunk > g + 1
             /\ \/ chan'[s][i].chunk = (g + 1) + 1
                \/ \E j \in 1 .. i - 1 : Carries(s, j, c)' /\ chan'[s][j].chunk + 1 = chan'[s][i].chunk
  <2>1. /\ i + 1 \in 1 .. Len(chan[s]) /\ Carries(s, i + 1, c)
        /\ chan'[s][i] = chan[s][i + 1]
    BY <1>5, <1>7
  <2>2. /\ chan[s][i + 1].chunk \in 1 .. Passed(s, c) /\ chan[s][i + 1].cid = cid[c]
        /\ \A j \in 1 .. (i + 1) - 1 : Carries(s, j, c) => chan[s][j].chunk < chan[s][i + 1].chunk
        /\ \/ chan[s][i + 1].chunk = g + 1
           \/ \E j \in 1 .. (i + 1) - 1 :
                Carries(s, j, c) /\ chan[s][j].chunk + 1 = chan[s][i + 1].chunk
    BY <2>1 DEF Pieces
  <2>3. chan[s][i + 1].chunk > g + 1
    <3>1. 1 \in 1 .. (i + 1) - 1
      OBVIOUS
    <3>2. chan[s][1].chunk < chan[s][i + 1].chunk
      BY <2>2, <3>1
    <3> QED  BY <1>1, <1>2, <2>2, <3>2
  <2>4. ASSUME NEW j \in 1 .. i - 1, Carries(s, j, c)'
        PROVE  chan'[s][j].chunk < chan'[s][i].chunk
    <3>1. j \in 1 .. Len(chan'[s]) /\ j + 1 \in 1 .. (i + 1) - 1
      OBVIOUS
    <3>2. Carries(s, j + 1, c) /\ chan'[s][j] = chan[s][j + 1]
      BY <1>5, <2>4, <3>1
    <3> QED  BY <2>1, <2>2, <3>1, <3>2
  <2>5. \/ chan'[s][i].chunk = (g + 1) + 1
        \/ \E j \in 1 .. i - 1 : Carries(s, j, c)' /\ chan'[s][j].chunk + 1 = chan'[s][i].chunk
    <3>1. PICK j \in 1 .. (i + 1) - 1 :
            Carries(s, j, c) /\ chan[s][j].chunk + 1 = chan[s][i + 1].chunk
      BY <1>1, <2>2, <2>3
    <3>2. CASE j = 1
      BY <1>2, <2>1, <3>1, <3>2
    <3>3. CASE j # 1
      <4>1. j \in 2 .. Len(chan[s]) /\ j - 1 \in 1 .. i - 1
        <5>1. i \in Nat /\ j \in 1 .. i /\ i + 1 <= Len(chan[s])
          BY <1>1, <2>1, <3>1
        <5>2. \A x, y, n \in Int :
                1 <= y /\ y <= x /\ x + 1 <= n /\ y # 1 => y \in 2 .. n /\ y - 1 \in 1 .. x - 1
          OBVIOUS
        <5>3. i \in Int /\ j \in Int /\ Len(chan[s]) \in Int /\ 1 <= j /\ j <= i
          BY <1>1, <5>1
        <5> QED  BY <3>3, <5>1, <5>2, <5>3
      <4>2. Carries(s, j - 1, c)' /\ chan'[s][j - 1] = chan[s][j]
        BY <1>6, <3>1, <4>1
      <4> QED  BY <2>1, <3>1, <4>1, <4>2
    <3> QED  BY <3>2, <3>3
  <2> QED  BY <2>1, <2>2, <2>3, <2>4, <2>5
<1>8. ASSUME Up'
      PROVE  \/ Passed(s, c) = g + 1
             \/ \E i \in 1 .. Len(chan'[s]) : Carries(s, i, c)' /\ chan'[s][i].chunk = Passed(s, c)
  <2>1. \/ Passed(s, c) = g
        \/ \E i \in 1 .. Len(chan[s]) : Carries(s, i, c) /\ chan[s][i].chunk = Passed(s, c)
    BY <1>8 DEF Pieces
  <2>2. Passed(s, c) # g
    BY <1>1, <1>2
  <2>3. PICK i \in 1 .. Len(chan[s]) : Carries(s, i, c) /\ chan[s][i].chunk = Passed(s, c)
    BY <2>1, <2>2
  <2>4. CASE i = 1
    BY <1>2, <2>3, <2>4
  <2>5. CASE i # 1
    <3>1. i \in 2 .. Len(chan[s])
      BY <1>1, <2>5
    <3> QED  BY <1>6, <2>3, <3>1
  <2> QED  BY <2>4, <2>5
<1>9. /\ taken[<<s, c>>] <= sent[<<s, c>>] /\ held[<<s, c>>] \subseteq {taken[<<s, c>>]} \ {0}
  BY DEF Pieces
<1> HIDE DEF g
<1> QED  BY <1>1, <1>2, <1>3, <1>7, <1>8, <1>9 DEF Pieces

\* A step that starts no reader and announces none to the proxy.
LEMMA OthersCalm ==
  ASSUME Inv, Inv', Order, [Next]_vars, UNCHANGED <<cid, seq, readers, trigger>>,
         \E d \in {0, 1} : KeptDone(d), \A c \in Conns : Finishing(c)' => Finishing(c)
  PROVE  ReadOnce' /\ Downed' /\ (Up' => Up)
<1>1. \A s \in Sides, c \in Conns : readers[<<s, c>>] \in Nat
  BY DEF Inv, TypeOK, Ends
<1>2. \A s \in Sides, c \in Conns :
        readers'[<<s, c>>] \in Nat /\ readers'[<<s, c>>] <= readers[<<s, c>>]
  <2>1. \A x \in Nat : x <= x
    OBVIOUS
  <2>2. readers' = readers
    OBVIOUS
  <2> QED  BY <1>1, <2>1, <2>2
<1> QED  BY <1>2, ReadOnceCalm, DownedNext DEF Order

\* A receiver is done with a piece that it delivered, or that it could not deliver.
LEMMA OrderTaken ==
  ASSUME Inv, Inv', Order, [Next]_vars, NEW s \in Sides,
         chan[Other(s)] # <<>>, In(s).type = "REQ", Consume(s),
         recv' = [recv EXCEPT ![s] = Loop(s)],
         UNCHANGED <<sent, taken, fin, sock, trigger, readers, held, maps>>,
         \/ UNCHANGED got /\ ~Reaches(s, In(s).conn)
         \/ /\ Reaches(s, In(s).conn)
            /\ got' = [got EXCEPT ![<<s, In(s).conn>>] = Append(@, <<In(s).conn, In(s).chunk>>)]
  PROVE  Order'
<1>1. PICK m : m = In(s)
  OBVIOUS
<1>2. PICK o \in Sides : o = Other(s) /\ o # s /\ Other(o) = s /\ \A t \in Sides : t = s \/ t = o
  BY DEF Other, Sides
<1>3. /\ m = chan[o][1] /\ m.type = "REQ" /\ m \in Message /\ 1 \in 1 .. Len(chan[o])
      /\ \A i \in 1 .. Len(chan'[o]) :
           i + 1 \in 1 .. Len(chan[o]) /\ chan'[o][i] = chan[o][i + 1]
  <2>1. TypeSess
    BY Parts
  <2> QED  BY <1>1, <1>2, <2>1, Consuming
<1>4. Len(chan'[o]) = Len(chan[o]) - 1
  <2>1. chan \in [Sides -> Seq(Message)] /\ chan[o] # <<>>
        /\ chan' = [chan EXCEPT ![o] = Tail(@)]
    BY <1>2 DEF Consume, Inv, TypeOK, Message
  <2>2. chan[o] \in Seq(Message) /\ chan'[o] = Tail(chan[o])
    BY <2>1
  <2> QED  BY <2>1, <2>2
<1>5. PICK c \in Conns : c = m.conn
  BY <1>2, <1>3 DEF Inv, Messages, Sound
<1>6. m.cid \in CIDs
  BY <1>3 DEF Message
<1>9. /\ \E d \in {0, 1} : KeptDone(d)
      /\ \A d \in Conns : Kept(s, 0, d)
      /\ \A d \in Conns : d # c => Kept(o, 1, d)
  BY <1>1, <1>2, <1>5, HeadGone
<1>10. Carries(o, 1, c) /\ Pieces(o, c) /\ m.cid = cid[c] /\ cid[c] # 0
  <2>1. Carries(o, 1, c) /\ Pieces(o, c)
    BY <1>3, <1>5 DEF Carries, Order
  <2>2. chan[o][1].cid = cid[c]
    BY <1>3, <2>1 DEF Pieces
  <2> QED  BY <1>3, <1>6, <2>1, <2>2 DEF CIDs
<1>12. ReadOnce' /\ Downed' /\ (Up' => Up)
  <2>1. \A d \in Conns : Finishing(d)' => Finishing(d)
    <3>1. recv \in [Sides -> Receiving] /\ Loop(s).pc # "done" /\ "client" \in Sides
      BY DEF Inv, TypeOK, Receiving, Loop, At, Sides
    <3>2. recv'["client"] = recv["client"] \/ recv'["client"].pc # "done"
      BY <3>1
    <3> QED  BY <3>2 DEF Finishing
  <2> QED  BY <1>9, <2>1, OthersCalm DEF maps
<1>13. Untouched'
  <2>1. ASSUME NEW t \in Sides, NEW d \in Conns, NEW i \in 1 .. Len(chan'[t]), Carries(t, i, d)'
        PROVE  \E j \in 1 .. Len(chan[t]) : Carries(t, j, d)
    <3>1. CASE t = s
      BY <1>9, <2>1, <3>1 DEF Kept
    <3>2. CASE t = o
      BY <1>3, <2>1, <3>2 DEF Carries
    <3> QED  BY <1>2, <3>1, <3>2
  <2> QED  BY <2>1, UntouchedCalm DEF Order
<1>14. Fewer /\ \A e \in Ends : sent'[e] >= sent[e]
  <2>1. \A e \in Ends : sent[e] \in Nat
    BY DEF Inv, TypeOK
  <2>2. \A u \in Sides : recv'[u] = recv[u] \/ recv'[u].pc # "write"
    BY DEF Inv, TypeOK, Loop, At
  <2> QED  BY <2>1, <2>2 DEF Fewer, WritesTo, maps
<1>15. /\ Reaches(s, c)' => Reaches(s, c)
       /\ \/ UNCHANGED got /\ ~Reaches(s, c)
          \/ /\ Reaches(s, c)
             /\ got' = [got EXCEPT ![<<s, c>>] = Append(@, <<c, m.chunk>>)]
  <2>1. Reaches(s, c)' => Reaches(s, c)
    BY <1>10, <1>14, FewerReached DEF maps
  <2> QED  BY <1>1, <1>5, <2>1
<1>16. \A e \in Ends : e # <<s, c>> => got'[e] = got[e]
  BY <1>15 DEF Inv, TypeOK
<1>17. ASSUME NEW t \in Sides, NEW d \in Conns PROVE Pieces(t, d)'
  <2>1. <<t, d>> \in Ends /\ <<Other(t), d>> \in Ends
    BY Typed
  <2>2. CASE t # o \/ d # c
    <3>1. <<Other(t), d>> # <<s, c>>
      BY <1>2, <2>2 DEF Other, Sides
    <3>2. got'[<<Other(t), d>>] = got[<<Other(t), d>>]
      BY <1>16, <2>1, <3>1
    <3>3. \E x \in {0, 1} : Kept(t, x, d)
      BY <1>2, <1>9, <2>2
    <3> QED  BY <1>12, <1>14, <2>1, <3>2, <3>3, PieceStill DEF maps
  <2>3. CASE t = o /\ d = c
    <3>1. CASE UNCHANGED got /\ ~Reaches(s, c)
      <4>1. ~Reaches(s, c)'
        BY <1>15, <3>1
      <4>2. /\ cid' = cid /\ taken' = taken /\ held' = held /\ got' = got /\ sent' = sent
        BY <3>1 DEF maps
      <4>3. PICK x \in {0, 1} : \A i \in 1 .. Len(chan'[o]) :
               i + x \in 1 .. Len(chan[o]) /\ chan'[o][i] = chan[o][i + x]
        BY <1>3
      <4>4. Pieces(o, c)'
        BY <1>2, <1>10, <4>1, <4>2, <4>3, PiecesUnreached
      <4> QED  BY <2>3, <4>4
    <3>2. CASE /\ Reaches(s, c)
               /\ got' = [got EXCEPT ![<<s, c>>] = Append(@, <<c, m.chunk>>)]
      <4>1. got'[<<s, c>>] = Append(got[<<s, c>>], <<c, m.chunk>>)
        BY <3>2 DEF Inv, TypeOK, Ends
      <4> QED  BY <1>2, <1>3, <1>4, <1>10, <1>12, <2>3, <3>2, <4>1, PiecesDelivered
               DEF maps
    <3> QED  BY <1>15, <3>1, <3>2
  <2> QED  BY <2>2, <2>3
<1> QED  BY <1>12, <1>13, <1>17 DEF Order

\* Data whose number leads nowhere is dropped; else its connection is taken up.
LEMMA OrderOnReq ==
  ASSUME Inv, Inv', Order, [Next]_vars, NEW s \in Sides, OnReq(s) PROVE Order'
<1>1. /\ AtHead(s, "REQ") /\ In(s).cid \in CIDs /\ In(s).conn \in Conns
      /\ cid[In(s).conn] = In(s).cid
  <2>1. AtHead(s, "REQ") /\ Other(s) \in Sides /\ TypeSess
    BY Parts DEF OnReq, Other, Sides
  <2>2. chan[Other(s)] \in Seq(Message) /\ chan[Other(s)] # <<>>
    BY <2>1 DEF AtHead, TypeSess
  <2>3. /\ In(s) \in Message /\ In(s) = chan[Other(s)][1] /\ 1 \in 1 .. Len(chan[Other(s)])
        /\ In(s).type = "REQ"
    BY <2>1, <2>2 DEF In, AtHead
  <2>4. In(s).cid \in CIDs
    BY <2>3 DEF Message
  <2>5. In(s).conn \in Conns
    BY <2>1, <2>3 DEF Inv, Messages, Sound
  <2>6. Carries(Other(s), 1, In(s).conn) /\ Pieces(Other(s), In(s).conn)
    BY <2>1, <2>3, <2>5 DEF Carries, Order
  <2>7. cid[In(s).conn] = In(s).cid
    BY <2>3, <2>6 DEF Pieces
  <2> QED  BY <2>1, <2>4, <2>5, <2>7
<1>2. CASE /\ bind[<<s, In(s).cid>>] = None /\ Consume(s)
           /\ recv' = [recv EXCEPT ![s] = Loop(s)]
  <2>1. UNCHANGED <<sent, taken, got, fin, sock, trigger, readers, held, maps>>
    BY DEF OnReq, apps, conns
  <2>2. ~Reaches(s, In(s).conn)
    BY <1>1, <1>2, ConnsAssumption DEF Reaches, WritesTo, AtHead
  <2>3. chan[Other(s)] # <<>> /\ In(s).type = "REQ"
    BY <1>1 DEF AtHead, In
  <2> QED  BY <1>2, <2>1, <2>2, <2>3, OrderTaken
<1>3. CASE /\ bind[<<s, In(s).cid>>] # None /\ UNCHANGED sess
           /\ recv' = [recv EXCEPT ![s] = At("write", bind[<<s, In(s).cid>>], In(s).cid)]
  <2>1. PICK b \in Conns : b = bind[<<s, In(s).cid>>] /\ cid[b] = In(s).cid
    <3>1. bind \in [Sides \X CIDs -> Conns \cup {None}] /\ Bound
      BY DEF Inv, TypeOK
    <3>2. PICK b \in Conns : b = bind[<<s, In(s).cid>>]
      BY <1>1, <1>3, <3>1
    <3> QED  BY <1>1, <3>1, <3>2 DEF Bound
  <2>2. UNCHANGED <<apps, conns, maps, chan>>
    BY <1>3 DEF OnReq, sess
  <2>3. /\ recv' = [recv EXCEPT ![s] = At("write", b, In(s).cid)]
        /\ At("write", b, In(s).cid).pc = "write" /\ At("write", b, In(s).cid).conn = b
    BY <1>3, <2>1 DEF At
  <2>0. recv \in [Sides -> Receiving] /\ "client" \in Sides
    BY DEF Inv, TypeOK, Receiving, Sides
  <2>10. \A t \in Sides :
           \/ t # s /\ recv'[t] = recv[t]
           \/ t = s /\ recv'[t].pc = "write" /\ recv'[t].conn = b
    BY <2>0, <2>3
  <2>4. \A t \in Sides, c \in Conns :
          WritesTo(t, c)' => WritesTo(t, c) \/ bind[<<t, cid[c]>>] = c
    BY <2>1, <2>10 DEF WritesTo
  <2>5. \A c \in Conns : Finishing(c)' => Finishing(c)
    BY <2>0, <2>10 DEF Finishing
  <2>6. \A e \in Ends : sent[e] \in Nat /\ readers[e] \in Nat
    BY DEF Inv, TypeOK
  <2>7. Calm
    BY <2>2, <2>4, <2>5, <2>6 DEF Calm, Fewer, apps, conns, maps
  <2> QED  BY <2>2, <2>7, OrderCalm, StillShifted
<1> QED  BY <1>2, <1>3 DEF OnReq

\* Data is written: its number led to its own connection.
LEMMA OrderOnReqWrite ==
  ASSUME Inv, Inv', Writing, Order, Unique, [Next]_vars, NEW s \in Sides, OnReqWrite(s)
  PROVE  Order'
<1> DEFINE b == recv[s].conn
<1>1. /\ chan[Other(s)] # <<>> /\ In(s).type = "REQ" /\ In(s).cid = recv[s].cid
      /\ b \in Conns /\ cid[b] = recv[s].cid /\ recv[s].cid \in CIDs /\ WritesTo(s, b)
  BY DEF OnReqWrite, Writing, Inv, Handling, WritesTo
<1>2. b = In(s).conn
  <2>1. Other(s) \in Sides /\ chan[Other(s)] \in Seq(Message)
    BY Parts DEF Other, Sides, TypeSess
  <2>2. In(s) = chan[Other(s)][1] /\ 1 \in 1 .. Len(chan[Other(s)])
    BY <1>1, <2>1 DEF In
  <2>3. In(s).conn \in Conns
    BY <1>1, <2>1, <2>2 DEF Inv, Messages, Sound
  <2>4. Carries(Other(s), 1, In(s).conn) /\ Pieces(Other(s), In(s).conn)
    BY <1>1, <2>1, <2>2, <2>3 DEF Carries, Order
  <2>5. cid[In(s).conn] = In(s).cid
    BY <2>2, <2>4 DEF Pieces
  <2>6. cid[b] = cid[In(s).conn] /\ cid[b] # 0
    BY <1>1, <2>5 DEF CIDs
  <2> QED  BY <1>1, <2>3, <2>6 DEF Unique
<1>3. /\ Consume(s) /\ recv' = [recv EXCEPT ![s] = Loop(s)] /\ AppWrite(s, b, In(s))
      /\ UNCHANGED <<sent, taken, fin, sock, trigger, readers, held, maps>>
  BY DEF OnReqWrite
<1> HIDE DEF b
<1>4. \/ UNCHANGED got /\ ~Reaches(s, b)
      \/ /\ Reaches(s, b)
         /\ got' = [got EXCEPT ![<<s, b>>] = Append(@, <<In(s).conn, In(s).chunk>>)]
  BY <1>1, <1>3 DEF AppWrite, Reaches
<1> QED  BY <1>1, <1>2, <1>3, <1>4, OrderTaken

\* The receiver ends when the session is down: what was in flight is lost.
LEMMA OrderReceiveEnd ==
  ASSUME Inv, Inv', Order, [Next]_vars, NEW s \in Sides, ReceiveEnd(s) PROVE Order'
<1>1. PICK o \in Sides : o = Other(s) /\ o # s /\ \A t \in Sides : t = s \/ t = o
  BY DEF Other, Sides
<1>2. /\ UNCHANGED <<apps, conns, maps, sessOpen, broken>>
      /\ chan' = [chan EXCEPT ![o] = <<>>] /\ recv' = [recv EXCEPT ![s] = At("end", None, 0)]
  BY <1>1 DEF ReceiveEnd
<1>3. chan'[o] = <<>> /\ chan'[s] = chan[s]
  BY <1>1, <1>2 DEF Inv, TypeOK
<1>4. ~Up'
  <2>1. ~Up
    BY DEF ReceiveEnd, Order, Downed
  <2> QED  BY <1>2, <2>1 DEF Up
<1>5. \A t \in Sides : \A i \in 1 .. Len(chan'[t]) :
        t = s /\ i \in 1 .. Len(chan[t]) /\ chan'[t][i] = chan[t][i]
  BY <1>1, <1>3
<1>6. ReadOnce' /\ Downed' /\ (Up' => Up)
  <2>1. KeptDone(0)
    <3> SUFFICES ASSUME NEW i \in 1 .. Len(chan'["client"])
                 PROVE  i + 0 \in 1 .. Len(chan["client"]) /\ chan'["client"][i] = chan["client"][i + 0]
      BY DEF KeptDone
    <3>1. i + 0 = i /\ "client" \in Sides
      BY DEF Sides
    <3> QED  BY <1>5, <3>1
  <2>2. \A d \in Conns : Finishing(d)' => Finishing(d)
    <3>1. recv'["client"] = recv["client"] \/ recv'["client"].pc # "done"
      BY <1>2 DEF Inv, TypeOK, At, Sides
    <3> QED  BY <3>1 DEF Finishing
  <2> QED  BY <1>2, <2>1, <2>2, OthersCalm DEF conns, maps
<1>7. Untouched'
  <2>1. \A t \in Sides, d \in Conns : \A i \in 1 .. Len(chan'[t]) : Carries(t, i, d)' =>
          \E j \in 1 .. Len(chan[t]) : Carries(t, j, d)
    BY <1>5 DEF Carries
  <2> QED  BY <1>2, <2>1, UntouchedCalm DEF Order, apps, conns
<1>8. ASSUME NEW d \in Conns PROVE Pieces(s, d)' /\ Pieces(o, d)'
  <2>1. Fewer /\ \A e \in Ends : sent'[e] >= sent[e]
    <3>1. \A e \in Ends : sent[e] \in Nat
      BY DEF Inv, TypeOK
    <3>2. \A t \in Sides : recv'[t] = recv[t] \/ recv'[t].pc # "write"
      BY <1>2 DEF Inv, TypeOK, At
    <3> QED  BY <1>2, <3>1, <3>2 DEF Fewer, WritesTo, apps, conns, maps
  <2>2. Pieces(s, d)'
    <3>1. Kept(s, 0, d)
      <4>1. \A i \in 1 .. Len(chan[s]) : i + 0 = i /\ i - 0 = i
        OBVIOUS
      <4> QED  BY <1>3, <4>1 DEF Kept, Carries
    <3>2. <<s, d>> \in Ends
      BY DEF Ends
    <3> QED  BY <1>2, <1>6, <2>1, <3>1, <3>2, PieceStill DEF apps, conns, maps
  <2>3. Pieces(o, d)'
    <3>1. \A i \in 1 .. Len(chan'[o]) : FALSE
      BY <1>3
    <3>2. PICK x \in {0, 1} : TRUE
      OBVIOUS
    <3> QED  BY <1>1, <1>2, <1>4, <3>1, <3>2, PiecesUnreached DEF Order, apps, conns, maps
  <2> QED  BY <2>2, <2>3
<1> QED  BY <1>1, <1>6, <1>7, <1>8 DEF Order

\* A connection is made reachable before anything is read of it.
LEMMA OrderStore ==
  ASSUME Inv, Inv', Order, Unique, [Next]_vars, Store \/ DialStore PROVE Order'
<1>1. PICK t \in Sides, c \in Conns :
        /\ bind' = [bind EXCEPT ![<<t, cid[c]>>] = c] /\ cid[c] \in CIDs
        /\ trigger[<<"client", c>>] = "none"
        /\ sock' = sock \/ sock' = [sock EXCEPT ![<<t, c>>] = "open"]
        /\ recv' = recv \/ recv'["client"].pc # "done"
        /\ \A u \in Sides : recv'[u] = recv[u] \/ recv'[u].pc # "write"
        /\ UNCHANGED <<apps, cid, seq, trigger, readers, held, chan>>
  <2>1. CASE Store
    <3>1. /\ accept.conn \in Conns /\ cid[accept.conn] = accept.cid /\ accept.cid \in CIDs
          /\ trigger[<<"client", accept.conn>>] = "none"
      BY <2>1 DEF Store, Inv, Accepting, Once, Announcing
    <3>2. bind' = [bind EXCEPT ![<<"proxy", cid[accept.conn]>>] = accept.conn]
      BY <2>1, <3>1 DEF Store
    <3> QED  BY <2>1, <3>1, <3>2 DEF Store, Sides, conns, sess
  <2>2. CASE DialStore
    <3>1. /\ recv["client"].conn \in Conns /\ recv["client"].cid \in CIDs
          /\ cid[recv["client"].conn] = recv["client"].cid
          /\ trigger[<<"client", recv["client"].conn>>] = "none"
      BY <2>2 DEF DialStore, Inv, Handling, Once, Dialing, Sides
    <3>2. /\ recv'["client"].pc # "done"
          /\ \A u \in Sides : recv'[u] = recv[u] \/ recv'[u].pc # "write"
      <4>1. recv \in [Sides -> Receiving] /\ "client" \in Sides
        BY DEF Inv, TypeOK, Receiving, Sides
      <4>2. recv' = [recv EXCEPT !["client"].pc = "arm"]
        BY <2>2 DEF DialStore
      <4> QED  BY <4>1, <4>2 DEF Receiving
    <3>3. bind' = [bind EXCEPT ![<<"client", cid[recv["client"].conn]>>] = recv["client"].conn]
      BY <2>2, <3>1 DEF DialStore
    <3> QED  BY <2>2, <3>1, <3>2, <3>3 DEF DialStore, Sides, sess
  <2> QED  BY <2>1, <2>2
<1>2. Shifted
  BY <1>1, StillShifted
<1>3. ReadOnce' /\ Downed' /\ (Up' => Up)
  <2>1. \A d \in Conns : Finishing(d)' => Finishing(d)
    BY <1>1 DEF Finishing
  <2> QED  BY <1>1, <1>2, <2>1, OthersCalm DEF Shifted
<1>4. Untouched'
  BY <1>1, <1>2, UntouchedCalm DEF Order, Shifted, Kept, apps
<1>5. /\ sock \in [Ends -> {"none", "open", "closed"}]
      /\ bind \in [Sides \X CIDs -> Conns \cup {None}]
  BY DEF Inv, TypeOK
<1>6. ASSUME NEW s \in Sides, NEW d \in Conns PROVE Pieces(s, d)'
  <2>1. /\ Pieces(s, d) /\ sent'[<<s, d>>] = sent[<<s, d>>] /\ sent[<<s, d>>] \in Nat
        /\ Other(s) \in Sides /\ <<Other(s), d>> \in Ends
    BY <1>1, Typed DEF Order, apps
  <2>2. CASE trigger[<<"client", d>>] = "none"
    <3>1. /\ taken[<<s, d>>] = 0 /\ \A i \in 1 .. Len(chan[s]) : ~Carries(s, i, d)
      BY <2>2 DEF Order, Untouched
    <3>2. \A i \in 1 .. Len(chan'[s]) : ~Carries(s, i, d)'
      BY <1>1, <3>1 DEF Carries
    <3> QED  BY <1>1, <2>1, <3>1, <3>2, PiecesFresh DEF apps
  <2>3. CASE trigger[<<"client", d>>] # "none"
    <3>1. d # c /\ cid[d] \in CIDs /\ cid[d] # cid[c]
      <4>1. d # c
        BY <1>1, <2>3
      <4>2. cid[d] \in CIDs
        BY <2>3 DEF Inv, TypeOK, Numbered, CIDs, Sides
      <4>3. cid[d] # 0
        BY <4>2 DEF CIDs
      <4> QED  BY <4>1, <4>2, <4>3 DEF Unique
    <3>2. Reaches(Other(s), d)' => Reaches(Other(s), d)
      <4>1. sock'[<<Other(s), d>>] = sock[<<Other(s), d>>]
        BY <1>1, <1>5, <2>1, <3>1
      <4>2. bind'[<<Other(s), cid[d]>>] = bind[<<Other(s), cid[d]>>]
        BY <1>1, <1>5, <2>1, <3>1
      <4> QED  BY <1>1, <2>1, <4>1, <4>2 DEF Reaches, WritesTo, apps
    <3>3. PICK x \in {0, 1} : Kept(s, x, d)
      BY <1>2 DEF Shifted
    <3>4. sent[<<s, d>>] >= sent[<<s, d>>]
      BY <2>1
    <3> QED  BY <1>1, <1>3, <2>1, <3>2, <3>3, <3>4, PiecesCalm DEF apps
  <2> QED  BY <2>2, <2>3
<1> QED  BY <1>3, <1>4, <1>6 DEF Order

\* The client's end is armed, and its reader starts: nothing of the connection was
\* read before.
LEMMA OrderArmForward ==
  ASSUME Inv, Inv', Order, [Next]_vars, ArmForward PROVE Order'
<1>1. PICK c \in Conns : c = recv["client"].conn
  BY DEF ArmForward, Inv, Handling, Sides
<1>2. /\ UNCHANGED <<apps, sock, held, maps, chan>>
      /\ trigger' = [trigger EXCEPT ![<<"client", c>>] = "armed"]
      /\ readers' = [readers EXCEPT ![<<"client", c>>] = @ + 1]
      /\ recv' = [recv EXCEPT !["client"].pc = "done"]
  BY <1>1 DEF ArmForward, sess
<1>3. trigger[<<"client", c>>] = "none" /\ recv["client"].pc = "arm"
  BY <1>1 DEF ArmForward, Inv, Once, Dialing
<1>4. /\ \A s \in Sides : readers[<<s, c>>] = 0
      /\ \A i \in 1 .. Len(chan["client"]) : ~Finishes(i, c)
  BY <1>3 DEF Order, Untouched, ReadOnce
<1>5. /\ trigger'[<<"client", c>>] = "armed" /\ readers'[<<"client", c>>] = 1
      /\ \A d \in Conns : d # c => trigger'[<<"client", d>>] = trigger[<<"client", d>>]
      /\ \A s \in Sides, d \in Conns :
           s # "client" \/ d # c => readers'[<<s, d>>] = readers[<<s, d>>]
      /\ \A d \in Conns : Finishing(d)' => d = c
  <2>1. /\ trigger \in [Ends -> {"none", "armed", "unbind", "notify", "close", "done"}]
        /\ readers \in [Ends -> Nat] /\ <<"client", c>> \in Ends
        /\ recv \in [Sides -> Receiving] /\ "client" \in Sides
    BY DEF Inv, TypeOK, Ends, Sides, Receiving
  <2>2. /\ trigger'[<<"client", c>>] = "armed"
        /\ \A d \in Conns : d # c => trigger'[<<"client", d>>] = trigger[<<"client", d>>]
    BY <1>2, <2>1 DEF Ends
  <2>3. readers'[<<"client", c>>] = 1
    <3>1. readers'[<<"client", c>>] = readers[<<"client", c>>] + 1
      BY <1>2, <2>1
    <3> QED  BY <1>4, <2>1, <3>1
  <2>4. \A s \in Sides, d \in Conns :
          s # "client" \/ d # c => readers'[<<s, d>>] = readers[<<s, d>>]
    BY <1>2, <2>1 DEF Ends
  <2>5. recv'["client"].conn = c
    BY <1>1, <1>2, <2>1 DEF Receiving
  <2> QED  BY <2>2, <2>3, <2>4, <2>5 DEF Finishing
<1>6. Shifted
  BY <1>2, StillShifted
<1>7. ReadOnce'
  <2>1. \A s \in Sides, d \in Conns : readers'[<<s, d>>] <= 1
    <3> SUFFICES ASSUME NEW s \in Sides, NEW d \in Conns PROVE readers'[<<s, d>>] <= 1
      OBVIOUS
    <3>1. readers[<<s, d>>] <= 1
      BY DEF Order, ReadOnce
    <3>2. CASE s = "client" /\ d = c
      BY <1>5, <3>2
    <3>3. CASE s # "client" \/ d # c
      BY <1>5, <3>1, <3>3
    <3> QED  BY <3>2, <3>3
  <2>2. ASSUME NEW i \in 1 .. Len(chan'["client"]), NEW d \in Conns, Finishes(i, d)'
        PROVE  /\ trigger'[<<"client", d>>] # "none" /\ ~Finishing(d)'
               /\ readers'[<<"proxy", d>>] = 0
               /\ \A j \in 1 .. Len(chan'["client"]) : Finishes(j, d)' => j = i
    <3>1. /\ i \in 1 .. Len(chan["client"]) /\ Finishes(i, d)
          /\ \A j \in 1 .. Len(chan'["client"]) : Finishes(j, d)' =>
               j \in 1 .. Len(chan["client"]) /\ Finishes(j, d)
      BY <1>2, <2>2 DEF Finishes, maps
    <3>2. d # c
      BY <1>4, <3>1
    <3>3. trigger[<<"client", d>>] # "none" /\ readers[<<"proxy", d>>] = 0
      BY <3>1 DEF Order, ReadOnce
    <3> QED  BY <1>5, <3>1, <3>2, <3>3 DEF Order, ReadOnce, Sides
  <2>3. ASSUME NEW d \in Conns, Finishing(d)'
        PROVE  trigger'[<<"client", d>>] # "none" /\ readers'[<<"proxy", d>>] = 0
    BY <1>4, <1>5, <2>3 DEF Sides
  <2> QED  BY <1>2, <2>1, <2>2, <2>3 DEF Order, ReadOnce, maps
<1>8. Untouched'
  <2> SUFFICES ASSUME NEW d \in Conns, trigger'[<<"client", d>>] = "none"
               PROVE  d # c
    BY <1>2, <1>5, <1>6, UntouchedCalm DEF Order, Shifted, Kept, apps
  <2> QED  BY <1>5
<1>9. Downed' /\ \A s \in Sides, d \in Conns : Pieces(s, d)'
  <2>1. Fewer /\ \A e \in Ends : sent'[e] >= sent[e]
    <3>1. \A e \in Ends : sent[e] \in Nat
      BY DEF Inv, TypeOK
    <3>2. \A s \in Sides : recv'[s] = recv[s] \/ recv'[s].pc # "write"
      <4>1. recv \in [Sides -> Receiving]
        BY DEF Inv, TypeOK, Receiving
      <4> QED  BY <1>2, <4>1 DEF Receiving
    <3> QED  BY <1>2, <3>1, <3>2 DEF Fewer, WritesTo, apps, maps
  <2> QED  BY <1>2, <1>6, <2>1, DownedNext, PiecesStill DEF Order, Shifted, apps, maps
<1> QED  BY <1>7, <1>8, <1>9 DEF Order

\* A piece is read: there is one reader, so none is held.
LEMMA OrderRead ==
  ASSUME Inv, Inv', Order, [Next]_vars, NEW s \in Sides, NEW c \in Conns, Read(s, c)
  PROVE  Order'
<1>1. <<s, c>> \in Ends /\ taken[<<s, c>>] \in Nat /\ sent[<<s, c>>] \in Nat
  BY Typed
<1>2. /\ taken[<<s, c>>] < sent[<<s, c>>] /\ readers[<<s, c>>] > Cardinality(held[<<s, c>>])
      /\ taken' = [taken EXCEPT ![<<s, c>>] = @ + 1]
      /\ held' = [held EXCEPT ![<<s, c>>] = @ \cup {taken'[<<s, c>>]}]
      /\ UNCHANGED <<sent, got, fin, sock, trigger, readers, maps, chan, recv, sessOpen,
                     broken>>
  BY DEF Read, Reading, sess, loops
<1>3. held[<<s, c>>] = {} /\ trigger[<<"client", c>>] # "none"
  <2>1. readers[<<s, c>>] \in Nat /\ readers[<<s, c>>] <= 1
    BY <1>1 DEF Order, ReadOnce, Inv, TypeOK
  <2>2. IsFiniteSet(held[<<s, c>>])
    BY <1>1 DEF Inv, Counted
  <2>3. Cardinality(held[<<s, c>>]) \in Nat
    BY <2>2, FS_CardinalityType
  <2>4. Cardinality(held[<<s, c>>]) = 0 /\ readers[<<s, c>>] # 0
    BY <1>2, <2>1, <2>3
  <2>5. held[<<s, c>>] = {}
    BY <2>2, <2>4, FS_EmptySet
  <2> QED  BY <2>4, <2>5 DEF Order, Untouched
<1>4. /\ taken'[<<s, c>>] = taken[<<s, c>>] + 1 /\ held'[<<s, c>>] = {taken[<<s, c>>] + 1}
      /\ \A e \in Ends : e # <<s, c>> => taken'[e] = taken[e] /\ held'[e] = held[e]
  <2>1. taken \in [Ends -> Nat] /\ held \in [Ends -> SUBSET Nat]
    BY DEF Inv, TypeOK
  <2>2. taken'[<<s, c>>] = taken[<<s, c>>] + 1
    BY <1>1, <1>2, <2>1
  <2>3. held'[<<s, c>>] = {taken[<<s, c>>] + 1}
    BY <1>1, <1>2, <1>3, <2>1, <2>2
  <2> QED  BY <1>2, <2>1, <2>2, <2>3
<1>5. Shifted
  BY <1>2, StillShifted
<1>6. ReadOnce' /\ Downed' /\ (Up' => Up)
  BY <1>2, <1>5, OthersCalm DEF Shifted, Finishing, maps
<1>7. Untouched'
  <2> SUFFICES ASSUME NEW d \in Conns, trigger'[<<"client", d>>] = "none", NEW t \in Sides
               PROVE  taken'[<<t, d>>] = taken[<<t, d>>]
    BY <1>2, <1>5, UntouchedCalm DEF Order, Shifted, Kept
  <2>1. d # c /\ <<t, d>> \in Ends
    BY <1>2, <1>3 DEF Ends
  <2> QED  BY <1>4, <2>1
<1>8. ASSUME NEW t \in Sides, NEW d \in Conns PROVE Pieces(t, d)'
  <2>1. CASE t # s \/ d # c
    <3>1. <<t, d>> \in Ends /\ <<t, d>> # <<s, c>> /\ sent[<<t, d>>] \in Nat
      BY <2>1, Typed
    <3>2. Fewer
      BY <1>2 DEF Fewer, WritesTo, maps
    <3>3. sent'[<<t, d>>] >= sent[<<t, d>>]
      BY <1>2, <3>1
    <3> QED  BY <1>2, <1>4, <1>5, <1>6, <3>1, <3>2, <3>3, PieceStill DEF Shifted, maps
  <2>2. CASE t = s /\ d = c
    <3>1. Pieces(s, c)
      BY DEF Order
    <3>2. Passed(s, c)' = Passed(s, c)
      <4>1. held'[<<s, c>>] # {} /\ (taken[<<s, c>>] + 1) - 1 = taken[<<s, c>>]
        BY <1>1, <1>4
      <4> QED  BY <1>3, <1>4, <4>1 DEF Passed
    <3>3. /\ taken'[<<s, c>>] <= sent'[<<s, c>>]
          /\ held'[<<s, c>>] \subseteq {taken'[<<s, c>>]} \ {0}
      BY <1>1, <1>2, <1>4
    <3>4. /\ got' = got /\ chan' = chan /\ cid' = cid /\ (Up' <=> Up)
          /\ Reaches(Other(s), c)' <=> Reaches(Other(s), c)
      BY <1>2 DEF Up, Reaches, WritesTo, maps
    <3>5. \A i : Carries(s, i, c)' <=> Carries(s, i, c)
      BY <3>4 DEF Carries
    <3> QED  BY <2>2, <3>1, <3>2, <3>3, <3>4, <3>5 DEF Pieces
  <2> QED  BY <2>1, <2>2
<1> QED  BY <1>6, <1>7, <1>8 DEF Order

\* A piece is passed on, behind the one before it: or the session is down.
LEMMA PiecesPassed ==
  ASSUME Inv, NEW s \in Sides, NEW c \in Conns, Pieces(s, c), NEW m \in Message,
         m.type = "REQ", m.conn = c, m.cid = cid[c], m.chunk = taken[<<s, c>>],
         held[<<s, c>>] = {taken[<<s, c>>]}, held'[<<s, c>>] = {},
         \/ chan'[s] = chan[s] /\ ~Up'
         \/ chan'[s] = Append(chan[s], m) /\ Up,
         cid'[c] = cid[c], taken'[<<s, c>>] = taken[<<s, c>>],
         got'[<<Other(s), c>>] = got[<<Other(s), c>>], sent'[<<s, c>>] = sent[<<s, c>>],
         Reaches(Other(s), c)' => Reaches(Other(s), c)
  PROVE  Pieces(s, c)'
<1> DEFINE g == Len(got[<<Other(s), c>>])
<1>1. /\ chan[s] \in Seq(Message) /\ Len(chan[s]) \in Nat /\ taken[<<s, c>>] \in Nat /\ g \in Nat
  BY Typed
<1>2. /\ Passed(s, c)' = taken[<<s, c>>] /\ Passed(s, c) = taken[<<s, c>>] - 1
      /\ taken[<<s, c>>] # 0
  BY DEF Passed, Pieces
<1>3. /\ taken'[<<s, c>>] <= sent'[<<s, c>>] /\ g <= Passed(s, c)
      /\ \A i \in 1 .. g : got'[<<Other(s), c>>][i] = <<c, i>>
  BY DEF Pieces
<1>4. g <= taken[<<s, c>>]
  BY <1>1, <1>2, <1>3
<1>5. ASSUME NEW i \in 1 .. Len(chan[s]), Carries(s, i, c)
      PROVE  /\ chan[s][i].chunk \in 1 .. taken[<<s, c>>] /\ chan[s][i].chunk < taken[<<s, c>>]
             /\ chan[s][i].cid = cid[c]
             /\ \A j \in 1 .. i - 1 : Carries(s, j, c) => chan[s][j].chunk < chan[s][i].chunk
  <2>1. /\ chan[s][i].chunk \in 1 .. Passed(s, c) /\ chan[s][i].cid = cid[c]
        /\ \A j \in 1 .. i - 1 : Carries(s, j, c) => chan[s][j].chunk < chan[s][i].chunk
    BY <1>5 DEF Pieces
  <2>2. \A x \in 1 .. taken[<<s, c>>] - 1 : x \in 1 .. taken[<<s, c>>] /\ x < taken[<<s, c>>]
    BY <1>1
  <2> QED  BY <1>2, <2>1, <2>2
<1>6. CASE chan'[s] = chan[s] /\ ~Up'
  <2>1. \A i : Carries(s, i, c)' <=> Carries(s, i, c)
    BY <1>6 DEF Carries
  <2>2. \A i \in 1 .. Len(chan'[s]) : Carries(s, i, c)' =>
          /\ chan'[s][i].chunk \in 1 .. taken[<<s, c>>] /\ chan'[s][i].cid = cid[c]
          /\ \A j \in 1 .. i - 1 : Carries(s, j, c)' => chan'[s][j].chunk < chan'[s][i].chunk
    BY <1>5, <1>6, <2>1
  <2>3. Reaches(Other(s), c)' => \A i \in 1 .. Len(chan'[s]) : Carries(s, i, c)' =>
          /\ chan'[s][i].chunk > g
          /\ \/ chan'[s][i].chunk = g + 1
             \/ \E j \in 1 .. i - 1 : Carries(s, j, c)' /\ chan'[s][j].chunk + 1 = chan'[s][i].chunk
    BY <1>6, <2>1 DEF Pieces
  <2>4. held'[<<s, c>>] \subseteq {taken'[<<s, c>>]} \ {0}
    OBVIOUS
  <2> HIDE DEF g
  <2> QED  BY <1>2, <1>3, <1>4, <1>6, <2>2, <2>3, <2>4 DEF Pieces, g
<1>7. CASE chan'[s] = Append(chan[s], m) /\ Up
  <2>0. PICK n \in Nat : n = Len(chan[s]) + 1
    BY <1>1
  <2>1. /\ Len(chan'[s]) = n /\ chan'[s][n] = m
        /\ \A i \in 1 .. Len(chan[s]) : chan'[s][i] = chan[s][i]
        /\ \A i \in 1 .. n : i \in 1 .. Len(chan[s]) \/ i = n
    BY <1>1, <1>7, <2>0
  <2>2. /\ \A i \in 1 .. Len(chan[s]) : Carries(s, i, c)' <=> Carries(s, i, c)
        /\ Carries(s, n, c)'
    BY <2>1 DEF Carries
  <2>4. ASSUME NEW i \in 1 .. Len(chan'[s]), Carries(s, i, c)'
        PROVE  /\ chan'[s][i].chunk \in 1 .. taken[<<s, c>>] /\ chan'[s][i].cid = cid[c]
               /\ \A j \in 1 .. i - 1 : Carries(s, j, c)' => chan'[s][j].chunk < chan'[s][i].chunk
    <3>1. \A j \in 1 .. i - 1 : j \in 1 .. Len(chan[s])
      BY <1>1, <2>0, <2>1
    <3>2. CASE i \in 1 .. Len(chan[s])
      BY <1>5, <2>1, <2>2, <2>4, <3>1, <3>2
    <3>3. CASE i = n
      <4>1. taken[<<s, c>>] \in 1 .. taken[<<s, c>>]
        BY <1>1, <1>2
      <4> QED  BY <1>5, <2>1, <2>2, <3>1, <3>3, <4>1
    <3> QED  BY <2>1, <3>2, <3>3
  <2>5. ASSUME Reaches(Other(s), c)', NEW i \in 1 .. Len(chan'[s]), Carries(s, i, c)'
        PROVE  /\ chan'[s][i].chunk > g
               /\ \/ chan'[s][i].chunk = g + 1
                  \/ \E j \in 1 .. i - 1 : Carries(s, j, c)' /\ chan'[s][j].chunk + 1 = chan'[s][i].chunk
    <3>1. CASE i \in 1 .. Len(chan[s])
      <4>1. /\ chan[s][i].chunk > g
            /\ \/ chan[s][i].chunk = g + 1
               \/ \E j \in 1 .. i - 1 : Carries(s, j, c) /\ chan[s][j].chunk + 1 = chan[s][i].chunk
        BY <2>2, <2>5, <3>1 DEF Pieces
      <4>2. \A j \in 1 .. i - 1 : j \in 1 .. Len(chan[s])
        BY <1>1, <3>1
      <4> QED  BY <2>1, <2>2, <3>1, <4>1, <4>2
    <3>2. CASE i = n
      <4>1. chan'[s][i].chunk = taken[<<s, c>>]
        BY <2>1, <3>2
      <4>2. \/ Passed(s, c) = g
            \/ \E j \in 1 .. Len(chan[s]) : Carries(s, j, c) /\ chan[s][j].chunk = Passed(s, c)
        BY <1>7, <2>5 DEF Pieces
      <4>3. taken[<<s, c>>] > g /\ Passed(s, c) + 1 = taken[<<s, c>>]
        <5>1. \A x, y \in Nat : x <= y - 1 => y > x
          OBVIOUS
        <5>2. \A y \in Nat : (y - 1) + 1 = y
          OBVIOUS
        <5>3. g \in Nat /\ taken[<<s, c>>] \in Nat /\ g <= taken[<<s, c>>] - 1
          BY <1>1, <1>2, <1>3
        <5> QED  BY <1>2, <5>1, <5>2, <5>3
      <4>4. \A j \in 1 .. Len(chan[s]) : j \in 1 .. i - 1
        BY <1>1, <2>0, <3>2
      <4>5. CASE Passed(s, c) = g
        BY <4>1, <4>3, <4>5
      <4>6. ASSUME NEW j \in 1 .. Len(chan[s]), Carries(s, j, c), chan[s][j].chunk = Passed(s, c)
            PROVE  \E x \in 1 .. i - 1 :
                     Carries(s, x, c)' /\ chan'[s][x].chunk + 1 = chan'[s][i].chunk
        <5>1. Carries(s, j, c)' /\ chan'[s][j].chunk + 1 = chan'[s][i].chunk
          BY <2>1, <2>2, <4>1, <4>3, <4>6
        <5> QED  BY <4>4, <5>1
      <4> QED  BY <4>1, <4>2, <4>3, <4>5, <4>6
    <3> QED  BY <2>1, <3>1, <3>2
  <2>6. \E i \in 1 .. Len(chan'[s]) : Carries(s, i, c)' /\ chan'[s][i].chunk = taken[<<s, c>>]
    <3>1. n \in 1 .. Len(chan'[s]) /\ chan'[s][n].chunk = taken[<<s, c>>]
      BY <1>1, <2>0, <2>1
    <3> QED  BY <2>2, <3>1
  <2> HIDE DEF g
  <2> QED  BY <1>2, <1>3, <1>4, <2>4, <2>5, <2>6 DEF Pieces, g
<1> QED  BY <1>6, <1>7

\* The reader passes on the piece it holds.
LEMMA OrderSendReq ==
  ASSUME Inv, Inv', Order, [Next]_vars, NEW s \in Sides, NEW c \in Conns, SendReq(s, c)
  PROVE  Order'
<1>1. <<s, c>> \in Ends /\ taken[<<s, c>>] \in Nat /\ Pieces(s, c)
  BY Typed DEF Order
<1>2. PICK k \in held[<<s, c>>] :
        /\ Write(s, Msg("REQ", cid[c], c, k)) /\ held' = [held EXCEPT ![<<s, c>>] = @ \ {k}]
  BY DEF SendReq
<1>3. /\ readers' = [readers EXCEPT ![<<s, c>>] = IF isClose[<<s, c>>] THEN @ - 1 ELSE @]
      /\ UNCHANGED <<sent, taken, got, fin, sock, trigger, maps, recv>>
  BY DEF SendReq, apps, loops
<1>4. k = taken[<<s, c>>] /\ held[<<s, c>>] = {taken[<<s, c>>]} /\ k # 0
  BY <1>1, <1>2 DEF Pieces
<1>5. trigger[<<"client", c>>] # "none" /\ cid[c] \in CIDs
  <2>1. trigger[<<"client", c>>] # "none"
    BY <1>4 DEF Order, Untouched
  <2> QED  BY <2>1 DEF Inv, TypeOK, Numbered, CIDs, Sides
<1>6. /\ held'[<<s, c>>] = {}
      /\ \A e \in Ends : e # <<s, c>> => held'[e] = held[e]
  BY <1>1, <1>2, <1>4 DEF Inv, TypeOK
<1>7. PICK m \in Message : /\ m.type = "REQ" /\ m.conn = c /\ m.cid = cid[c] /\ m.chunk = k
                           /\ Write(s, m)
  <2>1. Msg("REQ", cid[c], c, k) \in Message
    BY <1>1, <1>4, <1>5 DEF Msg, Message
  <2> QED  BY <1>2, <2>1 DEF Msg
<1>8. /\ KeptDone(0)
      /\ \A t \in Sides, d \in Conns : t # s \/ d # c => Kept(t, 0, d)
  BY <1>7, WriteKept
<1>9. \A e \in Ends : readers'[e] \in Nat /\ readers'[e] <= readers[e]
  <2>1. \A e \in Ends : readers[e] \in Nat /\ readers'[e] \in Nat
    BY DEF Inv, TypeOK
  <2>2. \A e \in Ends : readers'[e] = readers[e] \/ readers'[e] = readers[e] - 1
    BY <1>3 DEF Inv, TypeOK
  <2> QED  BY <2>1, <2>2
<1>10. ReadOnce' /\ Downed' /\ (Up' => Up)
  <2>1. /\ cid' = cid /\ seq' = seq /\ \A d \in Conns : Finishing(d)' => Finishing(d)
        /\ \A t \in Sides, d \in Conns : <<t, d>> \in Ends
    BY <1>3 DEF Finishing, maps, Ends
  <2> QED  BY <1>3, <1>8, <1>9, <2>1, ReadOnceCalm, DownedNext DEF Order
<1>11. Untouched'
  <2>1. ASSUME NEW d \in Conns, trigger'[<<"client", d>>] = "none", NEW t \in Sides
        PROVE  /\ readers[<<t, d>>] = 0 => readers'[<<t, d>>] = 0
               /\ \A i \in 1 .. Len(chan'[t]) : Carries(t, i, d)' =>
                    \E j \in 1 .. Len(chan[t]) : Carries(t, j, d)
    <3>1. d # c /\ <<t, d>> \in Ends
      BY <1>3, <1>5, <2>1 DEF Ends
    <3>2. readers'[<<t, d>>] \in Nat /\ readers'[<<t, d>>] <= readers[<<t, d>>]
      BY <1>9, <3>1
    <3>3. readers[<<t, d>>] = 0 => readers'[<<t, d>>] = 0
      BY <3>2
    <3> QED  BY <1>8, <3>1, <3>3 DEF Kept
  <2> QED  BY <1>3, <2>1, UntouchedCalm DEF Order
<1>12. Fewer
  BY <1>3 DEF Fewer, WritesTo, maps
<1>13. ASSUME NEW t \in Sides, NEW d \in Conns PROVE Pieces(t, d)'
  <2>1. CASE t # s \/ d # c
    <3>1. <<t, d>> \in Ends /\ <<t, d>> # <<s, c>> /\ sent[<<t, d>>] \in Nat
      BY <2>1, Typed
    <3>2. sent'[<<t, d>>] >= sent[<<t, d>>]
      BY <1>3, <3>1
    <3> QED  BY <1>3, <1>6, <1>8, <1>10, <1>12, <2>1, <3>1, <3>2, PieceStill DEF maps
  <2>2. CASE t = s /\ d = c
    <3>1. \/ chan'[s] = chan[s] /\ ~Up'
          \/ chan'[s] = Append(chan[s], m) /\ Up
      <4>1. CASE Written(s, m) /\ Up
        BY <4>1 DEF Written, Inv, TypeOK
      <4>2. CASE ~Up
        <5>1. chan' = chan
          BY <1>7, <4>2 DEF Write, Written, WriteFails
        <5> QED  BY <1>10, <4>2, <5>1
      <4> QED  BY <1>7, <4>1, <4>2 DEF Write, WriteFails
    <3>2. Reaches(Other(s), c)' => Reaches(Other(s), c)
      BY <1>3 DEF Reaches, WritesTo, maps
    <3> QED  BY <1>1, <1>3, <1>4, <1>6, <1>7, <2>2, <3>1, <3>2, PiecesPassed DEF maps
  <2> QED  BY <2>1, <2>2
<1> QED  BY <1>10, <1>11, <1>13 DEF Order

\* A new connection has a number that no message has.
LEMMA OrderAccept ==
  ASSUME Inv, Inv', Order, Drawn, [Next]_vars, NEW c \in Conns, Accept(c), seq' = seq + 1
  PROVE  Order'
<1>1. cid[c] = 0 /\ seq \in Nat /\ c \in Conns
  BY DEF Accept, Inv, Numbered, TypeOK
<1>2. /\ UNCHANGED <<apps, readers, held, bind, chan, recv>>
      /\ cid' = [cid EXCEPT ![c] = seq + 1]
      /\ trigger' = [trigger EXCEPT ![<<"proxy", c>>] = "armed"]
      /\ sock' = [sock EXCEPT ![<<"proxy", c>>] = "open"]
  BY DEF Accept, sess
<1>3. cid'[c] = seq + 1 /\ \A d \in Conns : d # c => cid'[d] = cid[d]
  BY <1>2 DEF Inv, TypeOK
<1>4. \A d \in Conns : trigger'[<<"client", d>>] = trigger[<<"client", d>>]
  BY <1>2 DEF Inv, TypeOK, Ends, Sides
<1>5. \A i \in 1 .. Len(chan["client"]) : chan["client"][i].cid \in Nat
  <2>1. chan["client"] \in Seq(Message)
    BY Typed DEF Sides
  <2>2. \A x \in Message : x.cid \in Nat
    BY DEF Message, CIDs
  <2> QED  BY <2>1, <2>2
<1>6. /\ trigger[<<"client", c>>] = "none" /\ ~Finishing(c)
      /\ \A i \in 1 .. Len(chan["client"]) :
           chan["client"][i].type = "DONE" => chan["client"][i].cid # seq + 1
  <2>1. trigger[<<"client", c>>] = "none"
    BY <1>1 DEF Inv, Numbered, Sides
  <2>2. ASSUME NEW i \in 1 .. Len(chan["client"]), chan["client"][i].type = "DONE"
        PROVE  chan["client"][i].cid # seq + 1
    <3>1. chan["client"][i].cid \in Nat
      BY <1>5
    <3>2. chan["client"][i].cid <= seq
      BY <2>2 DEF Order, ReadOnce
    <3> QED  BY <1>1, <3>1, <3>2
  <2> QED  BY <2>1, <2>2 DEF Order, ReadOnce
<1>7. Shifted
  BY <1>2, StillShifted
<1>8. ReadOnce'
  <2>1. \A d \in Conns : Finishing(d)' => Finishing(d) /\ d # c
    BY <1>2, <1>6 DEF Finishing
  <2>2. \A i \in 1 .. Len(chan["client"]), d \in Conns :
          Finishes(i, d)' => Finishes(i, d) /\ d # c
    BY <1>2, <1>3, <1>6 DEF Finishes
  <2>3. \A i \in 1 .. Len(chan["client"]) :
          chan["client"][i].type = "DONE" => chan["client"][i].cid <= seq'
    <3> SUFFICES ASSUME NEW i \in 1 .. Len(chan["client"]), chan["client"][i].type = "DONE"
                 PROVE  chan["client"][i].cid <= seq'
      OBVIOUS
    <3>1. chan["client"][i].cid \in Nat
      BY <1>5
    <3>2. chan["client"][i].cid <= seq
      BY DEF Order, ReadOnce
    <3> QED  BY <1>1, <3>1, <3>2
  <2> QED  BY <1>2, <1>4, <2>1, <2>2, <2>3 DEF Order, ReadOnce
<1>9. Untouched'
  BY <1>2, <1>4, <1>7, UntouchedCalm DEF Order, Shifted, Kept, apps
<1>10. Downed' /\ (Up' => Up)
  BY DownedNext DEF Order
<1>11. ASSUME NEW s \in Sides, NEW d \in Conns PROVE Pieces(s, d)'
  <2>1. /\ Pieces(s, d) /\ sent'[<<s, d>>] = sent[<<s, d>>] /\ sent[<<s, d>>] \in Nat
        /\ Other(s) \in Sides /\ <<Other(s), d>> \in Ends
    BY <1>2, Typed DEF Order, apps
  <2>2. CASE d = c
    <3>1. /\ taken[<<s, d>>] = 0 /\ \A i \in 1 .. Len(chan[s]) : ~Carries(s, i, d)
      BY <1>6, <2>2 DEF Order, Untouched
    <3>2. \A i \in 1 .. Len(chan'[s]) : ~Carries(s, i, d)'
      BY <1>2, <3>1 DEF Carries
    <3> QED  BY <1>2, <2>1, <3>1, <3>2, PiecesFresh DEF apps
  <2>3. CASE d # c
    <3>1. Reaches(Other(s), d)' => Reaches(Other(s), d)
      <4>1. sock'[<<Other(s), d>>] = sock[<<Other(s), d>>]
        BY <1>2, <2>1, <2>3 DEF Inv, TypeOK
      <4> QED  BY <1>2, <1>3, <2>3, <4>1 DEF Reaches, WritesTo, apps
    <3>2. PICK x \in {0, 1} : Kept(s, x, d)
      BY <1>7 DEF Shifted
    <3>3. sent[<<s, d>>] >= sent[<<s, d>>]
      BY <2>1
    <3> QED  BY <1>2, <1>3, <1>10, <2>1, <2>3, <3>1, <3>2, <3>3, PiecesCalm DEF apps
  <2> QED  BY <2>2, <2>3
<1> QED  BY <1>8, <1>9, <1>10, <1>11 DEF Order

\* The order holds on.
LEMMA OrderNext ==
  ASSUME FewConns, Inv, Inv', Writing, Unique, Drawn, Order, [Next]_vars PROVE Order'
<1>1. CASE \/ Break \/ checkClientHB \/ sendHB \/ CloseListener \/ UNCHANGED vars
           \/ \E s \in Sides : Stop(s) \/ StopSess(s)
  BY <1>1, OrderSession
<1>2. CASE AcceptLoop
  BY <1>2, OrderStore, OrderControl DEF AcceptLoop, Sides
<1>3. ASSUME NEW c \in Conns, Accept(c) PROVE Order'
  BY <1>3, AcceptDraws, OrderAccept
<1>4. ASSUME NEW s \in Sides, Receiver(s) PROVE Order'
  <2>1. \/ ReceiveEnd(s)
        \/ \E t \in Sides : \/ OnReq(t) \/ OnReqWrite(t) \/ OnClose(t)
                            \/ OnCloseUnbind(t) \/ OnCloseClose(t)
        \/ clientConnCreateDoneHandler \/ proxyCreateBrowserConnHandler
    BY <1>4 DEF Receiver, clientReqHandler, proxyReqHandler, clientConnCloseHandler,
                proxyCloseBrowserConnHandler, Sides
  <2>2. CASE \E t \in Sides : \/ OnReq(t) \/ OnReqWrite(t) \/ OnClose(t)
                              \/ OnCloseUnbind(t) \/ OnCloseClose(t)
    BY <2>2, OrderOnReq, OrderOnReqWrite, OrderControl
  <2>3. CASE proxyCreateBrowserConnHandler
    <3>1. CASE OnCreate \/ DialRefused \/ SendRefused
      BY <3>1, OrderControl DEF Sides
    <3>2. CASE DialStore \/ ArmForward \/ sendCreateConnDoneEvent
      BY <3>2, OrderStore, OrderArmForward, OrderDone
    <3> QED  BY <2>3, <3>1, <3>2 DEF proxyCreateBrowserConnHandler
  <2> QED  BY <2>1, <2>2, <2>3, OrderReceiveEnd, OrderDoneHandler
<1>5. ASSUME NEW s \in Sides, NEW c \in Conns,
             App(s, c) \/ Reader(s, c) \/ Trigger(s, c) \/ Finalize(s, c)
      PROVE  Order'
  <2>1. CASE Read(s, c) \/ SendReq(s, c)
    BY <2>1, OrderRead, OrderSendReq
  <2>2. CASE App(s, c) \/ ReadEnd(s, c) \/ Trigger(s, c) \/ Finalize(s, c)
    BY <2>2, OrderConnection
  <2> QED  BY <1>5, <2>1, <2>2 DEF Reader
<1> QED  BY <1>1, <1>2, <1>3, <1>4, <1>5 DEF Next

LEMMA OrderInit == Init => Order /\ Drawn /\ Unique
<1> SUFFICES ASSUME Init PROVE Order /\ Drawn /\ Unique
  OBVIOUS
<1>1. Accepted = {} /\ Cardinality({}) = 0
  BY FS_EmptySet DEF Init, Accepted
<1>2. Drawn /\ Unique
  BY <1>1 DEF Init, Drawn, Unique
<1>3. \A s \in Sides : chan[s] = <<>> /\ recv[s].pc = "read" /\ ~sessClose[s]
  BY DEF Init, At
<1>4. \A s \in Sides : \A i \in 1 .. Len(chan[s]) : FALSE
  BY <1>3
<1>5. ASSUME NEW s \in Sides, NEW c \in Conns
      PROVE  /\ readers[<<s, c>>] = 0 /\ taken[<<s, c>>] = 0 /\ sent[<<s, c>>] = 0
             /\ held[<<s, c>>] = {} /\ got[<<Other(s), c>>] = <<>>
  BY DEF Init, Ends, Other, Sides
<1>6. ReadOnce /\ Untouched /\ Downed
  <2>1. ASSUME NEW s \in Sides, NEW c \in Conns PROVE readers[<<s, c>>] <= 1
    <3>1. readers[<<s, c>>] = 0
      BY <1>5
    <3> QED  BY <3>1
  <2>2. "client" \in Sides /\ "proxy" \in Sides
    BY DEF Sides
  <2>3. \A c \in Conns : ~Finishing(c)
    BY <1>3, <2>2 DEF Finishing
  <2>4. ReadOnce
    BY <1>4, <2>1, <2>2, <2>3 DEF ReadOnce
  <2> QED  BY <1>3, <1>4, <1>5, <2>4 DEF Untouched, Downed
<1>7. \A s \in Sides, c \in Conns : Pieces(s, c)
  <2> SUFFICES ASSUME NEW s \in Sides, NEW c \in Conns PROVE Pieces(s, c)
    OBVIOUS
  <2>1. Len(got[<<Other(s), c>>]) = 0 /\ Passed(s, c) = 0
    BY <1>5 DEF Passed
  <2> QED  BY <1>4, <1>5, <2>1 DEF Pieces
<1> QED  BY <1>2, <1>6, <1>7 DEF Order

\* What an application receives is what the other application of its own connection
\* sent, from the first piece on, without a gap, in order and once, for any faults and
\* any interleaving of the goroutines, as long as no number is given twice: what one
\* connection's application sends never reaches another's.
THEOREM DeliveredInOrder ==
  ASSUME FewConns
  PROVE  Spec => []InOrder
<1>1. Inv /\ Inv' /\ Writing /\ Order /\ Drawn /\ Unique /\ [Next]_vars /\ FewConns
      => Order' /\ Drawn' /\ Unique'
  BY OrderNext, DrawnNext
<1>2. Inv /\ Order => InOrder
  <2> SUFFICES ASSUME Inv, Order, NEW s \in Sides, NEW c \in Conns
               PROVE  /\ Len(got[<<s, c>>]) <= sent[<<Other(s), c>>]
                      /\ \A i \in 1 .. Len(got[<<s, c>>]) : got[<<s, c>>][i] = <<c, i>>
    BY DEF InOrder
  <2>1. PICK o \in Sides : o = Other(s) /\ Other(o) = s
    BY Typed
  <2>2. Pieces(o, c)
    BY DEF Order
  <2>3. /\ taken[<<o, c>>] \in Nat /\ sent[<<o, c>>] \in Nat /\ Len(got[<<s, c>>]) \in Nat
        /\ taken[<<o, c>>] <= sent[<<o, c>>] /\ Len(got[<<s, c>>]) <= Passed(o, c)
    BY <2>1, <2>2, Typed DEF Pieces
  <2>4. Passed(o, c) <= taken[<<o, c>>] /\ Passed(o, c) \in Int
    BY <2>3 DEF Passed
  <2>5. Len(got[<<s, c>>]) <= sent[<<o, c>>]
    BY <2>3, <2>4
  <2> QED  BY <2>1, <2>2, <2>5 DEF Pieces
<1> QED  BY <1>1, <1>2, OrderInit, Invariance, PTL DEF Spec

-----------------------------------------------------------------------------
\* The promise of the tunnel (TunnelService).  Besides the order it says that no
\* application's end is closed early: it left itself, or the other one left and all
\* it sent has arrived, or something failed (Cut).
\*
\* The application left, and all that it sent has been passed on.
Left(s, c) == /\ fin[<<s, c>>] /\ taken[<<s, c>>] = sent[<<s, c>>] /\ held[<<s, c>>] = {}

\* Nothing more is to be passed on for an end, and nothing more is to arrive there.
Rests(s, c) ==
  /\ fin[<<Other(s), c>>] \/ Left(s, c)
  /\ \/ fin[<<s, c>>]
     \/ fin[<<Other(s), c>>] /\ Len(got[<<s, c>>]) = sent[<<Other(s), c>>]

\* An end that is closed or about to be.
Closing(s, c) ==
  \/ isClose[<<s, c>>] \/ sock[<<s, c>>] = "closed"
  \/ trigger[<<s, c>>] \notin {"none", "armed"}
  \/ recv[s].pc \in {"unbind", "close"} /\ recv[s].conn = c

\* A CLOSE under c's number in flight.
Closes(s, i, c) == chan[s][i].type = "CLOSE" /\ chan[s][i].cid = cid[c]

\* Where nothing failed, an end is closed only when it rests, a CLOSE comes from an
\* end that rests and behind all its data, and no signal from outside was heard.
Ending(s, c) ==
  c \notin Cut =>
    /\ Closing(s, c) => Rests(s, c)
    /\ trigger[<<s, c>>] # "close" /\ ~due[<<s, c>>]
    /\ \A i \in 1 .. Len(chan[s]) : Closes(s, i, c) =>
         /\ Rests(s, c)
         /\ fin[<<Other(s), c>>] \/ \A j \in i + 1 .. Len(chan[s]) : ~Carries(s, j, c)

\* The client's end is made when it is dialled, and once; a refused dial is recorded.
Made ==
  /\ \A c \in Conns : trigger[<<"client", c>>] = "none" =>
       \/ recv["client"].pc = "arm" /\ recv["client"].conn = c
       \/ /\ sock[<<"client", c>>] = "none"
          /\ \A n \in CIDs : bind[<<"client", n>>] # c
  /\ \A c \in Conns, n \in CIDs : bind[<<"client", n>>] = c => sock[<<"client", c>>] # "none"
  /\ recv["client"].pc \in {"unbind", "close"} =>
       trigger[<<"client", recv["client"].conn>>] # "none"
  /\ recv["client"].pc = "refuse" => recv["client"].conn \in failed

\* The invariant: what was defined, and every CLOSE has a number that was drawn.
Endings ==
  /\ Made
  /\ \A s \in Sides, c \in Conns : Ending(s, c)
  /\ \A s \in Sides : \A i \in 1 .. Len(chan[s]) :
       chan[s][i].type = "CLOSE" => chan[s][i].cid <= seq

\* The steps, one by one.
LEMMA Steps ==
  ASSUME [Next]_vars
  PROVE  \/ UNCHANGED vars \/ Break \/ checkClientHB \/ sendHB \/ CloseListener
         \/ Store \/ sendBrowserConnCreateEvent \/ \E c \in Conns : Accept(c)
         \/ \E s \in Sides : \/ Stop(s) \/ StopSess(s) \/ ReceiveEnd(s) \/ OnReq(s) \/ OnReqWrite(s)
                             \/ OnClose(s) \/ OnCloseUnbind(s) \/ OnCloseClose(s)
         \/ clientConnCreateDoneHandler \/ OnCreate \/ DialRefused \/ SendRefused
         \/ DialStore \/ ArmForward \/ sendCreateConnDoneEvent
         \/ \E c \in Conns : FireBrowser(c) \/ FireForward(c) \/ UnbindForward(c)
         \/ \E s \in Sides, c \in Conns :
              \/ AppSend(s, c) \/ AppClose(s, c) \/ AppStall(s, c) \/ AppResume(s, c)
              \/ Read(s, c) \/ SendReq(s, c)
              \/ ReadEnd(s, c) \/ Notify(s, c) \/ CloseAfter(s, c) \/ Finalize(s, c)
<1>1. ASSUME NEW s \in Sides, Receiver(s)
      PROVE  \/ \E t \in Sides : \/ ReceiveEnd(t) \/ OnReq(t) \/ OnReqWrite(t)
                                 \/ OnClose(t) \/ OnCloseUnbind(t) \/ OnCloseClose(t)
             \/ clientConnCreateDoneHandler \/ OnCreate \/ DialRefused \/ SendRefused
             \/ DialStore \/ ArmForward \/ sendCreateConnDoneEvent
  BY <1>1 DEF Receiver, clientReqHandler, proxyReqHandler, clientConnCloseHandler,
              proxyCloseBrowserConnHandler, proxyCreateBrowserConnHandler, Sides
<1> QED  BY <1>1 DEF Next, AcceptLoop, App, Reader, Trigger

\* A failure stays one.
LEMMA CutGrows ==
  ASSUME Inv, [Next]_vars PROVE Cut \subseteq Cut' /\ Cut' \subseteq Conns
<1>1. failed \subseteq Conns /\ sessOpen \in [Sides -> BOOLEAN] /\ stop \in [Sides -> BOOLEAN]
  BY DEF Inv, TypeOK
<1>2. failed' \subseteq Conns /\ failed \subseteq failed'
  <2>1. CASE DialRefused
    BY <1>1, <2>1 DEF DialRefused, Inv, Handling, Sides
  <2>2. ASSUME NEW s \in Sides, OnReqWrite(s)
        PROVE  failed' \subseteq Conns /\ failed \subseteq failed'
    <3>1. PICK c \in Conns : c = recv[s].conn
      BY <2>2 DEF OnReqWrite, Inv, Handling
    <3>2. failed' = failed \/ failed' = failed \cup {c}
      BY <2>2, <3>1 DEF OnReqWrite, AppWrite
    <3> QED  BY <1>1, <3>1, <3>2
  <2>3. UNCHANGED failed \/ DialRefused \/ \E s \in Sides : OnReqWrite(s)
    <3>1. CASE \/ UNCHANGED vars \/ Break \/ checkClientHB \/ sendHB \/ CloseListener
               \/ \E s \in Sides : Stop(s) \/ StopSess(s)
      BY <3>1 DEF vars, Break, checkClientHB, sendHB, CloseListener, Stop, StopSess, CloseSess
    <3>2. CASE AcceptLoop \/ \E c \in Conns : Accept(c)
      BY <3>2 DEF AcceptLoop, Store, sendBrowserConnCreateEvent, Accept
    <3>3. ASSUME NEW s \in Sides, Receiver(s)
          PROVE  UNCHANGED failed \/ DialRefused \/ \E t \in Sides : OnReqWrite(t)
      BY <3>3 DEF Receiver, ReceiveEnd, clientReqHandler, proxyReqHandler, OnReq,
                  clientConnCloseHandler, proxyCloseBrowserConnHandler,
                  proxyCreateBrowserConnHandler, OnClose, OnCloseUnbind, OnCloseClose,
                  clientConnCreateDoneHandler, OnCreate, SendRefused, DialStore, ArmForward,
                  sendCreateConnDoneEvent, Sides
    <3>4. ASSUME NEW s \in Sides, NEW c \in Conns,
                 App(s, c) \/ Reader(s, c) \/ Trigger(s, c) \/ Finalize(s, c)
          PROVE  UNCHANGED failed
      BY <3>4 DEF App, AppSend, AppClose, AppStall, AppResume, Reader, Read, SendReq, ReadEnd, Trigger, FireBrowser,
                  FireForward, UnbindForward, Notify, CloseAfter, Finalize
    <3> QED  BY <3>1, <3>2, <3>3, <3>4 DEF Next
  <2> QED  BY <1>1, <2>1, <2>2, <2>3
<1>3. \/ UNCHANGED <<sessOpen, stop, broken, listening>> \/ Break \/ CloseListener
      \/ \E s \in Sides : Stop(s) \/ CloseSess(s)
  <2>0. \A s \in Sides : \A m : Write(s, m) => UNCHANGED <<sessOpen, stop, broken>>
    BY DEF Write, Written, WriteFails
  <2>1. CASE \/ UNCHANGED vars \/ Break \/ checkClientHB \/ sendHB \/ CloseListener
             \/ \E s \in Sides : Stop(s) \/ StopSess(s)
    BY <2>1 DEF vars, sess, loops, checkClientHB, sendHB, WriteFails, StopSess, Sides
  <2>2. CASE AcceptLoop \/ \E c \in Conns : Accept(c)
    BY <2>2 DEF AcceptLoop, Store, sendBrowserConnCreateEvent, Accept, sess, Written, WriteFails
  <2>3. ASSUME NEW s \in Sides, Receiver(s)
        PROVE  UNCHANGED <<sessOpen, stop, broken, listening>>
    <3>1. \A t \in Sides : OnReq(t) \/ OnReqWrite(t) \/ OnClose(t) \/ OnCloseUnbind(t)
                           \/ OnCloseClose(t) \/ ReceiveEnd(t)
            => UNCHANGED <<sessOpen, stop, broken, listening>>
      BY DEF OnReq, OnReqWrite, OnClose, OnCloseUnbind, OnCloseClose, ReceiveEnd, Incoming,
             Consume, sess
    <3>2. clientConnCreateDoneHandler \/ OnCreate \/ DialRefused \/ DialStore \/ ArmForward
             => UNCHANGED <<sessOpen, stop, broken, listening>>
      BY DEF clientConnCreateDoneHandler, OnCreate, DialRefused, DialStore, ArmForward, Incoming,
             Consume, sess
    <3>3. SendRefused \/ sendCreateConnDoneEvent => UNCHANGED <<sessOpen, stop, broken, listening>>
      BY <2>0 DEF SendRefused, sendCreateConnDoneEvent, Sides
    <3> QED  BY <2>3, <3>1, <3>2, <3>3
             DEF Receiver, clientReqHandler, proxyReqHandler, clientConnCloseHandler,
                 proxyCloseBrowserConnHandler, proxyCreateBrowserConnHandler, Sides
  <2>4. ASSUME NEW s \in Sides, NEW c \in Conns,
               App(s, c) \/ Reader(s, c) \/ Trigger(s, c) \/ Finalize(s, c)
        PROVE  UNCHANGED <<sessOpen, stop, broken, listening>>
    <3>1. CASE SendReq(s, c) \/ Notify(s, c)
      BY <2>0, <3>1 DEF SendReq, Notify, loops
    <3>2. CASE ~SendReq(s, c) /\ ~Notify(s, c)
      BY <2>4, <3>2 DEF App, AppSend, AppClose, AppStall, AppResume, Reader, Read, ReadEnd, Trigger, FireBrowser,
                  FireForward, UnbindForward, CloseAfter, Finalize, sess, loops
    <3> QED  BY <3>1, <3>2
  <2> QED  BY <2>1, <2>2, <2>3, <2>4 DEF Next
<1>4. /\ broken => broken'
      /\ \A s \in Sides : sessOpen'[s] => sessOpen[s]
      /\ \A s \in Sides : stop[s] => stop'[s]
      /\ listening' => listening
  <2>1. CASE UNCHANGED <<sessOpen, stop, broken, listening>>
    BY <2>1
  <2>2. CASE Break \/ CloseListener
    BY <2>2 DEF Break, CloseListener, loops, sess
  <2>3. ASSUME NEW s \in Sides, Stop(s)
        PROVE  UNCHANGED <<sessOpen, broken, listening>> /\ \A t \in Sides : stop[t] => stop'[t]
    BY <1>1, <2>3 DEF Stop, loops
  <2>4. ASSUME NEW s \in Sides, CloseSess(s)
        PROVE  UNCHANGED <<stop, broken, listening>> /\ \A t \in Sides : sessOpen'[t] => sessOpen[t]
    BY <1>1, <2>4 DEF CloseSess, loops
  <2> QED  BY <1>3, <2>1, <2>2, <2>3, <2>4
<1> QED  BY <1>1, <1>2, <1>4 DEF Cut, Up

\* The applications' data and the readers' buffers change in these steps only.
LEMMA Moving ==
  ASSUME [Next]_vars
  PROVE  \/ UNCHANGED <<sent, taken, got, fin, held>>
         \/ \E s \in Sides : OnReqWrite(s)
         \/ \E s \in Sides, c \in Conns :
              AppSend(s, c) \/ AppClose(s, c) \/ Read(s, c) \/ SendReq(s, c)
<1>1. CASE \/ UNCHANGED vars \/ Break \/ checkClientHB \/ sendHB \/ CloseListener
           \/ \E s \in Sides : Stop(s) \/ StopSess(s)
  BY <1>1 DEF vars, Break, checkClientHB, sendHB, CloseListener, Stop, StopSess, CloseSess,
              apps, conns
<1>2. CASE AcceptLoop \/ \E c \in Conns : Accept(c)
  BY <1>2 DEF AcceptLoop, Store, sendBrowserConnCreateEvent, Accept, apps, conns
<1>3. ASSUME NEW s \in Sides, Receiver(s), ~\E t \in Sides : OnReqWrite(t)
      PROVE  UNCHANGED <<sent, taken, got, fin, held>>
  BY <1>3 DEF Receiver, ReceiveEnd, clientReqHandler, proxyReqHandler, OnReq, apps,
              clientConnCloseHandler, proxyCloseBrowserConnHandler, proxyCreateBrowserConnHandler, OnClose,
              OnCloseUnbind, OnCloseClose, clientConnCreateDoneHandler, OnCreate, DialRefused,
              SendRefused, DialStore, ArmForward, sendCreateConnDoneEvent, Sides, conns
<1>4. ASSUME NEW s \in Sides, NEW c \in Conns,
             \/ AppStall(s, c) \/ AppResume(s, c)
             \/ ReadEnd(s, c) \/ Trigger(s, c) \/ Finalize(s, c)
      PROVE  UNCHANGED <<sent, taken, got, fin, held>>
  BY <1>4 DEF AppStall, AppResume, ReadEnd, Trigger, FireBrowser, FireForward, UnbindForward,
              Notify, CloseAfter, Finalize, apps, conns
<1> QED  BY <1>1, <1>2, <1>3, <1>4 DEF Next, App, Reader

\* What is never undone: leaving, what was received, and having passed on all.
LEMMA Grows ==
  ASSUME Inv, Order, [Next]_vars, NEW s \in Sides, NEW c \in Conns
  PROVE  /\ fin[<<s, c>>] => fin'[<<s, c>>] /\ sent'[<<s, c>>] = sent[<<s, c>>]
         /\ Len(got'[<<s, c>>]) >= Len(got[<<s, c>>])
         /\ Left(s, c) => Left(s, c)'
<1>1. PICK e \in Ends : e = <<s, c>>
  BY DEF Ends
<1>2. /\ sent \in [Ends -> Nat] /\ taken \in [Ends -> Nat] /\ fin \in [Ends -> BOOLEAN]
      /\ got \in [Ends -> Seq(Conns \X Nat)] /\ held \in [Ends -> SUBSET Nat]
      /\ got[e] \in Seq(Conns \X Nat) /\ Len(got[e]) \in Nat
  BY DEF Inv, TypeOK
<1> DEFINE L == fin[e] /\ taken[e] = sent[e] /\ held[e] = {}
<1>3. SUFFICES /\ fin[e] => fin'[e] /\ sent'[e] = sent[e]
               /\ Len(got'[e]) >= Len(got[e])
               /\ L => taken'[e] = taken[e] /\ held'[e] = {}
  BY <1>1 DEF Left
<1> DEFINE Goal == /\ fin[e] => fin'[e] /\ sent'[e] = sent[e]
                   /\ Len(got'[e]) >= Len(got[e])
                   /\ L => taken'[e] = taken[e] /\ held'[e] = {}
<1>4. CASE UNCHANGED <<sent, taken, got, fin, held>>
  BY <1>2, <1>4
<1>5. ASSUME NEW t \in Sides, OnReqWrite(t) PROVE Goal
  <2>1. UNCHANGED <<sent, taken, fin, held>>
    BY <1>5 DEF OnReqWrite
  <2>2. got' = got \/ \E f, x : got' = [got EXCEPT ![f] = Append(@, x)]
    BY <1>5 DEF OnReqWrite, AppWrite
  <2>3. got'[e] = got[e] \/ \E x : got'[e] = Append(got[e], x)
    BY <1>2, <2>2
  <2>4. Len(got'[e]) >= Len(got[e])
    BY <1>2, <2>3
  <2> QED  BY <2>1, <2>4
<1>6. ASSUME NEW t \in Sides, NEW d \in Conns, AppSend(t, d) PROVE Goal
  <2>1. PICK f \in Ends : f = <<t, d>>
    BY DEF Ends
  <2>2. ~fin[f] /\ sent' = [sent EXCEPT ![f] = @ + 1]
    BY <1>6, <2>1 DEF AppSend
  <2>3. UNCHANGED <<taken, got, fin, held>>
    BY <1>6 DEF AppSend, conns
  <2>4. fin[e] => sent'[e] = sent[e]
    BY <1>2, <2>2
  <2> QED  BY <1>2, <2>3, <2>4
<1>7. ASSUME NEW t \in Sides, NEW d \in Conns, AppClose(t, d) PROVE Goal
  <2>1. fin' = [fin EXCEPT ![<<t, d>>] = TRUE]
    BY <1>7 DEF AppClose
  <2>2. UNCHANGED <<sent, taken, got, held>>
    BY <1>7 DEF AppClose, conns
  <2>3. fin[e] => fin'[e]
    BY <1>2, <2>1
  <2> QED  BY <1>2, <2>2, <2>3
<1>8. ASSUME NEW t \in Sides, NEW d \in Conns, Read(t, d) PROVE Goal
  <2>1. PICK f \in Ends : f = <<t, d>>
    BY DEF Ends
  <2>2. /\ taken[f] < sent[f] /\ taken' = [taken EXCEPT ![f] = @ + 1]
        /\ held' = [held EXCEPT ![f] = @ \cup {taken'[f]}]
    BY <1>8, <2>1 DEF Read
  <2>3. UNCHANGED <<sent, got, fin>>
    BY <1>8 DEF Read
  <2>4. L => e # f
    BY <1>2, <2>2
  <2>5. L => taken'[e] = taken[e] /\ held'[e] = {}
    BY <1>2, <2>2, <2>4
  <2> QED  BY <1>2, <2>3, <2>5
<1>9. ASSUME NEW t \in Sides, NEW d \in Conns, SendReq(t, d) PROVE Goal
  <2>1. \E k : held' = [held EXCEPT ![<<t, d>>] = @ \ {k}]
    BY <1>9 DEF SendReq
  <2>2. UNCHANGED <<sent, got, fin, taken>>
    BY <1>9 DEF SendReq, apps
  <2>3. held[e] = {} => held'[e] = {}
    BY <1>2, <2>1
  <2> QED  BY <1>2, <2>2, <2>3
<1> QED  BY <1>4, <1>5, <1>6, <1>7, <1>8, <1>9, Moving

\* So an end that rests goes on to rest.
LEMMA RestsKept ==
  ASSUME Inv, Inv', Order, Order', [Next]_vars, NEW s \in Sides, NEW c \in Conns, Rests(s, c)
  PROVE  Rests(s, c)'
<1>1. PICK o \in Sides : o = Other(s) /\ Other(o) = s
  BY Typed
<1>2. /\ fin[<<s, c>>] => fin'[<<s, c>>]
      /\ fin[<<o, c>>] => fin'[<<o, c>>] /\ sent'[<<o, c>>] = sent[<<o, c>>]
      /\ Left(s, c) => Left(s, c)'
      /\ Len(got'[<<s, c>>]) >= Len(got[<<s, c>>])
  BY Grows
<1>3. /\ Len(got'[<<s, c>>]) \in Nat /\ Len(got[<<s, c>>]) \in Nat
      /\ Len(got'[<<s, c>>]) <= sent'[<<o, c>>] /\ sent'[<<o, c>>] \in Nat
  <2>1. Pieces(o, c)' /\ <<o, c>> \in Ends /\ <<s, c>> \in Ends
    BY DEF Order, Ends
  <2>2. /\ taken'[<<o, c>>] \in Nat /\ sent'[<<o, c>>] \in Nat
        /\ got'[<<s, c>>] \in Seq(Conns \X Nat) /\ got[<<s, c>>] \in Seq(Conns \X Nat)
    BY <2>1 DEF Inv, TypeOK
  <2>3. Passed(o, c)' \in Int /\ Passed(o, c)' <= taken'[<<o, c>>]
    BY <2>2 DEF Passed
  <2>4. taken'[<<o, c>>] <= sent'[<<o, c>>] /\ Len(got'[<<s, c>>]) <= Passed(o, c)'
    BY <1>1, <2>1 DEF Pieces
  <2>5. Len(got'[<<s, c>>]) \in Nat /\ Len(got[<<s, c>>]) \in Nat
    BY <2>2
  <2> QED  BY <2>2, <2>3, <2>4, <2>5
<1> QED  BY <1>1, <1>2, <1>3 DEF Rests

\* A step that makes no end at the client.
LEMMA MadeCalm ==
  ASSUME Inv', Made, failed \subseteq failed',
         \A c \in Conns : trigger'[<<"client", c>>] = "none" => trigger[<<"client", c>>] = "none",
         \A c \in Conns : \/ sock'[<<"client", c>>] = sock[<<"client", c>>]
                          \/ trigger[<<"client", c>>] # "none" /\ sock'[<<"client", c>>] # "none",
         \A n \in CIDs : bind'[<<"client", n>>] \in {bind[<<"client", n>>], None},
         \/ recv'["client"] = recv["client"]
         \/ /\ recv["client"].pc # "arm"
            /\ recv'["client"].pc \in {"unbind", "close"} =>
                 trigger[<<"client", recv'["client"].conn>>] # "none"
            /\ recv'["client"].pc = "refuse" => recv'["client"].conn \in failed'
  PROVE  Made'
<1>1. ASSUME NEW c \in Conns, NEW n \in CIDs, bind'[<<"client", n>>] = c
      PROVE  bind[<<"client", n>>] = c
  BY <1>1, ConnsAssumption
<1>2. ASSUME NEW c \in Conns, NEW n \in CIDs, bind'[<<"client", n>>] = c
      PROVE  sock'[<<"client", c>>] # "none"
  BY <1>1, <1>2 DEF Made
<1>3. ASSUME NEW c \in Conns, trigger'[<<"client", c>>] = "none"
      PROVE  \/ recv'["client"].pc = "arm" /\ recv'["client"].conn = c
             \/ /\ sock'[<<"client", c>>] = "none"
                /\ \A n \in CIDs : bind'[<<"client", n>>] # c
  <2>1. trigger[<<"client", c>>] = "none" /\ sock'[<<"client", c>>] = sock[<<"client", c>>]
    BY <1>3
  <2> QED  BY <1>1, <2>1 DEF Made
<1>4. ASSUME recv'["client"].pc \in {"unbind", "close"}
      PROVE  trigger'[<<"client", recv'["client"].conn>>] # "none"
  <2>1. trigger[<<"client", recv'["client"].conn>>] # "none"
    BY <1>4 DEF Made
  <2>2. recv'["client"].conn \in Conns
    BY <1>4 DEF Inv, Handling, Sides
  <2> QED  BY <2>1, <2>2
<1>5. recv'["client"].pc = "refuse" => recv'["client"].conn \in failed'
  BY DEF Made
<1> QED  BY <1>2, <1>3, <1>4, <1>5 DEF Made

\* The dial and the close trigger.
LEMMA MadeDial ==
  ASSUME Inv, Made, DialStore \/ ArmForward PROVE Made'
<1>1. PICK e \in Conns : e = recv["client"].conn
  BY DEF DialStore, ArmForward, Inv, Handling, Sides
<1>2. /\ recv \in [Sides -> Receiving] /\ "client" \in Sides
      /\ \A c \in Conns : <<"client", c>> \in Ends
      /\ sock \in [Ends -> {"none", "open", "closed"}]
      /\ trigger \in [Ends -> {"none", "armed", "unbind", "notify", "close", "done"}]
      /\ bind \in [Sides \X CIDs -> Conns \cup {None}]
  BY DEF Inv, TypeOK, Receiving, Sides, Ends
<1>3. CASE DialStore
  <2>1. /\ recv' = [recv EXCEPT !["client"].pc = "arm"] /\ trigger' = trigger
        /\ sock' = [sock EXCEPT ![<<"client", e>>] = "open"]
        /\ bind' = [bind EXCEPT ![<<"client", recv["client"].cid>>] = e]
    BY <1>1, <1>3 DEF DialStore
  <2>2. recv'["client"].pc = "arm" /\ recv'["client"].conn = e
    BY <1>1, <1>2, <2>1 DEF Receiving
  <2>3. /\ sock'[<<"client", e>>] = "open"
        /\ \A c \in Conns : c # e => sock'[<<"client", c>>] = sock[<<"client", c>>]
    BY <1>2, <2>1
  <2>4. \A n \in CIDs : bind'[<<"client", n>>] \in {e, bind[<<"client", n>>]}
    BY <1>2, <2>1
  <2>5. recv["client"].pc = "dial"
    BY <1>3 DEF DialStore
  <2>6. ASSUME NEW c \in Conns, trigger'[<<"client", c>>] = "none", c # e
        PROVE  /\ sock'[<<"client", c>>] = "none"
               /\ \A n \in CIDs : bind'[<<"client", n>>] # c
    <3>1. sock[<<"client", c>>] = "none" /\ \A n \in CIDs : bind[<<"client", n>>] # c
      BY <2>1, <2>5, <2>6 DEF Made
    <3> QED  BY <2>3, <2>4, <2>6, <3>1
  <2>7. ASSUME NEW c \in Conns, NEW n \in CIDs, bind'[<<"client", n>>] = c
        PROVE  sock'[<<"client", c>>] # "none"
    <3>1. CASE c = e
      BY <2>3, <3>1
    <3>2. CASE c # e
      <4>1. bind[<<"client", n>>] = c
        BY <2>4, <2>7, <3>2
      <4> QED  BY <2>3, <3>2, <4>1 DEF Made
    <3> QED  BY <3>1, <3>2
  <2> QED  BY <2>2, <2>6, <2>7 DEF Made
<1>4. CASE ArmForward
  <2>1. /\ recv' = [recv EXCEPT !["client"].pc = "done"]
        /\ trigger' = [trigger EXCEPT ![<<"client", e>>] = "armed"]
        /\ UNCHANGED <<sock, bind>> /\ recv["client"].pc = "arm"
    BY <1>1, <1>4 DEF ArmForward, maps
  <2>2. recv'["client"].pc = "done"
    BY <1>2, <2>1 DEF Receiving
  <2>3. /\ trigger'[<<"client", e>>] = "armed"
        /\ \A c \in Conns : c # e => trigger'[<<"client", c>>] = trigger[<<"client", c>>]
    BY <1>2, <2>1
  <2> QED  BY <1>1, <2>1, <2>2, <2>3 DEF Made
<1> QED  BY <1>3, <1>4

\* The invariant Made holds on.
LEMMA MadeNext ==
  ASSUME Inv, Inv', Made, [Next]_vars PROVE Made'
<1>0. /\ "client" \in Sides /\ "proxy" \in Sides
      /\ \A s \in Sides, c \in Conns : <<s, c>> \in Ends
      /\ sock \in [Ends -> {"none", "open", "closed"}]
      /\ trigger \in [Ends -> {"none", "armed", "unbind", "notify", "close", "done"}]
      /\ bind \in [Sides \X CIDs -> Conns \cup {None}]
      /\ recv \in [Sides -> Receiving]
  BY DEF Inv, TypeOK, Receiving, Sides, Ends
<1> DEFINE Trig == \A c \in Conns :
                     trigger'[<<"client", c>>] = "none" => trigger[<<"client", c>>] = "none"
           Sock == \A c \in Conns :
                     \/ sock'[<<"client", c>>] = sock[<<"client", c>>]
                     \/ trigger[<<"client", c>>] # "none" /\ sock'[<<"client", c>>] # "none"
           Bind == \A n \in CIDs : bind'[<<"client", n>>] \in {bind[<<"client", n>>], None}
           Recv == \/ recv'["client"] = recv["client"]
                   \/ /\ recv["client"].pc # "arm"
                      /\ recv'["client"].pc \in {"unbind", "close"} =>
                           trigger[<<"client", recv'["client"].conn>>] # "none"
                      /\ recv'["client"].pc = "refuse" => recv'["client"].conn \in failed'
<1>1. ASSUME Trig, Sock, Bind, Recv, failed \subseteq failed' PROVE Made'
  BY <1>1, MadeCalm
<1>2. ASSUME NEW s \in Sides, NEW c \in Conns, sock' = [sock EXCEPT ![<<s, c>>] = "closed"],
             s = "client" => trigger[<<"client", c>>] # "none"
      PROVE  Sock
  BY <1>0, <1>2
<1>3. ASSUME NEW x, bind' = [bind EXCEPT ![x] = None] PROVE Bind
  BY <1>0, <1>3
<1>4. ASSUME NEW e, NEW x, x # "none", trigger' = [trigger EXCEPT ![e] = x] PROVE Trig
  BY <1>0, <1>4
<1>5. /\ trigger' = trigger => Trig
      /\ sock' = sock => Sock
      /\ bind' = bind => Bind
      /\ recv' = recv => Recv
  OBVIOUS
<1>6. ASSUME NEW s \in Sides, NEW r, recv' = [recv EXCEPT ![s] = r], recv["client"].pc # "arm",
             r.pc \notin {"unbind", "close", "refuse"}
      PROVE  Recv
  BY <1>0, <1>6
<1>7. \A s \in Sides : Loop(s).pc \notin {"unbind", "close", "refuse"}
  BY DEF Loop, At
<1> HIDE DEF Trig, Sock, Bind, Recv
<1>8. CASE \/ UNCHANGED vars \/ Break \/ checkClientHB \/ sendHB \/ CloseListener
           \/ \E s \in Sides : Stop(s) \/ StopSess(s)
  <2>1. UNCHANGED <<trigger, sock, bind, recv, failed>>
    BY <1>8 DEF vars, Break, checkClientHB, sendHB, CloseListener, Stop, StopSess, CloseSess, conns, maps, loops
  <2> QED  BY <1>1, <1>5, <2>1
<1>9. CASE Store
  <2>1. UNCHANGED <<trigger, sock, recv, failed>>
        /\ bind' = [bind EXCEPT ![<<"proxy", accept.cid>>] = accept.conn]
    BY <1>9 DEF Store, conns
  <2>2. Bind
    BY <1>0, <2>1 DEF Bind
  <2> QED  BY <1>1, <1>5, <2>1, <2>2
<1>10. CASE sendBrowserConnCreateEvent
  <2>1. UNCHANGED <<trigger, bind, recv, failed>> /\ accept.conn \in Conns
        /\ (sock' = sock \/ sock' = [sock EXCEPT ![<<"proxy", accept.conn>>] = "closed"])
    BY <1>10 DEF sendBrowserConnCreateEvent, maps, Inv, Accepting
  <2> QED  BY <1>0, <1>1, <1>2, <1>5, <2>1
<1>11. ASSUME NEW c \in Conns, Accept(c) PROVE Made'
  <2>1. /\ UNCHANGED <<bind, recv, failed>>
        /\ sock' = [sock EXCEPT ![<<"proxy", c>>] = "open"]
        /\ trigger' = [trigger EXCEPT ![<<"proxy", c>>] = "armed"]
    BY <1>11 DEF Accept
  <2>2. Sock
    BY <1>0, <2>1 DEF Sock
  <2> QED  BY <1>1, <1>4, <1>5, <2>1, <2>2
<1>12. ASSUME NEW s \in Sides, ReceiveEnd(s) \/ OnReq(s) \/ OnReqWrite(s) PROVE Made'
  <2>1. UNCHANGED <<trigger, sock, bind>> /\ recv[s].pc # "arm"
    BY <1>12 DEF ReceiveEnd, OnReq, OnReqWrite, AtHead, conns, maps
  <2>2. \E r : r.pc \notin {"unbind", "close", "refuse"} /\ recv' = [recv EXCEPT ![s] = r]
    <3>1. /\ At("end", None, 0).pc \notin {"unbind", "close", "refuse"}
          /\ \A c, n : At("write", c, n).pc \notin {"unbind", "close", "refuse"}
      BY DEF At
    <3> QED  BY <1>7, <1>12, <3>1 DEF ReceiveEnd, OnReq, OnReqWrite
  <2>3. Recv
    <3>1. CASE s = "client"
      BY <1>6, <2>1, <2>2, <3>1
    <3>2. CASE s # "client"
      BY <1>0, <2>2, <3>2 DEF Recv
    <3> QED  BY <3>1, <3>2
  <2>4. failed \subseteq failed'
    BY <1>12 DEF ReceiveEnd, OnReq, OnReqWrite, AppWrite
  <2> QED  BY <1>1, <1>5, <2>1, <2>3, <2>4
<1>13. ASSUME NEW s \in Sides, OnClose(s) PROVE Made'
  <2>1. UNCHANGED <<trigger, sock, bind, failed>> /\ recv[s].pc = "read"
    BY <1>13 DEF OnClose, Incoming, AtHead, conns, maps
  <2>2. PICK n \in CIDs : n = In(s).cid
    <3>1. Incoming(s, "CLOSE") /\ TypeSess
      BY <1>13, Parts DEF OnClose
    <3> QED  BY <3>1, Taking DEF Message
  <2>3. recv' = [recv EXCEPT ![s] = IF bind[<<s, n>>] = None THEN Loop(s)
                                    ELSE At("unbind", bind[<<s, n>>], n)]
    BY <1>13, <2>2 DEF OnClose
  <2>4. Recv
    <3>1. CASE s = "client" /\ bind[<<s, n>>] = None
      BY <1>6, <1>7, <2>1, <2>3, <3>1
    <3>2. CASE s = "client" /\ bind[<<s, n>>] # None
      <4>1. PICK c \in Conns : bind[<<"client", n>>] = c
        BY <1>0, <3>2
      <4>2. recv'["client"] = At("unbind", c, n)
        BY <1>0, <2>3, <3>2, <4>1
      <4>3. recv'["client"].pc = "unbind" /\ recv'["client"].conn = c
        BY <4>2 DEF At
      <4>4. trigger[<<"client", c>>] # "none" /\ recv["client"].pc = "read"
        BY <2>1, <3>2, <4>1 DEF Made
      <4> QED  BY <4>3, <4>4 DEF Recv
    <3>3. CASE s # "client"
      BY <1>0, <2>3, <3>3 DEF Recv
    <3> QED  BY <3>1, <3>2, <3>3
  <2> QED  BY <1>1, <1>5, <2>1, <2>4
<1>14. ASSUME NEW s \in Sides, OnCloseUnbind(s) \/ OnCloseClose(s) PROVE Made'
  <2>1. /\ recv[s].pc \in {"unbind", "close"} /\ recv[s].conn \in Conns
        /\ s = "client" => trigger[<<"client", recv[s].conn>>] # "none"
        /\ UNCHANGED <<trigger, failed>>
    BY <1>14 DEF OnCloseUnbind, OnCloseClose, Made, Inv, Handling, conns
  <2>2. CASE OnCloseUnbind(s)
    <3>1. /\ bind' = [bind EXCEPT ![<<s, recv[s].cid>>] = None] /\ sock' = sock
          /\ recv' = [recv EXCEPT ![s].pc = "close"]
      BY <2>2 DEF OnCloseUnbind, conns
    <3>2. recv'[s].pc = "close" /\ recv'[s].conn = recv[s].conn
          /\ \A t \in Sides : t # s => recv'[t] = recv[t]
      BY <1>0, <3>1 DEF Receiving
    <3>3. Recv
      BY <1>0, <2>1, <3>2 DEF Recv
    <3> QED  BY <1>1, <1>3, <1>5, <2>1, <3>1, <3>3
  <2>3. CASE OnCloseClose(s)
    <3>1. /\ bind' = bind /\ sock' = [sock EXCEPT ![<<s, recv[s].conn>>] = "closed"]
          /\ recv' = [recv EXCEPT ![s] = Loop(s)]
      BY <2>3 DEF OnCloseClose, maps
    <3>2. Recv
      <4>1. CASE s = "client"
        BY <1>6, <1>7, <2>1, <3>1, <4>1
      <4>2. CASE s # "client"
        BY <1>0, <3>1, <4>2 DEF Recv
      <4> QED  BY <4>1, <4>2
    <3>3. Sock
      BY <1>2, <2>1, <3>1
    <3> QED  BY <1>1, <1>5, <2>1, <3>1, <3>2, <3>3
  <2> QED  BY <1>14, <2>2, <2>3
<1>15. CASE \/ clientConnCreateDoneHandler \/ OnCreate \/ SendRefused
            \/ sendCreateConnDoneEvent
  <2>1. UNCHANGED <<trigger, sock, bind, failed>>
    BY <1>15 DEF clientConnCreateDoneHandler, OnCreate, SendRefused, sendCreateConnDoneEvent,
                 conns, maps
  <2>2. Recv
    <3>1. CASE clientConnCreateDoneHandler
      BY <1>0, <3>1 DEF clientConnCreateDoneHandler, Recv
    <3>2. CASE OnCreate
      <4>1. At("dial", In("client").conn, In("client").cid).pc = "dial"
        BY DEF At
      <4>2. recv["client"].pc # "arm"
            /\ recv' = [recv EXCEPT !["client"] = At("dial", In("client").conn, In("client").cid)]
        BY <3>2 DEF OnCreate, Incoming, AtHead
      <4> QED  BY <1>0, <1>6, <4>1, <4>2
    <3>3. CASE SendRefused \/ sendCreateConnDoneEvent
      <4>1. recv["client"].pc # "arm" /\ recv' = [recv EXCEPT !["client"] = Loop("client")]
        BY <3>3 DEF SendRefused, sendCreateConnDoneEvent
      <4> QED  BY <1>0, <1>6, <1>7, <4>1
    <3> QED  BY <1>15, <3>1, <3>2, <3>3
  <2> QED  BY <1>1, <1>5, <2>1, <2>2
<1>16. CASE DialRefused
  <2>1. /\ UNCHANGED <<trigger, sock, bind>> /\ failed' = failed \cup {recv["client"].conn}
        /\ recv["client"].pc = "dial" /\ recv' = [recv EXCEPT !["client"].pc = "refuse"]
    BY <1>16 DEF DialRefused, conns, maps
  <2>2. recv'["client"].pc = "refuse" /\ recv'["client"].conn = recv["client"].conn
    BY <1>0, <2>1 DEF Receiving
  <2>3. Recv
    BY <2>1, <2>2 DEF Recv
  <2> QED  BY <1>1, <1>5, <2>1, <2>3
<1>17. ASSUME NEW c \in Conns, FireBrowser(c) \/ FireForward(c) \/ UnbindForward(c) PROVE Made'
  <2>1. /\ UNCHANGED <<sock, recv, failed>>
        /\ bind' = bind \/ \E x : bind' = [bind EXCEPT ![x] = None]
    BY <1>17 DEF FireBrowser, FireForward, UnbindForward, maps, loops
  <2>2. \E e, x : x # "none" /\ trigger' = [trigger EXCEPT ![e] = x]
    BY <1>17 DEF FireBrowser, FireForward, UnbindForward
  <2> QED  BY <1>1, <1>3, <1>4, <1>5, <2>1, <2>2
<1>18. ASSUME NEW s \in Sides, NEW c \in Conns,
              \/ AppSend(s, c) \/ AppClose(s, c) \/ AppStall(s, c) \/ AppResume(s, c)
              \/ Read(s, c) \/ SendReq(s, c) \/ ReadEnd(s, c)
       PROVE  Made'
  <2>1. UNCHANGED <<trigger, sock, bind, recv, failed>>
    BY <1>18 DEF AppSend, AppClose, AppStall, AppResume, Read, SendReq, ReadEnd, conns, maps, loops
  <2> QED  BY <1>1, <1>5, <2>1
<1>19. ASSUME NEW s \in Sides, NEW c \in Conns,
              Notify(s, c) \/ CloseAfter(s, c) \/ Finalize(s, c)
       PROVE  Made'
  <2>1. /\ UNCHANGED <<bind, recv, failed>> /\ trigger[<<s, c>>] # "none"
        /\ sock' = sock \/ sock' = [sock EXCEPT ![<<s, c>>] = "closed"]
        /\ trigger' = trigger \/ \E e, x : x # "none" /\ trigger' = [trigger EXCEPT ![e] = x]
    BY <1>19 DEF Notify, CloseAfter, Finalize, maps, loops
  <2>2. Trig /\ Sock
    BY <1>2, <1>4, <1>5, <2>1
  <2> QED  BY <1>1, <1>5, <2>1, <2>2
<1> QED  BY <1>8, <1>9, <1>10, <1>11, <1>12, <1>13, <1>14, <1>15, <1>16, <1>17, <1>18, <1>19,
            MadeDial, Steps

\* The messages of a side are shifted by d places, or one is added behind them.
Slid(s, d)  == \A i \in 1 .. Len(chan'[s]) :
                 i + d \in 1 .. Len(chan[s]) /\ chan'[s][i] = chan[s][i + d]
Added(s, m) == /\ Len(chan'[s]) = Len(chan[s]) + 1 /\ chan'[s][Len(chan[s]) + 1] = m
               /\ \A i \in 1 .. Len(chan[s]) : chan'[s][i] = chan[s][i]

\* Every step does so; who adds a CLOSE is a close handler or a refused dial, and who
\* adds a REQ holds a piece.
LEMMA Channels ==
  ASSUME Inv, Writing, [Next]_vars, NEW s \in Sides
  PROVE  \/ \E d \in {0, 1} : Slid(s, d)
         \/ \E m : /\ Added(s, m)
                   /\ m.type = "CLOSE" =>
                        \/ \E c \in Conns : Notify(s, c) /\ m.cid = cid[c]
                        \/ s = "client" /\ SendRefused /\ m.cid = recv["client"].cid
                   /\ \A c \in Conns : m.type = "REQ" /\ m.conn = c => held[<<s, c>>] # {}
<1>1. /\ chan \in [Sides -> Seq(Message)] /\ chan[s] \in Seq(Message) /\ Len(chan[s]) \in Nat
      /\ "client" \in Sides /\ "proxy" \in Sides
  BY DEF Inv, TypeOK, Message, Sides
<1>2. ASSUME chan'[s] = chan[s] PROVE Slid(s, 0)
  BY <1>1, <1>2 DEF Slid
<1>3. ASSUME NEW t \in Sides, NEW m, Write(t, m), t # s \/ ~Added(s, m) PROVE Slid(s, 0)
  <2>1. chan' = chan \/ chan' = [chan EXCEPT ![t] = Append(@, m)]
    BY <1>3 DEF Write, Written, WriteFails
  <2>2. CASE chan'[s] = Append(chan[s], m)
    <3>1. Added(s, m)
      BY <1>1, <2>2 DEF Added
    <3> QED  BY <1>1, <1>2, <1>3, <2>1, <3>1
  <2> QED  BY <1>1, <1>2, <2>1, <2>2
<1>4. ASSUME NEW t \in Sides, chan[Other(t)] # <<>>, Consume(t)
      PROVE  \E d \in {0, 1} : Slid(s, d)
  <2>1. /\ chan[Other(t)] # <<>> /\ chan' = [chan EXCEPT ![Other(t)] = Tail(@)]
        /\ Other(t) \in Sides
    BY <1>4 DEF Consume, Other, Sides
  <2>2. CASE s = Other(t)
    <3>1. chan[s] # <<>> /\ chan'[s] = Tail(chan[s])
      BY <1>1, <2>1, <2>2
    <3>2. /\ Len(Tail(chan[s])) = Len(chan[s]) - 1
          /\ \A i \in 1 .. Len(Tail(chan[s])) : Tail(chan[s])[i] = chan[s][i + 1]
      BY <1>1, <3>1
    <3>3. Slid(s, 1)
      BY <1>1, <3>1, <3>2 DEF Slid
    <3> QED  BY <3>3
  <2>3. CASE s # Other(t)
    BY <1>1, <1>2, <2>1, <2>3
  <2> QED  BY <2>2, <2>3
<1>5. ASSUME UNCHANGED sess PROVE Slid(s, 0)
  BY <1>2, <1>5 DEF sess
<1>6. CASE \/ UNCHANGED vars \/ Break \/ checkClientHB \/ sendHB \/ CloseListener
           \/ \E t \in Sides : Stop(t) \/ StopSess(t)
  <2>1. chan' = chan
    BY <1>6 DEF vars, sess, Break, checkClientHB, sendHB, WriteFails, CloseListener, Stop, StopSess, CloseSess
  <2> QED  BY <1>2, <2>1
<1>7. CASE Store \/ \E c \in Conns : Accept(c)
  BY <1>5, <1>7 DEF Store, Accept
<1>8. CASE sendBrowserConnCreateEvent
  <2>1. PICK m : m.type = "CREATE" /\ Write("proxy", m)
    BY <1>8 DEF sendBrowserConnCreateEvent, Write, Msg
  <2> QED  BY <1>1, <1>3, <2>1
<1>9. ASSUME NEW t \in Sides, OnReq(t) \/ OnReqWrite(t) \/ OnClose(t)
      PROVE  \E d \in {0, 1} : Slid(s, d)
  <2>1. chan'[s] = chan[s] \/ (chan[Other(t)] # <<>> /\ Consume(t))
    BY <1>9 DEF OnReq, OnReqWrite, OnClose, Incoming, AtHead, Writing, sess
  <2> QED  BY <1>2, <1>4, <2>1
<1>10. CASE clientConnCreateDoneHandler \/ OnCreate
  BY <1>1, <1>4, <1>10 DEF clientConnCreateDoneHandler, OnCreate, Incoming, AtHead
<1>11. ASSUME NEW t \in Sides, OnCloseUnbind(t) \/ OnCloseClose(t) PROVE Slid(s, 0)
  BY <1>5, <1>11 DEF OnCloseUnbind, OnCloseClose
<1>12. CASE DialRefused \/ DialStore \/ ArmForward
  BY <1>5, <1>12 DEF DialRefused, DialStore, ArmForward
<1>13. ASSUME NEW t \in Sides, ReceiveEnd(t) PROVE Slid(s, 0)
  <2>1. chan' = [chan EXCEPT ![Other(t)] = <<>>]
    BY <1>13 DEF ReceiveEnd
  <2>2. chan'[s] = chan[s] \/ chan'[s] = <<>>
    BY <1>1, <2>1
  <2>3. chan'[s] = <<>> => Slid(s, 0)
    BY DEF Slid
  <2> QED  BY <1>2, <2>2, <2>3
<1>14. CASE sendCreateConnDoneEvent
  <2>1. PICK m : m.type = "DONE" /\ Write("client", m)
    BY <1>14 DEF sendCreateConnDoneEvent, Msg
  <2> QED  BY <1>1, <1>3, <2>1
<1>15. CASE SendRefused
  <2>1. PICK m : m.type = "CLOSE" /\ m.cid = recv["client"].cid /\ Write("client", m)
    BY <1>15 DEF SendRefused, Msg
  <2> QED  BY <1>1, <1>3, <1>15, <2>1
<1>16. ASSUME NEW c \in Conns, FireBrowser(c) \/ FireForward(c) \/ UnbindForward(c)
       PROVE  Slid(s, 0)
  BY <1>5, <1>16 DEF FireBrowser, FireForward, UnbindForward
<1>17. ASSUME NEW t \in Sides, NEW c \in Conns,
              \/ AppSend(t, c) \/ AppClose(t, c) \/ AppStall(t, c) \/ AppResume(t, c)
              \/ Read(t, c) \/ ReadEnd(t, c)
              \/ CloseAfter(t, c) \/ Finalize(t, c)
       PROVE  Slid(s, 0)
  BY <1>5, <1>17 DEF AppSend, AppClose, AppStall, AppResume, Read, ReadEnd, CloseAfter, Finalize
<1>18. ASSUME NEW t \in Sides, NEW c \in Conns, Notify(t, c), ~Slid(s, 0)
       PROVE  \E m : Added(s, m) /\ Notify(s, c) /\ m.type = "CLOSE" /\ m.cid = cid[c]
  <2>1. PICK m : m.type = "CLOSE" /\ m.cid = cid[c] /\ Write(t, m)
    BY <1>18 DEF Notify, Msg
  <2> QED  BY <1>3, <1>18, <2>1
<1>19. ASSUME NEW t \in Sides, NEW c \in Conns, SendReq(t, c), ~Slid(s, 0)
       PROVE  \E m : Added(s, m) /\ m.type = "REQ" /\ m.conn = c /\ held[<<s, c>>] # {}
  <2>1. PICK m : m.type = "REQ" /\ m.conn = c /\ Write(t, m) /\ held[<<t, c>>] # {}
    BY <1>19 DEF SendReq, Msg
  <2> QED  BY <1>3, <1>19, <2>1
<1> DEFINE Goal == \/ \E d \in {0, 1} : Slid(s, d)
                   \/ \E m : /\ Added(s, m)
                             /\ m.type = "CLOSE" =>
                                  \/ \E c \in Conns : Notify(s, c) /\ m.cid = cid[c]
                                  \/ s = "client" /\ SendRefused /\ m.cid = recv["client"].cid
                             /\ \A c \in Conns : m.type = "REQ" /\ m.conn = c => held[<<s, c>>] # {}
<1>20. ASSUME NEW t \in Sides, NEW c \in Conns, Notify(t, c) PROVE Goal
  BY <1>18, <1>20
<1>21. ASSUME NEW t \in Sides, NEW c \in Conns, SendReq(t, c) PROVE Goal
  BY <1>19, <1>21
<1>22. Slid(s, 0) => Goal
  OBVIOUS
<1>23. ASSUME NEW t \in Sides, \/ ReceiveEnd(t) \/ OnReq(t) \/ OnReqWrite(t) \/ OnClose(t)
                               \/ OnCloseUnbind(t) \/ OnCloseClose(t)
       PROVE  Goal
  BY <1>9, <1>11, <1>13, <1>23
<1>24. CASE sendBrowserConnCreateEvent \/ sendCreateConnDoneEvent \/ SendRefused
  BY <1>8, <1>14, <1>15, <1>24
<1> QED  BY <1>6, <1>7, <1>10, <1>12, <1>16, <1>17, <1>20, <1>21, <1>22, <1>23, <1>24, Steps

\* A CLOSE that is read where nothing failed finds an end that rests: the sender
\* rested, and what it passed on has arrived before the CLOSE.
LEMMA CloseReceived ==
  ASSUME Inv, Order, Made, NEW s \in Sides, NEW c \in Conns, c \notin Cut,
         Ending(s, c), Ending(Other(s), c), Incoming(s, "CLOSE"),
         bind[<<s, In(s).cid>>] = c
  PROVE  Rests(s, c)
<1>1. PICK o \in Sides : o = Other(s) /\ o # s /\ Other(o) = s
  BY Typed
<1>2. /\ chan[o] \in Seq(Message) /\ Len(chan[o]) \in Nat /\ 1 \in 1 .. Len(chan[o])
      /\ chan[o][1] = In(s) /\ In(s).type = "CLOSE" /\ In(s).cid \in CIDs
  <2>1. TypeSess
    BY Parts
  <2>2. /\ In(s) = chan[o][1] /\ In(s).type = "CLOSE" /\ In(s) \in Message
        /\ 1 \in 1 .. Len(chan[o])
    BY <1>1, <2>1, Taking
  <2> QED  BY <2>2, Typed DEF Message
<1>3. cid[c] = In(s).cid
  BY <1>2 DEF Inv, Bound
<1>4. /\ Rests(o, c)
      /\ fin[<<s, c>>] \/ \A j \in 2 .. Len(chan[o]) : ~Carries(o, j, c)
  <2>1. Closes(o, 1, c) /\ Ending(o, c)
    BY <1>1, <1>2, <1>3 DEF Closes
  <2>2. 1 + 1 = 2
    OBVIOUS
  <2> QED  BY <1>1, <1>2, <2>1, <2>2 DEF Ending
<1>5. /\ taken[<<s, c>>] \in Nat /\ sent[<<s, c>>] \in Nat /\ Len(got[<<o, c>>]) \in Nat
      /\ taken[<<o, c>>] \in Nat /\ sent[<<o, c>>] \in Nat /\ Len(got[<<s, c>>]) \in Nat
  BY <1>1, Typed
<1>6. ASSUME ~fin[<<o, c>>] PROVE Left(s, c)
  <2>1. fin[<<s, c>>] /\ Len(got[<<o, c>>]) = sent[<<s, c>>]
    BY <1>1, <1>4, <1>6 DEF Rests
  <2>2. /\ taken[<<s, c>>] <= sent[<<s, c>>] /\ held[<<s, c>>] \subseteq {taken[<<s, c>>]} \ {0}
        /\ Len(got[<<o, c>>]) <= Passed(s, c)
    BY <1>1 DEF Order, Pieces
  <2>3. held[<<s, c>>] = {}
    BY <1>5, <2>1, <2>2 DEF Passed
  <2>4. taken[<<s, c>>] = sent[<<s, c>>]
    BY <1>5, <2>1, <2>2, <2>3 DEF Passed
  <2> QED  BY <2>1, <2>3, <2>4 DEF Left
<1>7. ASSUME ~fin[<<s, c>>], sock[<<s, c>>] # "closed"
      PROVE  fin[<<o, c>>] /\ Len(got[<<s, c>>]) = sent[<<o, c>>]
  <2>1. fin[<<o, c>>] /\ Left(o, c) /\ \A j \in 2 .. Len(chan[o]) : ~Carries(o, j, c)
    BY <1>1, <1>4, <1>7 DEF Rests
  <2>2. sock[<<s, c>>] # "none"
    <3>1. CASE s = "client"
      BY <1>2, <3>1 DEF Made
    <3>2. CASE s = "proxy"
      BY <1>2, <1>3, <3>2 DEF Inv, Numbered, CIDs
    <3> QED  BY <3>1, <3>2 DEF Sides
  <2>3. Reaches(s, c)
    <3>1. sock[<<s, c>>] \in {"none", "open", "closed"}
      BY DEF Inv, TypeOK, Ends
    <3> QED  BY <1>3, <1>7, <2>2, <3>1 DEF Reaches
  <2>4. Up
    BY DEF Cut
  <2>5. Passed(o, c) = Len(got[<<s, c>>])
    <3>0. Pieces(o, c)
      BY DEF Order
    <3>1. \A i \in 1 .. Len(chan[o]) : ~Carries(o, i, c)
      <4>1. ~Carries(o, 1, c)
        BY <1>2 DEF Carries
      <4>2. \A i \in 1 .. Len(chan[o]) : i = 1 \/ i \in 2 .. Len(chan[o])
        BY <1>2
      <4> QED  BY <2>1, <4>1, <4>2
    <3> QED  BY <1>1, <2>3, <2>4, <3>0, <3>1 DEF Pieces
  <2>6. Passed(o, c) = sent[<<o, c>>]
    BY <2>1 DEF Left, Passed
  <2> QED  BY <2>1, <2>5, <2>6
<1>8. CASE sock[<<s, c>>] = "closed"
  BY <1>8 DEF Ending, Closing
<1>9. CASE sock[<<s, c>>] # "closed"
  BY <1>1, <1>6, <1>7, <1>9 DEF Rests
<1> QED  BY <1>8, <1>9

\* Where nothing failed the session is up, and no signal comes from outside.
LEMMA NoCut ==
  ASSUME Inv, Order, NEW s \in Sides, NEW c \in Conns, c \notin Cut
  PROVE  Up /\ listening /\ ~stop[s] /\ ~sessClose[s] /\ ~OutsideSignal(s) /\ c \notin failed
<1>1. Up /\ listening /\ ~stop[s] /\ c \notin failed
  BY DEF Cut
<1>2. ~sessClose[s]
  BY <1>1 DEF Order, Downed
<1> QED  BY <1>1, <1>2 DEF OutsideSignal

\* The close signals and sockets of an end that is not closing: they change only when
\* a reader ends that has passed on all.
LEMMA SignalStep ==
  ASSUME Inv, Inv', Order, [Next]_vars, NEW s \in Sides, NEW c \in Conns, c \notin Cut, c \notin Cut',
         ~Closing(s, c)
  PROVE  /\ isClose'[<<s, c>>] => Rests(s, c)
         /\ sock'[<<s, c>>] # "closed"
<1>1. PICK e \in Ends : e = <<s, c>>
  BY DEF Ends
<1>2. /\ sock \in [Ends -> {"none", "open", "closed"}] /\ isClose \in [Ends -> BOOLEAN]
      /\ ~isClose[e] /\ sock[e] # "closed" /\ trigger[e] \in {"none", "armed"}
      /\ ~(recv[s].pc \in {"unbind", "close"} /\ recv[s].conn = c)
      /\ Up /\ c \notin failed'
  <2>1. c \notin failed'
    BY DEF Cut
  <2> QED  BY <1>1, <2>1, NoCut DEF Closing, Inv, TypeOK
<1> DEFINE Same == isClose'[e] = isClose[e] /\ sock'[e] \in {sock[e], "open"}
           Goal == /\ isClose'[e] => Rests(s, c)
                   /\ sock'[e] # "closed"
<1> SUFFICES Goal
  BY <1>1
<1>3. ASSUME Same PROVE Goal
  BY <1>2, <1>3
<1>4. sock' = sock /\ isClose' = isClose => Goal
  BY <1>2
<1>5. ASSUME NEW t \in Sides, NEW d \in Conns, <<t, d>> # e,
             sock' = sock \/ sock' = [sock EXCEPT ![<<t, d>>] = "closed"],
             isClose' = isClose \/ isClose' = [isClose EXCEPT ![<<t, d>>] = TRUE]
      PROVE  Same
  BY <1>2, <1>5
<1> HIDE DEF Same, Goal
<1>6. CASE \/ UNCHANGED vars \/ Break \/ checkClientHB \/ sendHB \/ CloseListener
           \/ Store \/ \E t \in Sides : Stop(t) \/ StopSess(t)
  <2>1. UNCHANGED <<sock, isClose>>
    BY <1>6 DEF vars, conns, Break, checkClientHB, sendHB, CloseListener, Stop, StopSess, CloseSess, Store
  <2> QED  BY <1>4, <2>1
<1>7. CASE sendBrowserConnCreateEvent
  <2>1. UNCHANGED <<sock, isClose>>
    BY <1>2, <1>7 DEF sendBrowserConnCreateEvent, WriteFails
  <2> QED  BY <1>4, <2>1
<1>8. ASSUME NEW d \in Conns, Accept(d) PROVE Goal
  <2>1. isClose' = isClose /\ sock' = [sock EXCEPT ![<<"proxy", d>>] = "open"]
    BY <1>8 DEF Accept
  <2>2. Same
    BY <1>2, <2>1 DEF Same
  <2> QED  BY <1>3, <2>2
<1>9. ASSUME NEW t \in Sides, OnReqWrite(t) PROVE Goal
  <2>1. PICK b \in Conns : b = recv[t].conn
    BY <1>9 DEF OnReqWrite, Inv, Handling
  <2>2. /\ sock' = sock
        /\ \/ isClose' = isClose
           \/ isClose' = [isClose EXCEPT ![<<t, b>>] = TRUE] /\ b \in failed'
    BY <1>9, <2>1 DEF OnReqWrite, AppWrite
  <2>3. CASE isClose' = isClose
    BY <1>4, <2>2, <2>3
  <2>4. CASE isClose' = [isClose EXCEPT ![<<t, b>>] = TRUE] /\ b \in failed'
    <3>1. <<t, b>> # e
      BY <1>1, <1>2, <2>4
    <3> QED  BY <1>3, <1>5, <2>2, <2>4, <3>1
  <2> QED  BY <2>2, <2>3, <2>4
<1>10. ASSUME NEW t \in Sides, OnCloseClose(t) PROVE Goal
  <2>1. /\ recv[t].pc = "close" /\ recv[t].conn \in Conns
        /\ sock' = [sock EXCEPT ![<<t, recv[t].conn>>] = "closed"]
        /\ isClose' = [isClose EXCEPT ![<<t, recv[t].conn>>] = TRUE]
    BY <1>10 DEF OnCloseClose, Inv, Handling
  <2>2. <<t, recv[t].conn>> # e
    BY <1>1, <1>2, <2>1
  <2> QED  BY <1>3, <1>5, <2>1, <2>2
<1>11. ASSUME NEW t \in Sides,
              ReceiveEnd(t) \/ OnReq(t) \/ OnClose(t) \/ OnCloseUnbind(t)
       PROVE  Goal
  BY <1>4, <1>11 DEF ReceiveEnd, OnReq, OnClose, OnCloseUnbind, conns
<1>12. CASE \/ clientConnCreateDoneHandler \/ OnCreate \/ DialRefused \/ SendRefused
            \/ ArmForward \/ sendCreateConnDoneEvent
  BY <1>4, <1>12 DEF clientConnCreateDoneHandler, OnCreate, DialRefused, SendRefused,
     ArmForward, sendCreateConnDoneEvent, conns
<1>13. CASE DialStore
  <2>1. isClose' = isClose /\ sock' = [sock EXCEPT ![<<"client", recv["client"].conn>>] = "open"]
    BY <1>13 DEF DialStore
  <2>2. Same
    BY <1>2, <2>1 DEF Same
  <2> QED  BY <1>3, <2>2
<1>14. ASSUME NEW t \in Sides, NEW d \in Conns,
              \/ AppSend(t, d) \/ AppClose(t, d) \/ AppStall(t, d) \/ AppResume(t, d)
              \/ Read(t, d) \/ SendReq(t, d) \/ Notify(t, d)
              \/ FireBrowser(d) \/ FireForward(d) \/ UnbindForward(d)
       PROVE  Goal
  BY <1>4, <1>14 DEF AppSend, AppClose, AppStall, AppResume, Read, SendReq, Notify, FireBrowser, FireForward,
     UnbindForward, conns
<1>15. ASSUME NEW t \in Sides, NEW d \in Conns, CloseAfter(t, d) \/ Finalize(t, d) PROVE Goal
  <2>1. /\ trigger[<<t, d>>] = "close" \/ isClose[<<t, d>>]
        /\ sock' = sock \/ sock' = [sock EXCEPT ![<<t, d>>] = "closed"]
        /\ isClose' = isClose \/ isClose' = [isClose EXCEPT ![<<t, d>>] = TRUE]
    BY <1>15 DEF CloseAfter, Finalize
  <2>2. <<t, d>> # e
    BY <1>2, <2>1
  <2> QED  BY <1>3, <1>5, <2>1, <2>2
<1>16. ASSUME NEW t \in Sides, NEW d \in Conns, ReadEnd(t, d) PROVE Goal
  <2>1. /\ Reading(t, d) /\ sock' = sock /\ isClose' = [isClose EXCEPT ![<<t, d>>] = TRUE]
        /\ \/ isClose[<<t, d>>] \/ sock[<<t, d>>] = "closed"
           \/ fin[<<t, d>>] /\ taken[<<t, d>>] = sent[<<t, d>>]
    BY <1>16 DEF ReadEnd
  <2>2. CASE <<t, d>> # e
    BY <1>3, <1>5, <2>1, <2>2
  <2>3. CASE <<t, d>> = e
    <3>1. t = s /\ d = c
      BY <1>1, <2>3
    <3>2. fin[<<s, c>>] /\ taken[<<s, c>>] = sent[<<s, c>>]
      BY <1>1, <1>2, <2>1, <3>1
    <3>3. held[<<s, c>>] = {}
      <4>1. readers[e] \in Nat /\ IsFiniteSet(held[e]) /\ readers[e] <= 1
        BY <1>1 DEF Inv, TypeOK, Counted, Order, ReadOnce
      <4>2. Cardinality(held[e]) \in Nat /\ readers[e] > Cardinality(held[e])
        BY <1>1, <2>1, <3>1, <4>1, FS_CardinalityType DEF Reading
      <4>3. Cardinality(held[e]) = 0
        BY <4>1, <4>2
      <4> QED  BY <1>1, <4>1, <4>3, FS_EmptySet
    <3>4. Rests(s, c)
      BY <3>2, <3>3 DEF Rests, Left
    <3> QED  BY <1>2, <2>1, <3>4 DEF Goal
  <2> QED  BY <2>2, <2>3
<1> QED
  BY <1>6, <1>7, <1>8, <1>9, <1>10, <1>11, <1>12, <1>13, <1>14, <1>15, <1>16, Steps DEF Sides

\* The close trigger of an end: where nothing failed it fires by the end's own close
\* signal only, and is over without closing anything.
LEMMA TriggerStep ==
  ASSUME Inv, Order, [Next]_vars, NEW s \in Sides, NEW c \in Conns, c \notin Cut,
         trigger[<<s, c>>] # "close", ~due[<<s, c>>]
  PROVE  /\ trigger'[<<s, c>>] # "close" /\ ~due'[<<s, c>>]
         /\ trigger'[<<s, c>>] \in {"none", "armed"} \/ trigger[<<s, c>>] \notin {"none", "armed"}
              \/ isClose[<<s, c>>]
<1>1. PICK e \in Ends : e = <<s, c>>
  BY DEF Ends
<1>2. /\ trigger \in [Ends -> {"none", "armed", "unbind", "notify", "close", "done"}]
      /\ due \in [Ends -> BOOLEAN]
      /\ trigger[e] # "close" /\ ~due[e]
  BY <1>1 DEF Inv, TypeOK
<1> DEFINE Goal == /\ trigger'[e] # "close" /\ ~due'[e]
                   /\ \/ trigger'[e] \in {"none", "armed"} \/ trigger[e] \notin {"none", "armed"}
                      \/ isClose[e]
<1> SUFFICES Goal
  BY <1>1
<1>3. ASSUME trigger'[e] = trigger[e], due'[e] = due[e] PROVE Goal
  BY <1>2, <1>3
<1>4. ASSUME due' = due, NEW x, NEW f, trigger' = [trigger EXCEPT ![f] = x], x = "armed" PROVE Goal
  BY <1>2, <1>4
<1>5. ASSUME NEW t \in Sides, NEW d \in Conns, NEW x, NEW y, <<t, d>> # e,
             trigger' = [trigger EXCEPT ![<<t, d>>] = x],
             due' = due \/ due' = [due EXCEPT ![<<t, d>>] = y]
      PROVE  Goal
  BY <1>2, <1>3, <1>5
<1> HIDE DEF Goal
<1>6. CASE \/ UNCHANGED vars \/ Break \/ checkClientHB \/ sendHB \/ CloseListener \/ Store
           \/ sendBrowserConnCreateEvent \/ \E t \in Sides : Stop(t) \/ StopSess(t)
  <2>1. UNCHANGED <<trigger, due>>
    BY <1>6 DEF vars, conns, Break, checkClientHB, sendHB, CloseListener, Stop, StopSess, CloseSess, Store,
            sendBrowserConnCreateEvent
  <2> QED  BY <1>3, <2>1
<1>7. ASSUME NEW d \in Conns, Accept(d) PROVE Goal
  BY <1>4, <1>7 DEF Accept
<1>8. ASSUME NEW t \in Sides,
             \/ ReceiveEnd(t) \/ OnReq(t) \/ OnReqWrite(t) \/ OnClose(t) \/ OnCloseUnbind(t)
             \/ OnCloseClose(t)
      PROVE  Goal
  <2>1. UNCHANGED <<trigger, due>>
    BY <1>8 DEF ReceiveEnd, OnReq, OnReqWrite, OnClose, OnCloseUnbind, OnCloseClose, conns
  <2> QED  BY <1>3, <2>1
<1>9. CASE \/ clientConnCreateDoneHandler \/ OnCreate \/ DialRefused \/ SendRefused
           \/ DialStore \/ sendCreateConnDoneEvent
  <2>1. UNCHANGED <<trigger, due>>
    BY <1>9 DEF clientConnCreateDoneHandler, OnCreate, DialRefused, SendRefused, DialStore,
            sendCreateConnDoneEvent, conns
  <2> QED  BY <1>3, <2>1
<1>10. CASE ArmForward
  BY <1>4, <1>10 DEF ArmForward
<1>11. ASSUME NEW t \in Sides, NEW d \in Conns,
              \/ AppSend(t, d) \/ AppClose(t, d) \/ AppStall(t, d) \/ AppResume(t, d)
              \/ Read(t, d) \/ SendReq(t, d) \/ ReadEnd(t, d)
              \/ Finalize(t, d)
       PROVE  Goal
  <2>1. UNCHANGED <<trigger, due>>
    BY <1>11 DEF AppSend, AppClose, AppStall, AppResume, Read, SendReq, ReadEnd, Finalize, conns
  <2> QED  BY <1>3, <2>1
<1>12. ASSUME NEW t \in Sides, NEW d \in Conns, NEW x \in BOOLEAN, Fires(t, d, x),
              NEW y, trigger' = [trigger EXCEPT ![<<t, d>>] = y],
              x \/ y # "close"
       PROVE  Goal
  <2>1. /\ IF x THEN OutsideSignal(t) ELSE isClose[<<t, d>>]
        /\ due' = [due EXCEPT ![<<t, d>>] = x]
    BY <1>12 DEF Fires
  <2>2. CASE <<t, d>> # e
    BY <1>5, <1>12, <2>1, <2>2
  <2>3. CASE <<t, d>> = e
    <3>1. t = s /\ d = c
      BY <1>1, <2>3
    <3>2. ~x
      BY <2>1, <3>1, NoCut
    <3>3. isClose[e]
      BY <2>1, <2>3, <3>2
    <3>4. ~due'[e] /\ trigger'[e] # "close"
      BY <1>2, <1>12, <2>1, <2>3, <3>2
    <3> QED  BY <3>3, <3>4 DEF Goal
  <2> QED  BY <2>2, <2>3
<1>13. ASSUME NEW d \in Conns, FireBrowser(d) PROVE Goal
  <2>1. PICK x \in BOOLEAN : Fires("proxy", d, x)
    BY <1>13 DEF FireBrowser
  <2>2. trigger' = [trigger EXCEPT ![<<"proxy", d>>] = "notify"]
    BY <1>13 DEF FireBrowser
  <2>3. "proxy" \in Sides /\ "notify" # "close"
    BY DEF Sides
  <2> QED  BY <1>12, <2>1, <2>2, <2>3
<1>14. ASSUME NEW d \in Conns, FireForward(d) PROVE Goal
  <2>1. PICK x \in BOOLEAN : /\ Fires("client", d, x)
                             /\ trigger' = [trigger EXCEPT ![<<"client", d>>] =
                                  IF bind[<<"client", cid[d]>>] # None THEN "unbind"
                                  ELSE IF x THEN "close" ELSE "done"]
    BY <1>14 DEF FireForward
  <2>2. PICK y : /\ y = IF bind[<<"client", cid[d]>>] # None THEN "unbind"
                        ELSE IF x THEN "close" ELSE "done"
                 /\ trigger' = [trigger EXCEPT ![<<"client", d>>] = y]
    BY <2>1
  <2>3. "client" \in Sides /\ (x \/ y # "close")
    BY <2>2 DEF Sides
  <2>4. Fires("client", d, x) /\ trigger' = [trigger EXCEPT ![<<"client", d>>] = y]
    BY <2>1, <2>2
  <2> QED  BY <1>12, <2>3, <2>4
<1>15. ASSUME NEW t \in Sides, NEW d \in Conns,
              Notify(t, d) \/ CloseAfter(t, d) \/ (t = "client" /\ UnbindForward(d))
       PROVE  Goal
  <2>1. /\ trigger[<<t, d>>] \in {"notify", "close", "unbind"}
        /\ due' = due \/ due' = [due EXCEPT ![<<t, d>>] = FALSE]
    BY <1>15 DEF Notify, CloseAfter, UnbindForward
  <2>2. PICK y : /\ trigger' = [trigger EXCEPT ![<<t, d>>] = y]
                 /\ due[<<t, d>>] \/ y # "close"
    BY <1>15 DEF Notify, CloseAfter, UnbindForward
  <2>3. CASE <<t, d>> # e
    BY <1>5, <2>1, <2>2, <2>3
  <2>4. CASE <<t, d>> = e
    <3>1. trigger'[e] = y /\ ~due'[e] /\ y # "close"
      BY <1>2, <2>1, <2>2, <2>4
    <3> QED  BY <2>1, <2>4, <3>1 DEF Goal
  <2> QED  BY <2>3, <2>4
<1> QED
  BY <1>6, <1>7, <1>8, <1>9, <1>10, <1>11, <1>13, <1>14, <1>15, Steps DEF Sides

\* The receiver turns to an end only when that rests.
LEMMA ReceiverStep ==
  ASSUME Inv, Inv', Order, Endings, [Next]_vars, NEW s \in Sides, NEW c \in Conns, c \notin Cut,
         recv'[s].pc \in {"unbind", "close"}, recv'[s].conn = c
  PROVE  Rests(s, c)
<1>1. recv \in [Sides -> Receiving] /\ recv' \in [Sides -> Receiving] /\ "client" \in Sides
  BY DEF Inv, TypeOK, Receiving, Sides
<1>2. CASE recv[s].pc \in {"unbind", "close"} /\ recv[s].conn = c
  BY <1>2 DEF Endings, Ending, Closing
<1>3. CASE OnClose(s)
  <2>1. Incoming(s, "CLOSE") /\ TypeSess /\ Other(s) \in Sides
    BY <1>3, Parts, Typed DEF OnClose
  <2>2. recv'[s] = IF bind[<<s, In(s).cid>>] = None THEN Loop(s)
                   ELSE At("unbind", bind[<<s, In(s).cid>>], In(s).cid)
    BY <1>1, <1>3 DEF OnClose
  <2>3. bind[<<s, In(s).cid>>] = c
    BY <2>2 DEF Loop, At
  <2> QED  BY <2>1, <2>3, CloseReceived DEF Endings
<1>4. ASSUME recv'[s] # recv[s], ~OnClose(s)
      PROVE  OnCloseUnbind(s) \/ recv'[s].pc \notin {"unbind", "close"}
  <2>1. \A t \in Sides : Loop(t).pc \notin {"unbind", "close"}
    BY DEF Loop, At
  <2>2. \A p, d, n : At(p, d, n).pc = p
    BY DEF At
  <2>3. ASSUME NEW t \in Sides, NEW r, recv' = [recv EXCEPT ![t] = r],
               r.pc \notin {"unbind", "close"}
        PROVE  recv'[s].pc \notin {"unbind", "close"}
    BY <1>1, <1>4, <2>3
  <2>4. CASE \/ UNCHANGED vars \/ Break \/ checkClientHB \/ sendHB \/ CloseListener \/ Store
             \/ sendBrowserConnCreateEvent \/ \E d \in Conns : Accept(d)
             \/ \E t \in Sides : Stop(t) \/ StopSess(t)
    BY <1>4, <2>4 DEF vars, loops, Break, checkClientHB, sendHB, CloseListener, Stop, StopSess, CloseSess,
            Store, sendBrowserConnCreateEvent, Accept
  <2>5. ASSUME NEW t \in Sides, ReceiveEnd(t) \/ OnReq(t) \/ OnReqWrite(t) \/ OnCloseClose(t)
        PROVE  recv'[s].pc \notin {"unbind", "close"}
    <3>1. \/ recv' = [recv EXCEPT ![t] = At("end", None, 0)]
          \/ recv' = [recv EXCEPT ![t] = Loop(t)]
          \/ \E d, n : recv' = [recv EXCEPT ![t] = At("write", d, n)]
      BY <2>5 DEF ReceiveEnd, OnReq, OnReqWrite, OnCloseClose
    <3>2. /\ At("end", None, 0).pc \notin {"unbind", "close"}
          /\ \A d, n : At("write", d, n).pc \notin {"unbind", "close"}
      BY <2>2
    <3> QED  BY <2>1, <2>3, <3>1, <3>2
  <2>6. ASSUME NEW t \in Sides, OnClose(t) \/ OnCloseUnbind(t) PROVE t = s
    <3>1. \E r : recv' = [recv EXCEPT ![t] = r]
      BY <2>6 DEF OnClose, OnCloseUnbind
    <3> QED  BY <1>1, <1>4, <3>1
  <2>7. CASE clientConnCreateDoneHandler \/ SendRefused \/ sendCreateConnDoneEvent
    BY <2>1, <2>3, <2>7 DEF clientConnCreateDoneHandler, SendRefused, sendCreateConnDoneEvent, Sides
  <2>8. CASE OnCreate
    <3>1. recv' = [recv EXCEPT !["client"] = At("dial", In("client").conn, In("client").cid)]
      BY <2>8 DEF OnCreate
    <3>2. At("dial", In("client").conn, In("client").cid).pc \notin {"unbind", "close"}
      BY <2>2
    <3> QED  BY <1>1, <2>3, <3>1, <3>2
  <2>9. CASE DialRefused \/ DialStore \/ ArmForward
    <3>1. \E p \in {"refuse", "arm", "done"} : recv' = [recv EXCEPT !["client"].pc = p]
      BY <2>9 DEF DialRefused, DialStore, ArmForward
    <3>2. recv'["client"].pc \in {"refuse", "arm", "done"}
          /\ \A t \in Sides : t # "client" => recv'[t] = recv[t]
      BY <1>1, <3>1 DEF Receiving
    <3> QED  BY <1>4, <3>2
  <2>10. ASSUME NEW t \in Sides, NEW d \in Conns,
                App(t, d) \/ Reader(t, d) \/ Trigger(t, d) \/ Finalize(t, d)
         PROVE  FALSE
    BY <1>4, <2>10 DEF App, AppSend, AppClose, AppStall, AppResume, Reader, Read, SendReq, ReadEnd, Trigger, FireBrowser,
       FireForward, UnbindForward, Notify, CloseAfter, Finalize, loops
  <2>11. ASSUME NEW t \in Sides, Receiver(t)
         PROVE  OnCloseUnbind(s) \/ recv'[s].pc \notin {"unbind", "close"}
    <3>1. \/ \E u \in Sides : \/ ReceiveEnd(u) \/ OnReq(u) \/ OnReqWrite(u) \/ OnClose(u)
                              \/ OnCloseUnbind(u) \/ OnCloseClose(u)
          \/ clientConnCreateDoneHandler \/ OnCreate \/ DialRefused \/ SendRefused \/ DialStore
          \/ ArmForward \/ sendCreateConnDoneEvent
      BY <2>11 DEF Receiver, clientReqHandler, proxyReqHandler, clientConnCloseHandler,
         proxyCloseBrowserConnHandler, proxyCreateBrowserConnHandler, Sides
    <3> QED  BY <1>4, <2>5, <2>6, <2>7, <2>8, <2>9, <3>1
  <2> QED  BY <2>4, <2>10, <2>11 DEF Next, AcceptLoop
<1>5. CASE OnCloseUnbind(s)
  <2>1. recv[s].pc = "unbind" /\ recv' = [recv EXCEPT ![s].pc = "close"]
    BY <1>5 DEF OnCloseUnbind
  <2>2. recv'[s].conn = recv[s].conn
    BY <1>1, <2>1 DEF Receiving
  <2> QED  BY <1>2, <2>1, <2>2
<1> QED  BY <1>2, <1>3, <1>4, <1>5

\* Where nothing failed, only an end that rests is closing after a step.
LEMMA ClosingStep ==
  ASSUME Inv, Inv', Order, Endings, [Next]_vars, NEW s \in Sides, NEW c \in Conns,
         c \notin Cut, c \notin Cut', Closing(s, c)'
  PROVE  Rests(s, c)
<1>1. Ending(s, c)
  BY DEF Endings
<1>2. CASE Closing(s, c)
  BY <1>1, <1>2 DEF Ending
<1>3. CASE ~Closing(s, c)
  <2>1. (isClose'[<<s, c>>] => Rests(s, c)) /\ sock'[<<s, c>>] # "closed"
    BY <1>3, SignalStep
  <2>2. trigger'[<<s, c>>] \in {"none", "armed"}
    BY <1>1, <1>3, TriggerStep DEF Ending, Closing
  <2>3. recv'[s].pc \in {"unbind", "close"} /\ recv'[s].conn = c => Rests(s, c)
    BY ReceiverStep
  <2> QED  BY <2>1, <2>2, <2>3 DEF Closing
<1> QED  BY <1>2, <1>3

\* A CLOSE that is added where nothing failed is that of an end that rests.
LEMMA CloseAdded ==
  ASSUME Inv, Unique, Order, Endings, NEW s \in Sides, NEW c \in Conns, c \notin Cut, cid[c] # 0,
         \/ \E d \in Conns : Notify(s, d) /\ cid[c] = cid[d]
         \/ s = "client" /\ SendRefused /\ cid[c] = recv["client"].cid
  PROVE  Rests(s, c)
<1>1. CASE \E d \in Conns : Notify(s, d) /\ cid[c] = cid[d]
  <2>1. Notify(s, c)
    BY <1>1 DEF Unique
  <2>2. trigger[<<s, c>>] = "notify"
    BY <2>1 DEF Notify
  <2> QED  BY <2>2 DEF Endings, Ending, Closing
<1>2. CASE s = "client" /\ SendRefused /\ cid[c] = recv["client"].cid
  <2>1. recv["client"].pc = "refuse" /\ recv["client"].conn \in Conns
        /\ cid[recv["client"].conn] = recv["client"].cid
    BY <1>2 DEF SendRefused, Inv, Handling
  <2>2. recv["client"].conn = c /\ c \in failed
    BY <1>2, <2>1 DEF Unique, Endings, Made
  <2> QED  BY <2>2 DEF Cut
<1> QED  BY <1>1, <1>2

\* The numbers after a step: a connection's own is kept, or new and larger than
\* those that were drawn.
LEMMA NumberStep ==
  ASSUME FewConns, Inv, Drawn, [Next]_vars
  PROVE  /\ seq \in Nat /\ seq' >= seq
         /\ \A c \in Conns : \/ cid'[c] = cid[c]
                             \/ cid'[c] = seq + 1 /\ chan' = chan
<1>1. seq \in Nat /\ cid \in [Conns -> 0 .. MaxCID]
  BY DEF Inv, TypeOK
<1>2. ASSUME NEW c \in Conns, Accept(c)
      PROVE  seq' = seq + 1 /\ cid' = [cid EXCEPT ![c] = seq + 1] /\ chan' = chan
  <2>1. seq' = seq + 1
    BY <1>2, AcceptDraws
  <2> QED  BY <1>2, <2>1 DEF Accept, sess
<1>3. CASE \E c \in Conns : Accept(c)
  BY <1>1, <1>2, <1>3
<1>4. CASE ~\E c \in Conns : Accept(c)
  BY <1>1, <1>4, SameNumbers
<1> QED  BY <1>3, <1>4

\* One end after a step.
LEMMA EndingNext ==
  ASSUME FewConns, Inv, Inv', Writing, Unique, Drawn, Order, Order', Endings, [Next]_vars,
         NEW s \in Sides, NEW c \in Conns
  PROVE  Ending(s, c)'
<1> SUFFICES ASSUME c \notin Cut'
             PROVE  /\ Closing(s, c)' => Rests(s, c)'
                    /\ trigger'[<<s, c>>] # "close" /\ ~due'[<<s, c>>]
                    /\ \A i \in 1 .. Len(chan'[s]) : Closes(s, i, c)' =>
                         /\ Rests(s, c)'
                         /\ \/ fin'[<<Other(s), c>>]
                            \/ \A j \in i + 1 .. Len(chan'[s]) : ~Carries(s, j, c)'
  BY DEF Ending
<1>1. c \notin Cut /\ Ending(s, c) /\ Len(chan[s]) \in Nat /\ Len(chan'[s]) \in Nat
  <2>1. chan'[s] \in Seq(Message)
    BY DEF Inv, TypeOK, Message
  <2> QED  BY <2>1, CutGrows, Typed DEF Endings
<1>2. Closing(s, c)' => Rests(s, c)'
  BY <1>1, ClosingStep, RestsKept
<1>3. trigger'[<<s, c>>] # "close" /\ ~due'[<<s, c>>]
  BY <1>1, TriggerStep DEF Ending
<1>4. ASSUME NEW i \in 1 .. Len(chan'[s]), Closes(s, i, c)'
      PROVE  /\ Rests(s, c)'
             /\ \/ fin'[<<Other(s), c>>]
                \/ \A j \in i + 1 .. Len(chan'[s]) : ~Carries(s, j, c)'
  <2>1. cid'[c] = cid[c] /\ cid[c] # 0
    <3>1. CASE cid'[c] # cid[c]
      <4>1. chan'[s][i].type = "CLOSE" /\ chan'[s][i].cid = seq + 1 /\ chan' = chan
        BY <1>4, <3>1, NumberStep DEF Closes
      <4>2. chan[s][i].cid <= seq
        BY <1>4, <4>1 DEF Endings
      <4> QED  BY <4>1, <4>2, NumberStep
    <3>2. chan'[s][i].cid \in CIDs
      <4>1. chan'[s] \in Seq(Message)
        BY DEF Inv, TypeOK, Message
      <4>2. chan'[s][i] \in Message
        BY <1>4, <4>1
      <4> QED  BY <4>2 DEF Message
    <3> QED  BY <1>4, <3>1, <3>2 DEF Closes, CIDs
  <2>2. Other(s) \in Sides /\ (fin[<<Other(s), c>>] => fin'[<<Other(s), c>>])
    BY Typed, Grows
  <2>3. ASSUME NEW d \in {0, 1}, Slid(s, d)
        PROVE  /\ Rests(s, c)'
               /\ \/ fin'[<<Other(s), c>>]
                  \/ \A j \in i + 1 .. Len(chan'[s]) : ~Carries(s, j, c)'
    <3>1. i + d \in 1 .. Len(chan[s]) /\ Closes(s, i + d, c)
      BY <1>4, <2>1, <2>3 DEF Slid, Closes
    <3>2. /\ Rests(s, c)
          /\ fin[<<Other(s), c>>] \/ \A j \in (i + d) + 1 .. Len(chan[s]) : ~Carries(s, j, c)
      BY <1>1, <3>1 DEF Ending
    <3>3. ASSUME NEW j \in i + 1 .. Len(chan'[s]), Carries(s, j, c)'
          PROVE  j + d \in (i + d) + 1 .. Len(chan[s]) /\ Carries(s, j + d, c)
      <4>1. j \in 1 .. Len(chan'[s])
        BY <1>1, <1>4, <3>3
      <4>2. j + d \in 1 .. Len(chan[s]) /\ chan'[s][j] = chan[s][j + d]
        BY <2>3, <4>1 DEF Slid
      <4> QED  BY <1>1, <1>4, <3>3, <4>2 DEF Carries
    <3> QED  BY <2>2, <3>2, <3>3, RestsKept
  <2>4. ASSUME NEW m, Added(s, m),
               m.type = "CLOSE" =>
                 \/ \E d \in Conns : Notify(s, d) /\ m.cid = cid[d]
                 \/ s = "client" /\ SendRefused /\ m.cid = recv["client"].cid,
               \A d \in Conns : m.type = "REQ" /\ m.conn = d => held[<<s, d>>] # {}
        PROVE  /\ Rests(s, c)'
               /\ \/ fin'[<<Other(s), c>>]
                  \/ \A j \in i + 1 .. Len(chan'[s]) : ~Carries(s, j, c)'
    <3>1. CASE i \in 1 .. Len(chan[s])
      <4>1. Closes(s, i, c)
        BY <1>4, <2>1, <2>4, <3>1 DEF Added, Closes
      <4>2. /\ Rests(s, c)
            /\ fin[<<Other(s), c>>] \/ \A j \in i + 1 .. Len(chan[s]) : ~Carries(s, j, c)
        BY <1>1, <3>1, <4>1 DEF Ending
      <4>3. ASSUME NEW j \in i + 1 .. Len(chan'[s]), Carries(s, j, c)', ~fin[<<Other(s), c>>]
            PROVE  FALSE
        <5>1. CASE j \in i + 1 .. Len(chan[s])
          <6>1. j \in 1 .. Len(chan[s])
            BY <1>1, <3>1, <5>1
          <6>2. Carries(s, j, c)
            BY <2>4, <4>3, <6>1 DEF Added, Carries
          <6> QED  BY <4>2, <4>3, <5>1, <6>2
        <5>2. CASE j = Len(chan[s]) + 1
          <6>1. m.type = "REQ" /\ m.conn = c
            BY <2>4, <4>3, <5>2 DEF Added, Carries
          <6>2. held[<<s, c>>] # {}
            BY <2>4, <6>1
          <6> QED  BY <4>2, <4>3, <6>2 DEF Rests, Left
        <5> QED  BY <1>1, <2>4, <3>1, <4>3, <5>1, <5>2 DEF Added
      <4> QED  BY <2>2, <4>2, <4>3, RestsKept
    <3>2. CASE i = Len(chan[s]) + 1
      <4>1. m.type = "CLOSE" /\ m.cid = cid[c]
        BY <1>4, <2>1, <2>4, <3>2 DEF Added, Closes
      <4>2. Rests(s, c)
        BY <1>1, <2>1, <2>4, <4>1, CloseAdded
      <4>3. ~\E j \in i + 1 .. Len(chan'[s]) : TRUE
        BY <1>1, <2>4, <3>2 DEF Added
      <4> QED  BY <4>2, <4>3, RestsKept
    <3> QED  BY <1>1, <1>4, <2>4, <3>1, <3>2 DEF Added
  <2> QED  BY <2>3, <2>4, Channels
<1> QED  BY <1>2, <1>3, <1>4

\* The whole invariant after a step.
LEMMA EndingsNext ==
  ASSUME FewConns, Inv, Inv', Writing, Unique, Drawn, Order, Order', Endings, [Next]_vars
  PROVE  Endings'
<1>1. Made'
  BY MadeNext DEF Endings
<1>2. \A s \in Sides, c \in Conns : Ending(s, c)'
  BY EndingNext
<1>3. ASSUME NEW s \in Sides, NEW i \in 1 .. Len(chan'[s]), chan'[s][i].type = "CLOSE"
      PROVE  chan'[s][i].cid <= seq'
  <2>0. /\ seq \in Nat /\ seq' \in Nat /\ seq <= seq' /\ Len(chan[s]) \in Nat
        /\ \A x \in Message : x.cid \in Nat
    <3>1. \A x \in Message : x.cid \in Nat
      BY DEF Message, CIDs
    <3>2. Len(chan[s]) \in Nat
      BY DEF Inv, TypeOK
    <3>3. seq' \in Nat
      BY DEF Inv, TypeOK
    <3>4. seq \in Nat /\ seq' >= seq
      BY NumberStep
    <3> QED  BY <3>1, <3>2, <3>3, <3>4
  <2>1. ASSUME chan'[s][i].cid <= seq PROVE chan'[s][i].cid <= seq'
    <3>1. chan'[s] \in Seq(Message)
      BY DEF Inv, TypeOK, Message
    <3>2. chan'[s][i].cid \in Nat
      BY <1>3, <2>0, <3>1
    <3> QED  BY <2>0, <2>1, <3>2
  <2>2. ASSUME NEW d \in {0, 1}, Slid(s, d) PROVE chan'[s][i].cid <= seq
    BY <1>3, <2>2 DEF Slid, Endings
  <2>3. ASSUME NEW m, Added(s, m),
               \/ \E d \in Conns : Notify(s, d) /\ m.cid = cid[d]
               \/ SendRefused /\ m.cid = recv["client"].cid
        PROVE  m.cid <= seq
    <3>1. CASE \E d \in Conns : Notify(s, d) /\ m.cid = cid[d]
      BY <3>1 DEF Drawn
    <3>2. CASE SendRefused /\ m.cid = recv["client"].cid
      BY <3>2 DEF SendRefused, Inv, Handling, Drawn, Sides
    <3> QED  BY <2>3, <3>1, <3>2
  <2>4. ASSUME NEW m, Added(s, m),
               m.type = "CLOSE" =>
                 \/ \E d \in Conns : Notify(s, d) /\ m.cid = cid[d]
                 \/ s = "client" /\ SendRefused /\ m.cid = recv["client"].cid
        PROVE  chan'[s][i].cid <= seq
    <3>1. CASE i \in 1 .. Len(chan[s])
      BY <1>3, <2>4, <3>1 DEF Added, Endings
    <3>2. CASE i = Len(chan[s]) + 1
      BY <1>3, <2>3, <2>4, <3>2 DEF Added
    <3> QED  BY <1>3, <2>0, <2>4, <3>1, <3>2 DEF Added
  <2> QED  BY <2>1, <2>2, <2>4, Channels
<1> QED  BY <1>1, <1>2, <1>3 DEF Endings

-----------------------------------------------------------------------------
\* The refinement.  Most steps of the session change nothing of what the applications
\* see, except that something may have failed: a step Cut of the abstract tunnel.
Visible == <<sent, got, fin, Shut>>

LEMMA CutStep ==
  ASSUME Inv, [Next]_vars, Visible' = Visible
  PROVE  [Service!Next]_(Service!vars)
<1>1. Cut' \in SUBSET Conns /\ Cut' = Cut \cup Cut'
  BY CutGrows
<1>2. Service!Cut(Cut')
  BY <1>1 DEF Service!Cut, Visible
<1> QED  BY <1>1, <1>2 DEF Service!Next

\* A socket that is closed where something failed, or where the end rests.
LEMMA ShutStep ==
  ASSUME Inv, NEW s \in Sides, NEW c \in Conns, UNCHANGED apps, Cut' = Cut,
         sock' = [sock EXCEPT ![<<s, c>>] = "closed"], c \in Cut \/ Rests(s, c)
  PROVE  [Service!Next]_(Service!vars)
<1>1. Shut' = [Shut EXCEPT ![<<s, c>>] = TRUE]
  BY DEF Shut, Inv, TypeOK, Ends
<1>2. \/ c \in Cut \/ fin[<<s, c>>]
      \/ fin[<<Other(s), c>>] /\ Len(got[<<s, c>>]) = sent[<<Other(s), c>>]
  BY DEF Rests
<1>3. Service!Shut(s, c)
  BY <1>1, <1>2 DEF Service!Shut, Service!Complete, Service!Other, Other, apps
<1> QED  BY <1>3 DEF Service!Next, Service!Sides, Sides

\* Data that reaches an application is the next piece.
LEMMA DeliverStep ==
  ASSUME Inv, Inv', Order, Order', [Next]_vars, NEW s \in Sides, OnReqWrite(s)
  PROVE  [Service!Next]_(Service!vars)
<1>1. PICK m : m = In(s)
  OBVIOUS
<1>2. PICK b \in Conns : b = recv[s].conn
  BY DEF OnReqWrite, Inv, Handling
<1>3. UNCHANGED <<sent, taken, fin, sock, held, listening, sessOpen, stop, broken>>
      /\ AppWrite(s, b, m)
  BY <1>1, <1>2 DEF OnReqWrite, Consume
<1>4. CASE got' = got
  BY <1>3, <1>4, CutStep DEF Visible, Shut
<1>5. CASE got' # got
  <2>1. /\ b \in Conns /\ sock[<<s, b>>] = "open" /\ ~fin[<<s, b>>] /\ failed' = failed
        /\ got' = [got EXCEPT ![<<s, b>>] = Append(@, <<m.conn, m.chunk>>)]
    BY <1>3, <1>5 DEF AppWrite
  <2>2. PICK o \in Sides : o = Other(s) /\ Other(o) = s
    BY DEF Other, Sides
  <2>3. /\ <<s, b>> \in Ends /\ <<o, b>> \in Ends
        /\ got \in [Ends -> Seq(Conns \X Nat)] /\ got[<<s, b>>] \in Seq(Conns \X Nat)
        /\ got'[<<s, b>>] \in Seq(Conns \X Nat)
        /\ taken[<<o, b>>] \in Nat /\ sent[<<o, b>>] \in Nat
    BY <2>1 DEF Inv, TypeOK, Ends
  <2> DEFINE g == Len(got[<<s, b>>])
  <2>4. got'[<<s, b>>] = Append(got[<<s, b>>], <<m.conn, m.chunk>>) /\ g \in Nat
    BY <2>1, <2>3
  <2>5. Len(got'[<<s, b>>]) = g + 1 /\ got'[<<s, b>>][g + 1] = <<m.conn, m.chunk>>
    BY <2>3, <2>4
  <2>6. /\ g + 1 <= Passed(o, b)' /\ taken'[<<o, b>>] <= sent'[<<o, b>>]
        /\ got'[<<s, b>>][g + 1] = <<b, g + 1>>
    <3>1. Pieces(o, b)'
      BY <2>1 DEF Order
    <3>2. g + 1 \in 1 .. Len(got'[<<s, b>>])
      BY <2>4, <2>5
    <3> QED  BY <2>2, <2>5, <3>1, <3>2 DEF Pieces
  <2>7. g < sent[<<o, b>>]
    <3>1. /\ taken'[<<o, b>>] \in Nat /\ sent'[<<o, b>>] \in Nat
          /\ sent'[<<o, b>>] = sent[<<o, b>>]
      <4>1. TypeOK'
        BY DEF Inv
      <4> QED  BY <1>3, <2>3, <4>1 DEF TypeOK, Ends
    <3>2. Passed(o, b)' \in Int /\ Passed(o, b)' <= taken'[<<o, b>>]
      BY <3>1 DEF Passed
    <3>3. PICK h \in Nat, p \in Int, k \in Nat, n \in Nat :
            h = g /\ p = Passed(o, b)' /\ k = taken'[<<o, b>>] /\ n = sent'[<<o, b>>]
      BY <2>4, <3>1, <3>2
    <3>4. h + 1 <= p
      BY <2>6, <3>3
    <3>5. p <= k /\ k <= n
      BY <2>6, <3>2, <3>3
    <3>6. h < n
      BY <3>4, <3>5
    <3> QED  BY <3>1, <3>3, <3>6
  <2>8. got' = [got EXCEPT ![<<s, b>>] = Append(@, <<b, Len(@) + 1>>)]
    BY <2>1, <2>5, <2>6
  <2>9. ~Shut[<<s, b>>] /\ UNCHANGED <<Shut, Cut>>
    BY <1>3, <2>1, <2>3 DEF Shut, Cut, Up
  <2>10. Service!Deliver(s, b)
    BY <1>3, <2>1, <2>2, <2>7, <2>8, <2>9 DEF Service!Deliver, Service!Other, Other
  <2> QED  BY <2>1, <2>10 DEF Service!Next, Service!Sides, Sides
<1> QED  BY <1>4, <1>5

\* Every step is one of the abstract tunnel, or changes nothing of it.
LEMMA StepRefined ==
  ASSUME Inv, Inv', Order, Order', Endings, [Next]_vars
  PROVE  [Service!Next]_(Service!vars)
<1>0. /\ "client" \in Sides /\ "proxy" \in Sides
      /\ sock \in [Ends -> {"none", "open", "closed"}]
      /\ \A s \in Sides, c \in Conns : <<s, c>> \in Ends
  BY DEF Inv, TypeOK, Ends, Sides
<1>1. ASSUME UNCHANGED <<sent, got, fin, sock>> PROVE [Service!Next]_(Service!vars)
  BY <1>1, CutStep DEF Visible, Shut
<1>2. ASSUME NEW s \in Sides, NEW c \in Conns, sock[<<s, c>>] = "none",
             UNCHANGED <<sent, got, fin>>, sock' = [sock EXCEPT ![<<s, c>>] = "open"]
      PROVE  [Service!Next]_(Service!vars)
  <2>1. \A e \in Ends : (sock'[e] = "closed") = (sock[e] = "closed")
    BY <1>0, <1>2
  <2>2. Shut' = Shut
    BY <2>1 DEF Shut
  <2> QED  BY <1>2, <2>2, CutStep DEF Visible
<1>3. CASE \/ UNCHANGED vars \/ Break \/ checkClientHB \/ sendHB \/ CloseListener \/ Store
           \/ \E s \in Sides : Stop(s) \/ StopSess(s)
  <2>1. UNCHANGED <<sent, got, fin, sock>>
    BY <1>3 DEF vars, apps, conns, Break, checkClientHB, sendHB, CloseListener, Stop, StopSess, CloseSess, Store
  <2> QED  BY <1>1, <2>1
<1>4. CASE sendBrowserConnCreateEvent
  <2>1. UNCHANGED <<sent, got, fin>>
    BY <1>4 DEF sendBrowserConnCreateEvent, apps
  <2>2. CASE sock' = sock
    BY <1>1, <2>1, <2>2
  <2>3. CASE sock' # sock
    <3>1. /\ WriteFails("proxy") /\ UNCHANGED <<apps, listening, failed>>
          /\ sock' = [sock EXCEPT ![<<"proxy", accept.conn>>] = "closed"]
      BY <1>4, <2>3 DEF sendBrowserConnCreateEvent
    <3>2. accept.conn \in Conns
      BY <1>4 DEF sendBrowserConnCreateEvent, Inv, Accepting
    <3>3. UNCHANGED <<sessOpen, broken, stop>> /\ ~Up
      BY <3>1 DEF WriteFails
    <3>4. Cut' = Cut /\ accept.conn \in Cut
      BY <3>1, <3>2, <3>3 DEF Cut, Up
    <3> QED  BY <1>0, <3>1, <3>2, <3>4, ShutStep
  <2> QED  BY <2>2, <2>3
<1>5. ASSUME NEW c \in Conns, Accept(c) PROVE [Service!Next]_(Service!vars)
  <2>1. /\ sock[<<"proxy", c>>] = "none" /\ sock' = [sock EXCEPT ![<<"proxy", c>>] = "open"]
        /\ UNCHANGED <<sent, got, fin>>
    BY <1>5 DEF Accept, apps
  <2> QED  BY <1>0, <1>2, <2>1
<1>6. CASE DialStore
  <2>1. /\ recv["client"].pc = "dial" /\ recv["client"].conn \in Conns
        /\ sock' = [sock EXCEPT ![<<"client", recv["client"].conn>>] = "open"]
        /\ UNCHANGED <<sent, got, fin>>
    BY <1>0, <1>6 DEF DialStore, apps, Inv, Handling
  <2>2. trigger[<<"client", recv["client"].conn>>] = "none"
    BY <2>1 DEF Inv, Once, Dialing
  <2>3. sock[<<"client", recv["client"].conn>>] = "none"
    BY <2>1, <2>2 DEF Endings, Made
  <2> QED  BY <1>0, <1>2, <2>1, <2>3
<1>7. ASSUME NEW s \in Sides, ReceiveEnd(s) \/ OnReq(s) \/ OnClose(s) \/ OnCloseUnbind(s)
      PROVE  [Service!Next]_(Service!vars)
  <2>1. UNCHANGED <<sent, got, fin, sock>>
    BY <1>7 DEF ReceiveEnd, OnReq, OnClose, OnCloseUnbind, apps, conns
  <2> QED  BY <1>1, <2>1
<1>8. CASE \/ clientConnCreateDoneHandler \/ OnCreate \/ DialRefused \/ SendRefused
           \/ ArmForward \/ sendCreateConnDoneEvent
  <2>1. UNCHANGED <<sent, got, fin, sock>>
    BY <1>8 DEF clientConnCreateDoneHandler, OnCreate, DialRefused, SendRefused, ArmForward,
       sendCreateConnDoneEvent, apps, conns
  <2> QED  BY <1>1, <2>1
<1>9. ASSUME NEW s \in Sides, NEW c \in Conns, Closing(s, c), UNCHANGED <<apps, sess, listening, failed>>,
             sock' = [sock EXCEPT ![<<s, c>>] = "closed"]
      PROVE  [Service!Next]_(Service!vars)
  <2>1. Cut' = Cut
    BY <1>9 DEF Cut, Up, sess
  <2>2. c \in Cut \/ Rests(s, c)
    BY <1>9 DEF Endings, Ending
  <2> QED  BY <1>9, <2>1, <2>2, ShutStep
<1>10. ASSUME NEW s \in Sides, OnCloseClose(s) PROVE [Service!Next]_(Service!vars)
  <2>1. /\ recv[s].pc = "close" /\ recv[s].conn \in Conns
        /\ UNCHANGED <<apps, sess, listening, failed>>
        /\ sock' = [sock EXCEPT ![<<s, recv[s].conn>>] = "closed"]
    BY <1>10 DEF OnCloseClose, Inv, Handling
  <2>2. Closing(s, recv[s].conn)
    BY <2>1 DEF Closing
  <2> QED  BY <1>9, <2>1, <2>2
<1>11. ASSUME NEW s \in Sides, NEW c \in Conns, CloseAfter(s, c) \/ Finalize(s, c)
       PROVE  [Service!Next]_(Service!vars)
  <2>1. /\ trigger[<<s, c>>] = "close" \/ isClose[<<s, c>>]
        /\ UNCHANGED <<apps, sess, listening, failed>>
        /\ sock' = [sock EXCEPT ![<<s, c>>] = "closed"]
    BY <1>11 DEF CloseAfter, Finalize, loops
  <2>2. Closing(s, c)
    BY <2>1 DEF Closing
  <2> QED  BY <1>9, <2>1, <2>2
<1>12. ASSUME NEW s \in Sides, NEW c \in Conns,
              \/ FireBrowser(c) \/ FireForward(c) \/ UnbindForward(c) \/ Read(s, c)
              \/ SendReq(s, c) \/ ReadEnd(s, c) \/ Notify(s, c)
              \/ AppStall(s, c) \/ AppResume(s, c)
       PROVE  [Service!Next]_(Service!vars)
  <2>1. UNCHANGED <<sent, got, fin, sock>>
    BY <1>12 DEF AppStall, AppResume, conns, FireBrowser, FireForward, UnbindForward, Read, SendReq, ReadEnd, Notify, apps
  <2> QED  BY <1>1, <2>1
<1>13. ASSUME NEW s \in Sides, NEW c \in Conns, AppSend(s, c) \/ AppClose(s, c)
       PROVE  [Service!Next]_(Service!vars)
  <2>1. UNCHANGED <<got, Shut, Cut>>
    BY <1>13 DEF AppSend, AppClose, Shut, Cut, Up, conns, sess, loops
  <2>2. CASE AppSend(s, c)
    <3>1. Service!Send(s, c)
      BY <2>1, <2>2 DEF AppSend, Service!Send
    <3> QED  BY <3>1 DEF Service!Next, Service!Sides, Sides
  <2>3. CASE AppClose(s, c)
    <3>1. Service!Close(s, c)
      BY <2>1, <2>3 DEF AppClose, Service!Close
    <3> QED  BY <3>1 DEF Service!Next, Service!Sides, Sides
  <2> QED  BY <1>13, <2>2, <2>3
<1> QED  BY <1>0, <1>3, <1>4, <1>5, <1>6, <1>7, <1>8, <1>10, <1>11, <1>12, <1>13, DeliverStep, Steps

LEMMA EndingsInit == Init => Endings
<1> SUFFICES ASSUME Init PROVE Endings
  OBVIOUS
<1>1. /\ "client" \in Sides
      /\ \A s \in Sides : chan[s] = <<>> /\ recv[s].pc = "read"
  BY DEF Init, At, Sides
<1>2. \A s \in Sides : \A i \in 1 .. Len(chan[s]) : FALSE
  BY <1>1
<1>3. ASSUME NEW s \in Sides, NEW c \in Conns
      PROVE  /\ sock[<<s, c>>] = "none" /\ trigger[<<s, c>>] = "none"
             /\ isClose[<<s, c>>] = FALSE /\ due[<<s, c>>] = FALSE
  BY DEF Init, Ends
<1>4. \A s \in Sides, n \in CIDs : bind[<<s, n>>] = None
  BY DEF Init
<1>5. \A c \in Conns, n \in CIDs : bind[<<"client", n>>] # c
  BY <1>1, <1>4, ConnsAssumption
<1>6. Made
  BY <1>1, <1>3, <1>5 DEF Made
<1>7. ASSUME NEW s \in Sides, NEW c \in Conns PROVE Ending(s, c)
  BY <1>1, <1>2, <1>3 DEF Ending, Closing
<1> QED  BY <1>2, <1>6, <1>7 DEF Endings

\* The initial state is the abstract tunnel's.
LEMMA InitRefined == Init => Service!Init
<1> SUFFICES ASSUME Init PROVE Service!Init
  OBVIOUS
<1>1. \A e \in Ends : sock[e] = "none"
  BY DEF Init
<1>2. Shut = [e \in Ends |-> FALSE]
  BY <1>1 DEF Shut
<1>3. Up /\ listening /\ \A s \in Sides : ~stop[s]
  BY DEF Init, Up
<1>4. Cut = {}
  BY <1>3 DEF Cut, Init
<1> QED  BY <1>2, <1>4 DEF Init, Service!Init, Service!Ends, Service!Sides, Ends, Sides

\* The two endpoints keep the promise of the abstract tunnel, for any connections,
\* pieces, faults and interleavings, as long as no number is given twice: every step
\* of the goroutines is a step of TunnelService or changes nothing that the
\* applications see.  In particular an application that has neither left nor lost its
\* session is told the end only after all that was sent to it.
THEOREM KeepsPromise ==
  ASSUME FewConns
  PROVE  Spec => Promise
<1>1. Init => Order /\ Drawn /\ Unique /\ Endings /\ Service!Init
  BY OrderInit, EndingsInit, InitRefined
<1>2. Inv /\ Inv' /\ Writing /\ Order /\ Drawn /\ Unique /\ Endings /\ [Next]_vars /\ FewConns
      => Order' /\ Drawn' /\ Unique' /\ Endings' /\ [Service!Next]_(Service!vars)
  BY OrderNext, DrawnNext, EndingsNext, StepRefined
<1> QED  BY <1>1, <1>2, Invariance, PTL DEF Spec, Promise, Service!Spec

\* What the abstract tunnel guarantees holds of the two endpoints.
Promised == INSTANCE TunnelServiceProofs WITH shut <- Shut, cut <- Cut

\* An application whose end the tunnel closed under it, and which neither left nor lost
\* its session, has received everything that the other one sent before it left.
THEOREM NothingTruncated ==
  ASSUME FewConns
  PROVE  Spec => []Service!NoTruncation
<1>1. Promised!Spec => []Promised!NoTruncation
  BY Promised!Delivery, PTL
<1>2. Promised!Init <=> Service!Init
  BY DEF Service!Init, Promised!Init, Service!Ends, Promised!Ends, Service!Sides, Promised!Sides
<1>3. [Service!Next]_(Service!vars) => [Promised!Next]_(Promised!vars)
  BY DEF Service!Next, Promised!Next, Service!vars, Promised!vars, Service!Sides, Promised!Sides,
         Service!Send, Promised!Send, Service!Deliver, Promised!Deliver, Service!Close,
         Promised!Close, Service!Cut, Promised!Cut, Service!Shut, Promised!Shut,
         Service!Complete, Promised!Complete, Service!Other, Promised!Other
<1>4. Promised!NoTruncation => Service!NoTruncation
  BY DEF Promised!NoTruncation, Service!NoTruncation, Service!Sides, Promised!Sides,
         Service!Complete, Promised!Complete, Service!Other, Promised!Other
<1> QED  BY <1>1, <1>2, <1>3, <1>4, KeepsPromise, PTL DEF Promise, Service!Spec, Promised!Spec
=============================================================================
