---------------------------- MODULE TunnelProofs ----------------------------
\* Proofs about the relay of browser connections, for any connections and any
\* MaxCID: so also for numbers that come round while a connection that has the
\* number is open, for a session that fails or is stopped, and for applications
\* that are gone.  ForwardUnbound alone is not inductive.  A close handler takes
\* an entry away by its connection's number: that it is the right entry needs
\* Bound, which needs the numbers that the messages and the two loops carry to
\* be those of their connections (Messages, Accepting, Handling).  And an entry
\* is made from a CREATE: that the connection's handlers have not run by then
\* needs that each connection is announced once (Once).
\*
\* The second part is about the entries that must be there.  A live connection is in
\* its maps (LiveIsBound) only if no number is in use twice: that there are no more
\* connections than numbers is assumed (FewConns), that the numbers differ follows
\* (Drawn, Unique).  Between the dial and the close trigger the client's connection
\* is kept by Dialled.
EXTENDS Tunnel, FiniteSetTheorems, TLAPS

\* TypeOK, variable group by variable group: an action disturbs few of them.
Message == [type : {"CREATE", "DONE", "REQ", "CLOSE"}, cid : CIDs,
            conn : Conns \cup {None}, chunk : Nat]
Receiving == [pc : {"read", "end", "write", "unbind", "close", "dial", "refuse",
                     "arm", "done"},
              conn : Conns \cup {None}, cid : 0 .. MaxCID]
Acceptance == [pc : {"accept", "store", "create"}, conn : Conns \cup {None},
               cid : 0 .. MaxCID]

TypeApps  == /\ sent \in [Ends -> Nat] /\ taken \in [Ends -> Nat]
             /\ got \in [Ends -> Seq(Conns \X Nat)] /\ fin \in [Ends -> BOOLEAN]
             /\ stalled \in [Ends -> BOOLEAN]
TypeConns == /\ sock \in [Ends -> {"none", "open", "closed"}]
             /\ isClose \in [Ends -> BOOLEAN]
             /\ trigger \in [Ends -> {"none", "armed", "unbind", "notify", "close", "done"}]
             /\ due \in [Ends -> BOOLEAN]
             /\ readers \in [Ends -> Nat] /\ held \in [Ends -> SUBSET Nat]
TypeMaps  == /\ bind \in [Sides \X CIDs -> Conns \cup {None}]
             /\ cid \in [Conns -> 0 .. MaxCID] /\ seq \in 0 .. MaxCID
TypeSess  == /\ chan \in [Sides -> Seq(Message)]
             /\ sessOpen \in [Sides -> BOOLEAN] /\ sessClose \in [Sides -> BOOLEAN]
             /\ stop \in [Sides -> BOOLEAN] /\ broken \in BOOLEAN
TypeLoops == /\ recv \in [Sides -> Receiving] /\ accept \in Acceptance
             /\ listening \in BOOLEAN /\ failed \subseteq Conns

\* The groups together are the type invariant.
LEMMA TypeParts == TypeOK <=> TypeApps /\ TypeConns /\ TypeMaps /\ TypeSess /\ TypeLoops
  BY DEF TypeOK, TypeApps, TypeConns, TypeMaps, TypeSess, TypeLoops, Message,
         Receiving, Acceptance

\* The reader goroutines and the pieces they hold.
Counted ==
  \A e \in Ends : IsFiniteSet(held[e]) /\ Cardinality(held[e]) <= readers[e]

\* A connection has its number from its accept on, and nothing before.
Numbered ==
  /\ \A c \in Conns : cid[c] = 0 <=> sock[<<"proxy", c>>] = "none"
  /\ \A s \in Sides, c \in Conns :
       cid[c] = 0 => trigger[<<s, c>>] = "none" /\ readers[<<s, c>>] = 0

\* A map has a connection under its own number only.
Bound ==
  \A s \in Sides, n \in CIDs, c \in Conns : bind[<<s, n>>] = c => cid[c] = n

\* What the accept loop and the receivers work on.
Accepting ==
  accept.pc # "accept" =>
    /\ accept.conn \in Conns /\ accept.cid \in CIDs
    /\ cid[accept.conn] = accept.cid
Handling ==
  \A s \in Sides : recv[s].pc \notin {"read", "end"} =>
    /\ recv[s].conn \in Conns /\ recv[s].cid \in CIDs
    /\ cid[recv[s].conn] = recv[s].cid

\* What a message says of its connection.
Sound(m) ==
  /\ m.type \in {"CREATE", "REQ"} => m.conn \in Conns
  /\ m.type = "CREATE" => cid[m.conn] = m.cid
Messages == \A s \in Sides : \A i \in 1 .. Len(chan[s]) : Sound(chan[s][i])

\* A connection is announced to the client once, before its close trigger there
\* exists.
Announces(i, c) == chan["proxy"][i].type = "CREATE" /\ chan["proxy"][i].conn = c
Dialing(c)      == recv["client"].pc \in {"dial", "arm"} /\ recv["client"].conn = c
Announcing(c)   == accept.pc # "accept" /\ accept.conn = c
Once ==
  /\ \A i \in 1 .. Len(chan["proxy"]), c \in Conns : Announces(i, c) =>
       /\ trigger[<<"client", c>>] = "none"
       /\ ~Dialing(c) /\ ~Announcing(c)
       /\ \A j \in 1 .. Len(chan["proxy"]) : Announces(j, c) => j = i
  /\ \A c \in Conns : Announcing(c) => trigger[<<"client", c>>] = "none" /\ ~Dialing(c)
  /\ \A c \in Conns : Dialing(c) => trigger[<<"client", c>>] = "none"
  /\ \A i \in 1 .. Len(chan["client"]) : chan["client"][i].type # "CREATE"

\* A REQ that is being written is at the head until the write returns.
Writing ==
  \A s \in Sides : recv[s].pc = "write" =>
    chan[Other(s)] # <<>> /\ In(s).type = "REQ" /\ In(s).cid = recv[s].cid

\* The inductive invariant; with Writing, which only the receivers disturb and which
\* is shown apart.
Inv == /\ TypeOK /\ Counted /\ Numbered /\ Bound /\ Accepting /\ Handling
       /\ Messages /\ Once /\ ForwardUnbound


\* The invariant by its parts, now and after a step.
LEMMA Parts ==
  Inv <=> /\ TypeApps /\ TypeConns /\ TypeMaps /\ TypeSess /\ TypeLoops
          /\ Counted /\ Numbered /\ Bound /\ Accepting /\ Handling
          /\ Messages /\ Once /\ ForwardUnbound
  BY TypeParts DEF Inv
LEMMA PartsNext ==
  Inv' <=> /\ TypeApps' /\ TypeConns' /\ TypeMaps' /\ TypeSess' /\ TypeLoops'
          /\ Counted' /\ Numbered' /\ Bound' /\ Accepting' /\ Handling'
          /\ Messages' /\ Once' /\ ForwardUnbound'
  BY Parts, PTL

\* Each part depends on these variables only.
LEMMA SameTypeApps ==
  ASSUME TypeApps, UNCHANGED <<sent, taken, got, fin, stalled, stalled>>
  PROVE TypeApps'

  BY DEF TypeApps
LEMMA SameTypeConns ==
  ASSUME TypeConns, UNCHANGED <<sock, isClose, trigger, due, readers, held>>
  PROVE TypeConns'

  BY DEF TypeConns
LEMMA SameTypeMaps ==
  ASSUME TypeMaps, UNCHANGED <<bind, cid, seq>>
  PROVE TypeMaps'

  BY DEF TypeMaps
LEMMA SameTypeSess ==
  ASSUME TypeSess, UNCHANGED <<chan, sessOpen, sessClose, stop, broken>>
  PROVE TypeSess'

  BY DEF TypeSess
LEMMA SameTypeLoops ==
  ASSUME TypeLoops, UNCHANGED <<recv, accept, listening, failed>>
  PROVE TypeLoops'

  BY DEF TypeLoops
LEMMA SameCounted ==
  ASSUME Counted, UNCHANGED <<held, readers>>
  PROVE Counted'

  BY DEF Counted
LEMMA SameNumbered ==
  ASSUME Numbered, UNCHANGED <<cid, sock, trigger, readers>>
  PROVE Numbered'

  BY DEF Numbered
LEMMA SameBound ==
  ASSUME Bound, UNCHANGED <<bind, cid>>
  PROVE Bound'

  BY DEF Bound
LEMMA SameAccepting ==
  ASSUME Accepting, UNCHANGED <<accept, cid>>
  PROVE Accepting'

  BY DEF Accepting
LEMMA SameHandling ==
  ASSUME Handling, UNCHANGED <<recv, cid>>
  PROVE Handling'

  BY DEF Handling
LEMMA SameMessages ==
  ASSUME Messages, UNCHANGED <<chan, cid>>
  PROVE Messages'

  BY DEF Messages, Sound
LEMMA SameOnce ==
  ASSUME Once, UNCHANGED <<chan, trigger, recv, accept>>
  PROVE Once'

  BY DEF Once, Announces, Dialing, Announcing
LEMMA SameForwardUnbound ==
  ASSUME ForwardUnbound, UNCHANGED <<bind, trigger>>
  PROVE ForwardUnbound'

  BY DEF ForwardUnbound

-----------------------------------------------------------------------------
\* What Msg makes is a message, with the fields it is given.
LEMMA MsgIsMessage ==
  ASSUME NEW t \in {"CREATE", "DONE", "REQ", "CLOSE"}, NEW n \in CIDs,
         NEW c \in Conns \cup {None}, NEW k \in Nat
  PROVE  /\ Msg(t, n, c, k) \in Message
         /\ Msg(t, n, c, k).type = t /\ Msg(t, n, c, k).cid = n
         /\ Msg(t, n, c, k).conn = c
  BY DEF Msg, Message
\* The same of a message that names no connection.
LEMMA ControlIsMessage ==
  ASSUME NEW t \in {"CREATE", "DONE", "REQ", "CLOSE"}, NEW n \in CIDs
  PROVE  Msg(t, n, None, 0) \in Message /\ Msg(t, n, None, 0).type = t
<1>1. None \in Conns \cup {None} /\ 0 \in Nat
  OBVIOUS
<1> QED
  BY <1>1, MsgIsMessage

\* A message is written behind those that are there, or lost.
LEMMA Sending ==
  ASSUME TypeSess, NEW s \in Sides, NEW m \in Message, Write(s, m)
  PROVE  /\ TypeSess'
         /\ \A t \in Sides : \A i \in 1 .. Len(chan'[t]) :
              \/ i \in 1 .. Len(chan[t]) /\ chan'[t][i] = chan[t][i]
              \/ t = s /\ i = Len(chan[s]) + 1 /\ chan'[t][i] = m
<1>1. chan' = chan \/ chan' = [chan EXCEPT ![s] = Append(@, m)]
  BY DEF Write, Written, WriteFails
<1>2. chan \in [Sides -> Seq(Message)] /\ chan' \in [Sides -> Seq(Message)]
  <2>1. chan \in [Sides -> Seq(Message)]
    BY DEF TypeSess
  <2>2. Append(chan[s], m) \in Seq(Message)
    BY <2>1
  <2> QED
    BY <1>1, <2>1, <2>2
<1>3. TypeSess'
  BY <1>2 DEF TypeSess, Write, Written, WriteFails
<1>4. ASSUME NEW t \in Sides, NEW i \in 1 .. Len(chan'[t])
      PROVE  \/ i \in 1 .. Len(chan[t]) /\ chan'[t][i] = chan[t][i]
             \/ t = s /\ i = Len(chan[s]) + 1 /\ chan'[t][i] = m
  <2>1. CASE chan'[t] = chan[t]
    BY <2>1, <1>4
  <2>2. CASE t = s /\ chan'[t] = Append(chan[t], m)
    BY <2>2, <1>2, <1>4
  <2> QED
    BY <1>1, <1>2, <2>1, <2>2
<1> QED
  BY <1>3, <1>4

\* A message is read from the front.
LEMMA Consuming ==
  ASSUME TypeSess, NEW s \in Sides, chan[Other(s)] # <<>>, Consume(s)
  PROVE  /\ TypeSess'
         /\ Other(s) \in Sides /\ Other(s) # s
         /\ In(s) \in Message
         /\ 1 \in 1 .. Len(chan[Other(s)]) /\ In(s) = chan[Other(s)][1]
         /\ \A x \in Sides : \A i \in 1 .. Len(chan'[x]) :
              \/ x = s /\ i \in 1 .. Len(chan[x]) /\ chan'[x][i] = chan[x][i]
              \/ /\ x = Other(s) /\ i + 1 \in 1 .. Len(chan[x])
                 /\ chan'[x][i] = chan[x][i + 1]
<1> DEFINE o == Other(s)
<1>1. o \in Sides /\ o # s /\ \A x \in Sides : x = s \/ x = o
  BY DEF Other, Sides
<1>2. chan[o] \in Seq(Message) /\ chan[o] # <<>>
  BY <1>1 DEF TypeSess
<1>3. chan' = [chan EXCEPT ![o] = Tail(@)]
  BY DEF Consume
<1> HIDE DEF o
<1>4. /\ Head(chan[o]) = chan[o][1] /\ Len(chan[o]) \in Nat /\ 1 <= Len(chan[o])
      /\ chan[o][1] \in Message /\ Tail(chan[o]) \in Seq(Message)
      /\ Len(Tail(chan[o])) = Len(chan[o]) - 1
      /\ \A i \in 1 .. Len(Tail(chan[o])) : Tail(chan[o])[i] = chan[o][i + 1]
  BY <1>2
<1>5. chan' \in [Sides -> Seq(Message)] /\ chan'[o] = Tail(chan[o])
  BY <1>1, <1>3, <1>4 DEF TypeSess
<1>6. TypeSess'
  BY <1>5 DEF TypeSess, Consume
<1>7. ASSUME NEW x \in Sides, NEW i \in 1 .. Len(chan'[x])
      PROVE  \/ x = s /\ i \in 1 .. Len(chan[x]) /\ chan'[x][i] = chan[x][i]
             \/ x = o /\ i + 1 \in 1 .. Len(chan[x]) /\ chan'[x][i] = chan[x][i + 1]
  <2>1. CASE x = o
    BY <2>1, <1>4, <1>5, <1>7
  <2>2. CASE x = s
    <3>1. chan'[x] = chan[x]
      BY <2>2, <1>1, <1>3 DEF TypeSess
    <3> QED
      BY <2>2, <3>1, <1>7
  <2> QED
    BY <1>1, <2>1, <2>2
<1> QED
  BY <1>1, <1>2, <1>4, <1>6, <1>7 DEF In, o

\* The same, of a message of the type that its handler waits for.
LEMMA Taking ==
  ASSUME TypeSess, NEW s \in Sides, NEW t, Incoming(s, t)
  PROVE  /\ TypeSess'
         /\ Other(s) \in Sides /\ Other(s) # s
         /\ In(s) \in Message /\ In(s).type = t
         /\ 1 \in 1 .. Len(chan[Other(s)]) /\ In(s) = chan[Other(s)][1]
         /\ \A x \in Sides : \A i \in 1 .. Len(chan'[x]) :
              \/ x = s /\ i \in 1 .. Len(chan[x]) /\ chan'[x][i] = chan[x][i]
              \/ /\ x = Other(s) /\ i + 1 \in 1 .. Len(chan[x])
                 /\ chan'[x][i] = chan[x][i + 1]
<1>1. chan[Other(s)] # <<>> /\ Consume(s) /\ In(s).type = t
  BY DEF Incoming, AtHead, In
<1> QED
  BY <1>1, Consuming

\* Once survives a step that announces, accepts, dials and disarms nothing.
LEMMA OnceKept ==
  ASSUME Once, NEW d \in {0, 1},
         \A i \in 1 .. Len(chan'["proxy"]), c \in Conns : Announces(i, c)' =>
           i + d \in 1 .. Len(chan["proxy"]) /\ Announces(i + d, c),
         \A i \in 1 .. Len(chan'["client"]) : chan'["client"][i].type # "CREATE",
         \A c \in Conns : Dialing(c)' => Dialing(c),
         \A c \in Conns : Announcing(c)' => Announcing(c),
         \A c \in Conns : trigger[<<"client", c>>] = "none" => trigger'[<<"client", c>>] = "none"
  PROVE  Once'
<1>1. ASSUME NEW i \in 1 .. Len(chan'["proxy"]), NEW c \in Conns, Announces(i, c)'
      PROVE  /\ trigger'[<<"client", c>>] = "none"
             /\ ~Dialing(c)' /\ ~Announcing(c)'
             /\ \A j \in 1 .. Len(chan'["proxy"]) : Announces(j, c)' => j = i
  <2>1. i + d \in 1 .. Len(chan["proxy"]) /\ Announces(i + d, c)
    BY <1>1
  <2>2. ASSUME NEW j \in 1 .. Len(chan'["proxy"]), Announces(j, c)' PROVE j = i
    <3>1. j + d \in 1 .. Len(chan["proxy"]) /\ Announces(j + d, c)
      BY <2>2
    <3>2. j + d = i + d
      BY <2>1, <3>1 DEF Once
    <3> QED
      BY <3>2
  <2> QED
    BY <2>1, <2>2 DEF Once
<1> QED
  BY <1>1 DEF Once

\* One lemma per action: it keeps the invariant.  Under it, one step per part
\* that the action can disturb; the others follow from what it leaves alone.
LEMMA StepBreak ==
  ASSUME Inv, Break PROVE Inv'
<1>1. /\ TypeApps /\ TypeConns /\ TypeMaps /\ TypeSess /\ TypeLoops
      /\ Counted /\ Numbered /\ Bound /\ Accepting /\ Handling
      /\ Messages /\ Once /\ ForwardUnbound
  BY Parts
<1>2. UNCHANGED <<sent, taken, got, fin, stalled, sock, isClose, trigger, due, readers, held,
                  bind, cid, seq, recv, accept, listening, failed, chan>>
  BY DEF Break, apps, conns, maps, sess, loops
<1>3. TypeSess'
  BY <1>1 DEF Break, TypeSess
<1> QED
  BY <1>1, <1>2, PartsNext, <1>3, SameTypeApps, SameTypeConns, SameTypeMaps,
     SameTypeLoops, SameCounted, SameNumbered, SameBound, SameAccepting,
     SameHandling, SameMessages, SameOnce, SameForwardUnbound

LEMMA StepStop ==
  ASSUME Inv, NEW s \in Sides, Stop(s) PROVE Inv'
<1>1. /\ TypeApps /\ TypeConns /\ TypeMaps /\ TypeSess /\ TypeLoops
      /\ Counted /\ Numbered /\ Bound /\ Accepting /\ Handling
      /\ Messages /\ Once /\ ForwardUnbound
  BY Parts
<1>2. UNCHANGED <<sent, taken, got, fin, stalled, sock, isClose, trigger, due, readers, held,
                  bind, cid, seq, recv, accept, listening, failed, chan>>
  BY DEF Stop, apps, conns, maps, sess, loops
<1>3. TypeSess'
  BY <1>1 DEF Stop, TypeSess
<1> QED
  BY <1>1, <1>2, PartsNext, <1>3, SameTypeApps, SameTypeConns, SameTypeMaps,
     SameTypeLoops, SameCounted, SameNumbered, SameBound, SameAccepting,
     SameHandling, SameMessages, SameOnce, SameForwardUnbound

LEMMA StepStopSess ==
  ASSUME Inv, NEW s \in Sides, StopSess(s) PROVE Inv'
<1>1. /\ TypeApps /\ TypeConns /\ TypeMaps /\ TypeSess /\ TypeLoops
      /\ Counted /\ Numbered /\ Bound /\ Accepting /\ Handling
      /\ Messages /\ Once /\ ForwardUnbound
  BY Parts
<1>2. UNCHANGED <<sent, taken, got, fin, stalled, sock, isClose, trigger, due, readers, held,
                  bind, cid, seq, recv, accept, listening, failed, chan>>
  BY DEF StopSess, CloseSess, apps, conns, maps, sess, loops
<1>3. TypeSess'
  BY <1>1 DEF StopSess, CloseSess, TypeSess
<1> QED
  BY <1>1, <1>2, PartsNext, <1>3, SameTypeApps, SameTypeConns, SameTypeMaps,
     SameTypeLoops, SameCounted, SameNumbered, SameBound, SameAccepting,
     SameHandling, SameMessages, SameOnce, SameForwardUnbound

LEMMA StepcheckClientHB ==
  ASSUME Inv, checkClientHB PROVE Inv'
<1>1. /\ TypeApps /\ TypeConns /\ TypeMaps /\ TypeSess /\ TypeLoops
      /\ Counted /\ Numbered /\ Bound /\ Accepting /\ Handling
      /\ Messages /\ Once /\ ForwardUnbound
  BY Parts
<1>2. UNCHANGED <<sent, taken, got, fin, stalled, sock, isClose, trigger, due, readers, held,
                  bind, cid, seq, recv, accept, listening, failed, chan>>
  BY DEF checkClientHB, CloseSess, apps, conns, maps, sess, loops
<1>3. TypeSess'
  BY <1>1 DEF checkClientHB, CloseSess, TypeSess
<1> QED
  BY <1>1, <1>2, PartsNext, <1>3, SameTypeApps, SameTypeConns, SameTypeMaps,
     SameTypeLoops, SameCounted, SameNumbered, SameBound, SameAccepting,
     SameHandling, SameMessages, SameOnce, SameForwardUnbound

LEMMA StepsendHB ==
  ASSUME Inv, sendHB PROVE Inv'
<1>1. /\ TypeApps /\ TypeConns /\ TypeMaps /\ TypeSess /\ TypeLoops
      /\ Counted /\ Numbered /\ Bound /\ Accepting /\ Handling
      /\ Messages /\ Once /\ ForwardUnbound
  BY Parts
<1>2. UNCHANGED <<sent, taken, got, fin, stalled, sock, isClose, trigger, due, readers, held,
                  bind, cid, seq, recv, accept, listening, failed, chan>>
  BY DEF sendHB, WriteFails, apps, conns, maps, sess, loops
<1>3. TypeSess'
  BY <1>1 DEF sendHB, WriteFails, TypeSess
<1> QED
  BY <1>1, <1>2, PartsNext, <1>3, SameTypeApps, SameTypeConns, SameTypeMaps,
     SameTypeLoops, SameCounted, SameNumbered, SameBound, SameAccepting,
     SameHandling, SameMessages, SameOnce, SameForwardUnbound

LEMMA StepCloseListener ==
  ASSUME Inv, CloseListener PROVE Inv'
<1>1. /\ TypeApps /\ TypeConns /\ TypeMaps /\ TypeSess /\ TypeLoops
      /\ Counted /\ Numbered /\ Bound /\ Accepting /\ Handling
      /\ Messages /\ Once /\ ForwardUnbound
  BY Parts
<1>2. UNCHANGED <<sent, taken, got, fin, stalled, sock, isClose, trigger, due, readers, held,
                  bind, cid, seq, chan, sessOpen, sessClose, stop, broken, accept,
                  recv>>
  BY DEF CloseListener, apps, conns, maps, sess, loops
<1>3. TypeLoops'
  BY <1>1 DEF TypeLoops, CloseListener
<1> QED
  BY <1>1, <1>2, PartsNext, <1>3, SameTypeApps, SameTypeConns, SameTypeMaps,
     SameTypeSess, SameCounted, SameNumbered, SameBound, SameAccepting,
     SameHandling, SameMessages, SameOnce, SameForwardUnbound

LEMMA StepStore ==
  ASSUME Inv, Store PROVE Inv'
<1>1. /\ TypeApps /\ TypeConns /\ TypeMaps /\ TypeSess /\ TypeLoops
      /\ Counted /\ Numbered /\ Bound /\ Accepting /\ Handling
      /\ Messages /\ Once /\ ForwardUnbound
  BY Parts
<1>2. UNCHANGED <<sent, taken, got, fin, stalled, sock, isClose, trigger, due, readers, held,
                  chan, sessOpen, sessClose, stop, broken, cid, recv>>
  BY DEF Store, apps, conns, maps, sess, loops
<1>3. TypeMaps'
  BY <1>1 DEF Store, TypeMaps, Accepting
<1>4. TypeLoops'
  BY <1>1 DEF Store, TypeLoops, Acceptance
<1>5. Bound'
  BY <1>1 DEF Store, Bound, Accepting
<1>6. Accepting'
  BY <1>1 DEF Store, Accepting
<1>7. Once'
  BY <1>1 DEF Store, conns, sess, Once, Announces, Dialing, Announcing
<1>8. ForwardUnbound'
  BY <1>1 DEF Store, conns, ForwardUnbound
<1> QED
  BY <1>1, <1>2, PartsNext, <1>3, <1>4, <1>5, <1>6, <1>7, <1>8, SameTypeApps,
     SameTypeConns, SameTypeSess, SameCounted, SameNumbered, SameHandling,
     SameMessages

LEMMA StepsendBrowserConnCreateEvent ==
  ASSUME Inv, sendBrowserConnCreateEvent PROVE Inv'
<1>1. /\ TypeApps /\ TypeConns /\ TypeMaps /\ TypeSess /\ TypeLoops
      /\ Counted /\ Numbered /\ Bound /\ Accepting /\ Handling
      /\ Messages /\ Once /\ ForwardUnbound
  BY Parts
<1>2. UNCHANGED <<sent, taken, got, fin, stalled, bind, cid, seq, held, readers, recv,
                  trigger>>
  BY DEF sendBrowserConnCreateEvent, Write, Written, WriteFails, Msg, At, apps,
         conns, maps, sess, loops
<1>3. /\ "proxy" \in Sides /\ accept.cid \in CIDs /\ accept.conn \in Conns
      /\ cid[accept.conn] = accept.cid /\ accept.pc = "create"
  BY <1>1 DEF sendBrowserConnCreateEvent, Accepting, Sides
<1>4. /\ Msg("CREATE", accept.cid, accept.conn, 0) \in Message
      /\ Msg("CREATE", accept.cid, accept.conn, 0).type = "CREATE"
      /\ Msg("CREATE", accept.cid, accept.conn, 0).conn = accept.conn
      /\ Msg("CREATE", accept.cid, accept.conn, 0).cid = accept.cid
  BY <1>3, MsgIsMessage
<1>5. Write("proxy", Msg("CREATE", accept.cid, accept.conn, 0))
  BY DEF sendBrowserConnCreateEvent, Write
<1>6. /\ accept' = At("accept", None, 0)
      /\ UNCHANGED <<trigger, recv, cid, readers>>
      /\ \/ UNCHANGED <<sock, isClose>>
         \/ /\ sock' = [sock EXCEPT ![<<"proxy", accept.conn>>] = "closed"]
            /\ isClose' = [isClose EXCEPT ![<<"proxy", accept.conn>>] = TRUE]
  BY DEF sendBrowserConnCreateEvent, maps
<1>7. TypeConns'
  BY <1>1, <1>3, <1>6 DEF TypeConns, sendBrowserConnCreateEvent
<1>8. TypeSess'
  BY <1>1, <1>3, <1>4, <1>5, Sending
<1>9. TypeLoops'
  BY <1>1, BoundsAssumption
     DEF sendBrowserConnCreateEvent, Write, Written, WriteFails, Msg, At, TypeLoops,
         Acceptance
<1>10. Numbered'
  BY <1>1, <1>3, <1>6, BoundsAssumption DEF Numbered, TypeConns, CIDs, Ends
<1>11. Accepting'
  BY <1>1
     DEF sendBrowserConnCreateEvent, Write, Written, WriteFails, Msg, At, maps,
         Accepting
<1>12. Messages'
  <2>1. ASSUME NEW t \in Sides, NEW i \in 1 .. Len(chan'[t])
        PROVE  Sound(chan[t][i])'
    <3>1. CASE i \in 1 .. Len(chan[t]) /\ chan'[t][i] = chan[t][i]
      BY <1>1, <1>6, <3>1 DEF Messages, Sound
    <3>2. CASE chan'[t][i] = Msg("CREATE", accept.cid, accept.conn, 0)
      BY <1>3, <1>4, <1>6, <3>2 DEF Sound
    <3> QED
      BY <1>1, <1>3, <1>4, <1>5, <2>1, <3>1, <3>2, Sending
  <2> QED
    BY <2>1 DEF Messages
<1>13. Once'
  <2> DEFINE m == Msg("CREATE", accept.cid, accept.conn, 0)
  <2>1. /\ "client" \in Sides /\ "client" # "proxy" /\ ~\E x \in Conns : Announcing(x)'
        /\ Announcing(accept.conn) /\ trigger[<<"client", accept.conn>>] = "none"
        /\ ~Dialing(accept.conn)
        /\ \A x \in Conns : Dialing(x)' <=> Dialing(x)
    BY <1>1, <1>3, <1>6 DEF Once, Announcing, Dialing, At, Sides
  <2>2. \A i \in 1 .. Len(chan["proxy"]) : ~Announces(i, accept.conn)
    BY <1>1, <1>3, <2>1 DEF Once
  <2>3. \A i \in 1 .. Len(chan'["proxy"]) :
          \/ i \in 1 .. Len(chan["proxy"]) /\ chan'["proxy"][i] = chan["proxy"][i]
          \/ i = Len(chan["proxy"]) + 1 /\ chan'["proxy"][i] = m
    BY <1>1, <1>3, <1>4, <1>5, Sending
  <2>4. \A i \in 1 .. Len(chan'["client"]) :
          i \in 1 .. Len(chan["client"]) /\ chan'["client"][i] = chan["client"][i]
    BY <1>1, <1>3, <1>4, <1>5, <2>1, Sending
  <2>5. \A i \in 1 .. Len(chan'["proxy"]), x \in Conns : Announces(i, x)' =>
          \/ i \in 1 .. Len(chan["proxy"]) /\ Announces(i, x) /\ x # accept.conn
          \/ i = Len(chan["proxy"]) + 1 /\ x = accept.conn
    BY <1>4, <2>2, <2>3 DEF Announces
  <2> QED
    BY <1>1, <1>3, <1>6, <2>1, <2>4, <2>5 DEF Once
<1> QED
  BY <1>1, <1>2, PartsNext, <1>7, <1>8, <1>9, <1>10, <1>11, <1>12, <1>13,
     SameTypeApps, SameTypeMaps, SameCounted, SameBound, SameHandling,
     SameForwardUnbound

LEMMA StepAccept ==
  ASSUME Inv, NEW c \in Conns, Accept(c) PROVE Inv'
<1>1. /\ TypeApps /\ TypeConns /\ TypeMaps /\ TypeSess /\ TypeLoops
      /\ Counted /\ Numbered /\ Bound /\ Accepting /\ Handling
      /\ Messages /\ Once /\ ForwardUnbound
  BY Parts
<1>2. UNCHANGED <<sent, taken, got, fin, stalled, chan, sessOpen, sessClose, stop, broken,
                  held, readers>>
  BY DEF Accept, newSerialNo, At, apps, conns, maps, sess, loops
<1>3. /\ cid[c] = 0 /\ cid' = [cid EXCEPT ![c] = seq'] /\ seq' \in CIDs
      /\ accept' = At("store", c, seq')
      /\ trigger' = [trigger EXCEPT ![<<"proxy", c>>] = "armed"]
      /\ UNCHANGED <<chan, recv>>
  BY <1>1, BoundsAssumption
     DEF Accept, Numbered, newSerialNo, CIDs, TypeMaps, sess, Sides
<1>4. \A s \in Sides : \A i \in 1 .. Len(chan[s]) :
        chan[s][i].type = "CREATE" => chan[s][i].conn # c /\ chan[s][i].conn \in Conns
  <2>1. \A s \in Sides : \A i \in 1 .. Len(chan[s]) : chan[s][i].cid \in CIDs
    <3>1. ASSUME NEW s \in Sides, NEW i \in 1 .. Len(chan[s])
          PROVE  chan[s][i] \in Message
      BY <1>1 DEF TypeSess
    <3> QED
      BY <3>1 DEF Message
  <2> QED
    BY <1>1, <1>3, <2>1 DEF Messages, Sound, CIDs
<1>5. TypeConns'
  BY <1>1 DEF Accept, newSerialNo, At, TypeConns
<1>6. TypeMaps'
  BY <1>1, BoundsAssumption DEF Accept, newSerialNo, At, TypeMaps
<1>7. TypeLoops'
  BY <1>1, BoundsAssumption
     DEF Accept, newSerialNo, At, TypeLoops, Acceptance, TypeMaps
<1>8. Numbered'
  BY <1>1, BoundsAssumption
     DEF Accept, newSerialNo, At, Ends, Sides, Numbered, TypeConns, TypeMaps
<1>9. Bound'
  BY <1>1 DEF Accept, newSerialNo, At, CIDs, Bound, Numbered
<1>10. Accepting'
  BY <1>1, BoundsAssumption DEF Accept, newSerialNo, At, CIDs, Accepting, TypeMaps
<1>11. Handling'
  BY <1>1 DEF Accept, newSerialNo, At, CIDs, Handling, Numbered
<1>12. Messages'
  BY <1>1, <1>3, <1>4 DEF Messages, Sound, TypeMaps
<1>13. Once'
  <2>1. \A x \in Conns : /\ Dialing(x)' <=> Dialing(x)
                         /\ Announcing(x)' <=> x = c
                         /\ trigger'[<<"client", x>>] = trigger[<<"client", x>>]
    BY <1>1, <1>3 DEF Dialing, Announcing, At, TypeConns, Ends, Sides
  <2>2. ~Dialing(c) /\ trigger[<<"client", c>>] = "none"
    BY <1>1, <1>3 DEF Dialing, Handling, Numbered, CIDs, Sides
  <2>3. \A i \in 1 .. Len(chan["proxy"]), x \in Conns : /\ Announces(i, x)' <=> Announces(i, x)
                                                      /\ ~Announces(i, c)
    BY <1>3, <1>4 DEF Announces, Sides
  <2>4. UNCHANGED chan
    BY <1>3
  <2>5. ASSUME NEW i \in 1 .. Len(chan["proxy"]), NEW x \in Conns, Announces(i, x)'
        PROVE  /\ trigger'[<<"client", x>>] = "none" /\ ~Dialing(x)' /\ ~Announcing(x)'
               /\ \A j \in 1 .. Len(chan["proxy"]) : Announces(j, x)' => j = i
    <3>1. Announces(i, x) /\ x # c
      BY <2>3, <2>5
    <3>2. /\ trigger[<<"client", x>>] = "none" /\ ~Dialing(x)
          /\ \A j \in 1 .. Len(chan["proxy"]) : Announces(j, x) => j = i
      BY <1>1, <3>1 DEF Once
    <3> QED
      BY <2>1, <2>3, <3>1, <3>2
  <2>6. ASSUME NEW x \in Conns
        PROVE  /\ Announcing(x)' => trigger'[<<"client", x>>] = "none" /\ ~Dialing(x)'
               /\ Dialing(x)' => trigger'[<<"client", x>>] = "none"
    BY <1>1, <2>1, <2>2 DEF Once
  <2>7. \A i \in 1 .. Len(chan["client"]) : chan["client"][i].type # "CREATE"
    BY <1>1 DEF Once
  <2> QED
    BY <2>4, <2>5, <2>6, <2>7 DEF Once
<1>14. ForwardUnbound'
  BY <1>1 DEF Accept, newSerialNo, At, ForwardUnbound
<1> QED
  BY <1>1, <1>2, PartsNext, <1>5, <1>6, <1>7, <1>8, <1>9, <1>10, <1>11, <1>12,
     <1>13, <1>14, SameTypeApps, SameTypeSess, SameCounted

LEMMA StepReceiveEnd ==
  ASSUME Inv, NEW s \in Sides, ReceiveEnd(s) PROVE Inv'
<1>1. /\ TypeApps /\ TypeConns /\ TypeMaps /\ TypeSess /\ TypeLoops
      /\ Counted /\ Numbered /\ Bound /\ Accepting /\ Handling
      /\ Messages /\ Once /\ ForwardUnbound
  BY Parts
<1>2. UNCHANGED <<sent, taken, got, fin, stalled, sock, isClose, trigger, due, readers, held,
                  bind, cid, seq, accept>>
  BY DEF ReceiveEnd, At, apps, conns, maps, sess, loops
<1>3. TypeSess'
  BY <1>1 DEF ReceiveEnd, At, Sides, TypeSess, Other
<1>4. TypeLoops'
  BY <1>1, BoundsAssumption DEF ReceiveEnd, At, TypeLoops, Receiving
<1>5. Handling'
  BY <1>1 DEF ReceiveEnd, At, maps, Handling
<1>6. Messages'
  BY <1>1 DEF ReceiveEnd, At, maps, Messages, Sound, Other
<1>7. Once'
  BY <1>1
     DEF ReceiveEnd, At, conns, Sides, Once, Announces, Dialing, Announcing, Other
<1> QED
  BY <1>1, <1>2, PartsNext, <1>3, <1>4, <1>5, <1>6, <1>7, SameTypeApps,
     SameTypeConns, SameTypeMaps, SameCounted, SameNumbered, SameBound,
     SameAccepting, SameForwardUnbound

\* A message that its handler is done with.
LEMMA Consumed ==
  ASSUME Inv, NEW s \in Sides, chan[Other(s)] # <<>>, Consume(s),
         recv' = [recv EXCEPT ![s] = Loop(s)], UNCHANGED <<cid, trigger, accept>>
  PROVE  TypeSess' /\ Handling' /\ Messages' /\ Once'
<1>1. /\ TypeApps /\ TypeConns /\ TypeMaps /\ TypeSess /\ TypeLoops
      /\ Counted /\ Numbered /\ Bound /\ Accepting /\ Handling
      /\ Messages /\ Once /\ ForwardUnbound
  BY Parts
<1>3. Loop(s) \in Receiving /\ recv'[s] = Loop(s)
  BY <1>1, BoundsAssumption DEF Loop, At, Receiving, TypeLoops
<1>4. TypeSess' /\ Other(s) \in Sides /\ Other(s) # s
  BY <1>1, Consuming
<1>2. Handling'
  BY <1>1 DEF Handling, TypeLoops, Loop, At
<1>5. Messages'
  <2>1. UNCHANGED cid
    OBVIOUS
  <2>2. ASSUME NEW t \in Sides, NEW i \in 1 .. Len(chan'[t])
        PROVE  Sound(chan[t][i])'
    <3>1. PICK j \in 1 .. Len(chan[t]) : chan'[t][i] = chan[t][j]
      BY <1>1, <2>2, Consuming
    <3>2. Sound(chan[t][j])
      BY <1>1 DEF Messages
    <3> QED
      BY <2>1, <3>1, <3>2 DEF Sound
  <2> QED
    BY <2>2 DEF Messages
<1>6. Once'
  <2>1. \A i \in 1 .. Len(chan'["client"]) : chan'["client"][i].type # "CREATE"
    <3>1. "client" \in Sides
      BY DEF Sides
    <3>2. ASSUME NEW i \in 1 .. Len(chan'["client"])
          PROVE  \E j \in 1 .. Len(chan["client"]) : chan'["client"][i] = chan["client"][j]
      <4>1. \/ /\ i \in 1 .. Len(chan["client"])
               /\ chan'["client"][i] = chan["client"][i]
            \/ /\ i + 1 \in 1 .. Len(chan["client"])
               /\ chan'["client"][i] = chan["client"][i + 1]
        BY <1>1, <3>1, Consuming
      <4> QED
        BY <4>1
    <3> QED
      BY <1>1, <3>2 DEF Once
  <2>2. \A x \in Conns : /\ Dialing(x)' => Dialing(x)
                         /\ Announcing(x)' => Announcing(x)
                         /\ trigger[<<"client", x>>] = "none" => trigger'[<<"client", x>>] = "none"
    BY <1>1 DEF Dialing, Announcing, Loop, At, TypeLoops
  <2>3. CASE s = "client"
    <3>1. \A i \in 1 .. Len(chan'["proxy"]), x \in Conns : Announces(i, x)' =>
            i + 1 \in 1 .. Len(chan["proxy"]) /\ Announces(i + 1, x)
      BY <1>1, <1>4, <2>3, Consuming DEF Announces, Sides
    <3> QED
      BY <1>1, <2>1, <2>2, <3>1, OnceKept
  <2>4. CASE s = "proxy"
    <3>1. \A i \in 1 .. Len(chan'["proxy"]), x \in Conns : Announces(i, x)' =>
            i + 0 \in 1 .. Len(chan["proxy"]) /\ Announces(i + 0, x)
      BY <1>1, <1>4, <2>4, Consuming DEF Announces, Sides
    <3> QED
      BY <1>1, <2>1, <2>2, <3>1, OnceKept
  <2> QED
    BY <2>3, <2>4 DEF Sides
<1> QED
  BY <1>2, <1>4, <1>5, <1>6

LEMMA StepOnReq ==
  ASSUME Inv, NEW s \in Sides, OnReq(s) PROVE Inv'
<1>1. /\ TypeApps /\ TypeConns /\ TypeMaps /\ TypeSess /\ TypeLoops
      /\ Counted /\ Numbered /\ Bound /\ Accepting /\ Handling
      /\ Messages /\ Once /\ ForwardUnbound
  BY Parts
<1>2. UNCHANGED <<sent, taken, got, fin, stalled, sock, isClose, trigger, due, readers,
                  held, bind, cid, seq, accept, listening, failed>>
  BY DEF OnReq, apps, conns, maps
<1> DEFINE n == In(s).cid
<1>3. chan[Other(s)] # <<>>
  BY DEF OnReq, AtHead
<1>4. n \in CIDs
  <2>1. Other(s) \in Sides
    BY DEF Other, Sides
  <2>2. In(s) \in Message
    BY <1>1, <1>3, <2>1 DEF TypeSess, In
  <2> QED
    BY <2>2 DEF Message
<1>5. CASE Consume(s) /\ recv' = [recv EXCEPT ![s] = Loop(s)]
  <2>1. Loop(s) \in Receiving
    BY BoundsAssumption DEF Loop, At, Receiving
  <2>2. TypeLoops'
    BY <1>1, <1>2, <1>5, <2>1 DEF TypeLoops
  <2>3. TypeSess' /\ Handling' /\ Messages' /\ Once'
    BY <1>2, <1>3, <1>5, Consumed
  <2> QED
    BY <1>1, <1>2, <2>2, <2>3, PartsNext, SameTypeApps, SameTypeConns, SameTypeMaps,
       SameCounted, SameNumbered, SameBound, SameAccepting, SameForwardUnbound
<1>6. CASE /\ bind[<<s, n>>] # None /\ UNCHANGED sess
           /\ recv' = [recv EXCEPT ![s] = At("write", bind[<<s, n>>], n)]
  <2> DEFINE b == bind[<<s, n>>]
  <2>1. b \in Conns /\ cid[b] = n
    BY <1>1, <1>4, <1>6 DEF TypeMaps, Bound
  <2>2. UNCHANGED <<chan, sessOpen, sessClose, stop, broken>>
    BY <1>6 DEF sess
  <2>3. recv' = [recv EXCEPT ![s] = At("write", b, n)]
    BY <1>6
  <2> HIDE DEF n, b
  <2>4. /\ At("write", b, n) \in Receiving /\ At("write", b, n).pc = "write"
        /\ At("write", b, n).conn = b /\ At("write", b, n).cid = n
    BY <1>4, <2>1, BoundsAssumption DEF At, Receiving, CIDs
  <2>5. TypeLoops'
    BY <1>1, <1>2, <2>3, <2>4 DEF TypeLoops
  <2>6. Handling'
    BY <1>1, <1>2, <1>4, <2>1, <2>3, <2>4 DEF Handling, TypeLoops
  <2>7. Once'
    <3>1. \A x \in Conns : Dialing(x)' => Dialing(x)
      BY <1>1, <2>3, <2>4 DEF Dialing, TypeLoops
    <3>2. \A x \in Conns : Announcing(x)' <=> Announcing(x)
      BY <1>2 DEF Announcing
    <3> QED
      BY <1>1, <1>2, <2>2, <3>1, <3>2 DEF Once, Announces
  <2> QED
    BY <1>1, <1>2, <2>2, <2>5, <2>6, <2>7, PartsNext, SameTypeApps, SameTypeConns,
       SameTypeMaps, SameTypeSess, SameCounted, SameNumbered, SameBound,
       SameAccepting, SameMessages, SameForwardUnbound
<1> QED
  BY <1>5, <1>6 DEF OnReq

LEMMA StepOnReqWrite ==
  ASSUME Inv, Writing, NEW s \in Sides, OnReqWrite(s) PROVE Inv'
<1>1. /\ TypeApps /\ TypeConns /\ TypeMaps /\ TypeSess /\ TypeLoops
      /\ Counted /\ Numbered /\ Bound /\ Accepting /\ Handling
      /\ Messages /\ Once /\ ForwardUnbound
  BY Parts
<1>2. UNCHANGED <<bind, cid, seq, held, readers, sock, trigger, accept>>
  BY DEF OnReqWrite, maps
<1>3. chan[Other(s)] # <<>> /\ Consume(s) /\ In(s).type = "REQ"
  BY DEF OnReqWrite, Writing
<1>4. /\ TypeSess' /\ Other(s) \in Sides /\ Other(s) # s
      /\ In(s) \in Message /\ In(s).type = "REQ"
      /\ 1 \in 1 .. Len(chan[Other(s)]) /\ In(s) = chan[Other(s)][1]
  BY <1>1, <1>3, Consuming
<1>5. /\ In(s).cid \in CIDs /\ In(s).chunk \in Nat
      /\ recv[s].conn \in Conns
  <2>1. In(s).cid \in CIDs /\ In(s).chunk \in Nat
    BY <1>4 DEF Message
  <2>2. recv[s].conn \in Conns
    BY <1>1 DEF OnReqWrite, Handling
  <2> QED
    BY <2>1, <2>2
<1>6. Sound(In(s))
  BY <1>1, <1>4 DEF Messages
<1>7. recv' = [recv EXCEPT ![s] = Loop(s)] /\ UNCHANGED <<cid, trigger, accept>>
  BY DEF OnReqWrite, maps
<1>8. TypeApps'
  <2>1. \/ UNCHANGED got
        \/ /\ recv[s].conn \in Conns
           /\ got' = [got EXCEPT ![<<s, recv[s].conn>>] = Append(@, <<In(s).conn, In(s).chunk>>)]
    BY <1>5 DEF OnReqWrite, AppWrite
  <2>2. <<In(s).conn, In(s).chunk>> \in Conns \X Nat
    BY <1>4, <1>5, <1>6 DEF Sound
  <2>3. got' \in [Ends -> Seq(Conns \X Nat)]
    <3>1. got \in [Ends -> Seq(Conns \X Nat)]
      BY <1>1 DEF TypeApps
    <3>2. \A e \in Ends : Append(got[e], <<In(s).conn, In(s).chunk>>) \in Seq(Conns \X Nat)
      BY <2>2, <3>1
    <3> QED
      BY <2>1, <3>1, <3>2
  <2> QED
    BY <1>1, <2>3 DEF TypeApps, OnReqWrite
<1>9. TypeConns'
  <2>1. isClose' \in [Ends -> BOOLEAN]
    BY <1>1, <1>5 DEF OnReqWrite, AppWrite, TypeConns, Ends
  <2> QED
    BY <1>1, <2>1 DEF TypeConns, OnReqWrite
<1>10. TypeSess'
  BY <1>4
<1>11. TypeLoops'
  <2>1. Loop(s) \in Receiving
    BY BoundsAssumption DEF Loop, At, Receiving
  <2>2. failed' \subseteq Conns
    BY <1>1, <1>5 DEF OnReqWrite, AppWrite, TypeLoops
  <2> QED
    BY <1>1, <1>7, <2>1, <2>2 DEF TypeLoops, OnReqWrite
<1>12. Handling' /\ Messages' /\ Once'
  BY <1>3, <1>7, Consumed
<1> QED
  BY <1>1, <1>2, PartsNext, <1>8, <1>9, <1>10, <1>11, <1>12, SameTypeMaps, SameCounted,
     SameNumbered, SameBound, SameAccepting, SameForwardUnbound

LEMMA StepOnClose ==
  ASSUME Inv, NEW s \in Sides, OnClose(s) PROVE Inv'
<1>1. /\ TypeApps /\ TypeConns /\ TypeMaps /\ TypeSess /\ TypeLoops
      /\ Counted /\ Numbered /\ Bound /\ Accepting /\ Handling
      /\ Messages /\ Once /\ ForwardUnbound
  BY Parts
<1>2. UNCHANGED <<sent, taken, got, fin, stalled, sock, isClose, trigger, due, readers, held,
                  bind, cid, seq, accept>>
  BY DEF OnClose, Incoming, AtHead, Consume, In, Loop, At, apps, conns, maps, sess, loops
<1>3. Incoming(s, "CLOSE")
  BY DEF OnClose
<1>4. /\ TypeSess' /\ Other(s) \in Sides /\ Other(s) # s
      /\ In(s) \in Message /\ In(s).type = "CLOSE"
      /\ 1 \in 1 .. Len(chan[Other(s)]) /\ In(s) = chan[Other(s)][1]
  BY <1>1, <1>3, Taking
<1>5. /\ In(s).cid \in CIDs /\ In(s).chunk \in Nat
      /\ bind[<<s, In(s).cid>>] \in Conns \cup {None}
  BY <1>1, <1>3, <1>4 DEF Message, TypeMaps
<1>6. Sound(In(s))
  BY <1>1, <1>4 DEF Messages
<1>7. /\ recv' = [recv EXCEPT ![s] = IF bind[<<s, In(s).cid>>] = None THEN Loop(s)
                                   ELSE At("unbind", bind[<<s, In(s).cid>>], In(s).cid)]
      /\ UNCHANGED <<cid, trigger, accept>>
  BY DEF OnClose, maps, conns
<1>8. TypeSess'
  BY <1>4
<1>9. TypeLoops'
  <2>1. Loop(s) \in Receiving
    BY BoundsAssumption DEF Loop, At, Receiving
  <2>2. At("unbind", bind[<<s, In(s).cid>>], In(s).cid) \in Receiving
    BY <1>5 DEF At, Receiving, CIDs
  <2> QED
    BY <1>1, <1>7, <2>1, <2>2 DEF TypeLoops, OnClose
<1>10. Handling'
  <2>1. ASSUME NEW t \in Sides, recv'[t].pc \notin {"read", "end"}
        PROVE  /\ recv'[t].conn \in Conns /\ recv'[t].cid \in CIDs
               /\ cid[recv'[t].conn] = recv'[t].cid
    <3>1. CASE t # s
      BY <1>1, <1>7, <2>1, <3>1 DEF Handling, TypeLoops
    <3>2. CASE t = s
      <4>1. bind[<<s, In(s).cid>>] \in Conns /\ recv'[s] = At("unbind", bind[<<s, In(s).cid>>], In(s).cid)
        BY <1>1, <1>5, <1>7, <2>1, <3>2 DEF TypeLoops, Loop, At
      <4> QED
        BY <1>1, <1>5, <3>2, <4>1 DEF At, Bound
    <3> QED
      BY <3>1, <3>2
  <2> QED
    BY <1>7, <2>1 DEF Handling
<1>11. Messages'
  <2>1. UNCHANGED cid
    BY <1>7
  <2>2. ASSUME NEW t \in Sides, NEW i \in 1 .. Len(chan'[t])
        PROVE  Sound(chan[t][i])'
    <3>1. PICK j \in 1 .. Len(chan[t]) : chan'[t][i] = chan[t][j]
      BY <1>1, <1>3, <2>2, Taking
    <3>2. Sound(chan[t][j])
      BY <1>1 DEF Messages
    <3> QED
      BY <2>1, <3>1, <3>2 DEF Sound
  <2> QED
    BY <2>2 DEF Messages
<1>12. Once'
  <2>1. \A i \in 1 .. Len(chan'["client"]) : chan'["client"][i].type # "CREATE"
    <3>1. "client" \in Sides
      BY DEF Sides
    <3>2. ASSUME NEW i \in 1 .. Len(chan'["client"])
          PROVE  \E j \in 1 .. Len(chan["client"]) : chan'["client"][i] = chan["client"][j]
      <4>1. \/ /\ i \in 1 .. Len(chan["client"])
               /\ chan'["client"][i] = chan["client"][i]
            \/ /\ i + 1 \in 1 .. Len(chan["client"])
               /\ chan'["client"][i] = chan["client"][i + 1]
        BY <1>1, <1>3, <3>1, Taking
      <4> QED
        BY <4>1
    <3> QED
      BY <1>1, <3>2 DEF Once
  <2>2. \A x \in Conns : /\ Dialing(x)' => Dialing(x)
                         /\ Announcing(x)' => Announcing(x)
                         /\ trigger[<<"client", x>>] = "none" => trigger'[<<"client", x>>] = "none"
    BY <1>1, <1>7 DEF Dialing, Announcing, Loop, At, TypeLoops
  <2>3. CASE s = "client"
    <3>1. \A i \in 1 .. Len(chan'["proxy"]), x \in Conns : Announces(i, x)' =>
            i + 1 \in 1 .. Len(chan["proxy"]) /\ Announces(i + 1, x)
      BY <1>1, <1>3, <1>4, <2>3, Taking DEF Announces, Sides
    <3> QED
      BY <1>1, <2>1, <2>2, <3>1, OnceKept
  <2>4. CASE s = "proxy"
    <3>1. \A i \in 1 .. Len(chan'["proxy"]), x \in Conns : Announces(i, x)' =>
            i + 0 \in 1 .. Len(chan["proxy"]) /\ Announces(i + 0, x)
      BY <1>1, <1>3, <1>4, <2>4, Taking DEF Announces, Sides
    <3> QED
      BY <1>1, <2>1, <2>2, <3>1, OnceKept
  <2> QED
    BY <2>3, <2>4 DEF Sides
<1> QED
  BY <1>1, <1>2, PartsNext, <1>8, <1>9, <1>10, <1>11, <1>12, SameTypeApps,
     SameTypeConns, SameTypeMaps, SameCounted, SameNumbered, SameBound,
     SameAccepting, SameForwardUnbound

LEMMA StepOnCloseUnbind ==
  ASSUME Inv, NEW s \in Sides, OnCloseUnbind(s) PROVE Inv'
<1>1. /\ TypeApps /\ TypeConns /\ TypeMaps /\ TypeSess /\ TypeLoops
      /\ Counted /\ Numbered /\ Bound /\ Accepting /\ Handling
      /\ Messages /\ Once /\ ForwardUnbound
  BY Parts
<1>2. UNCHANGED <<sent, taken, got, fin, stalled, sock, isClose, trigger, due, readers, held,
                  chan, sessOpen, sessClose, stop, broken, cid, accept>>
  BY DEF OnCloseUnbind, apps, conns, maps, sess, loops
<1>3. TypeMaps'
  BY <1>1 DEF OnCloseUnbind, TypeMaps
<1>4. TypeLoops'
  BY <1>1 DEF OnCloseUnbind, TypeLoops, Receiving
<1>5. Bound'
  BY <1>1, ConnsAssumption DEF OnCloseUnbind, Bound
<1>6. Handling'
  BY <1>1 DEF OnCloseUnbind, Handling
<1>7. Once'
  BY <1>1 DEF OnCloseUnbind, conns, sess, Once, Announces, Dialing, Announcing
<1>8. ForwardUnbound'
  BY <1>1, ConnsAssumption DEF OnCloseUnbind, conns, ForwardUnbound
<1> QED
  BY <1>1, <1>2, PartsNext, <1>3, <1>4, <1>5, <1>6, <1>7, <1>8, SameTypeApps,
     SameTypeConns, SameTypeSess, SameCounted, SameNumbered, SameAccepting,
     SameMessages

LEMMA StepOnCloseClose ==
  ASSUME Inv, NEW s \in Sides, OnCloseClose(s) PROVE Inv'
<1>1. /\ TypeApps /\ TypeConns /\ TypeMaps /\ TypeSess /\ TypeLoops
      /\ Counted /\ Numbered /\ Bound /\ Accepting /\ Handling
      /\ Messages /\ Once /\ ForwardUnbound
  BY Parts
<1>2. UNCHANGED <<sent, taken, got, fin, stalled, bind, cid, seq, chan, sessOpen, sessClose,
                  stop, broken, held, readers, accept, trigger>>
  BY DEF OnCloseClose, Loop, At, apps, conns, maps, sess, loops
<1>3. TypeConns'
  BY <1>1 DEF OnCloseClose, Loop, At, TypeConns
<1>4. TypeLoops'
  BY <1>1, BoundsAssumption DEF OnCloseClose, Loop, At, TypeLoops, Receiving
<1>5. Numbered'
  BY <1>1 DEF OnCloseClose, Loop, At, maps, CIDs, Numbered, Handling
<1>6. Handling'
  BY <1>1 DEF OnCloseClose, Loop, At, maps, Handling
<1>7. Once'
  BY <1>1 DEF OnCloseClose, Loop, At, sess, Once, Announces, Dialing, Announcing
<1> QED
  BY <1>1, <1>2, PartsNext, <1>3, <1>4, <1>5, <1>6, <1>7, SameTypeApps,
     SameTypeMaps, SameTypeSess, SameCounted, SameBound, SameAccepting,
     SameMessages, SameForwardUnbound

LEMMA StepclientConnCreateDoneHandler ==
  ASSUME Inv, clientConnCreateDoneHandler PROVE Inv'
<1>1. /\ TypeApps /\ TypeConns /\ TypeMaps /\ TypeSess /\ TypeLoops
      /\ Counted /\ Numbered /\ Bound /\ Accepting /\ Handling
      /\ Messages /\ Once /\ ForwardUnbound
  BY Parts
<1>2. UNCHANGED <<sent, taken, got, fin, stalled, bind, cid, seq, accept, trigger>>
  BY DEF clientConnCreateDoneHandler, Incoming, AtHead, Consume, In, Loop, At, apps, conns, maps,
         sess, loops
<1>3. "proxy" \in Sides /\ Incoming("proxy", "DONE")
  BY DEF clientConnCreateDoneHandler, Sides
<1>4. /\ TypeSess' /\ Other("proxy") \in Sides /\ Other("proxy") # "proxy"
      /\ In("proxy") \in Message /\ In("proxy").type = "DONE"
      /\ 1 \in 1 .. Len(chan[Other("proxy")])
      /\ In("proxy") = chan[Other("proxy")][1]
  BY <1>1, <1>3, Taking
<1>5. /\ In("proxy").cid \in CIDs /\ In("proxy").chunk \in Nat
      /\ bind[<<"proxy", In("proxy").cid>>] \in Conns \cup {None}
  BY <1>1, <1>3, <1>4 DEF Message, TypeMaps
<1>6. Sound(In("proxy"))
  BY <1>1, <1>4 DEF Messages
<1>7. /\ recv' = [recv EXCEPT !["proxy"] = Loop("proxy")] /\ UNCHANGED <<cid,
                                                                         trigger,
                                                                         accept,
                                                                         held,
                                                                         sock>>
      /\ \/ UNCHANGED readers
         \/ /\ bind[<<"proxy", In("proxy").cid>>] \in Conns
            /\ readers' = [readers EXCEPT ![<<"proxy", bind[<<"proxy", In("proxy").cid>>]>>] = @ + 1]
  BY <1>5 DEF clientConnCreateDoneHandler, maps
<1>8. TypeConns'
  <2>1. readers' \in [Ends -> Nat]
    <3>1. readers \in [Ends -> Nat]
      BY <1>1 DEF TypeConns
    <3>2. ASSUME NEW x \in Conns, readers' = [readers EXCEPT ![<<"proxy", x>>] = @ + 1]
          PROVE  readers' \in [Ends -> Nat]
      <4>1. <<"proxy", x>> \in Ends
        BY <1>3 DEF Ends
      <4>2. readers[<<"proxy", x>>] + 1 \in Nat
        BY <3>1, <4>1
      <4> QED
        BY <3>1, <3>2, <4>2
    <3> QED
      <4>1. \/ readers' = readers
            \/ \E x \in Conns : readers' = [readers EXCEPT ![<<"proxy", x>>] = @ + 1]
        BY <1>7
      <4> QED
        BY <3>1, <3>2, <4>1
  <2> QED
    BY <1>1, <2>1 DEF TypeConns, clientConnCreateDoneHandler
<1>9. TypeSess'
  BY <1>4
<1>10. TypeLoops'
  <2>1. Loop("proxy") \in Receiving
    BY BoundsAssumption DEF Loop, At, Receiving
  <2> QED
    BY <1>1, <1>7, <2>1 DEF TypeLoops, clientConnCreateDoneHandler
<1>11. Counted'
  <2>1. \A e \in Ends : readers[e] \in Nat /\ (readers'[e] = readers[e] \/ readers'[e] = readers[e] + 1)
    BY <1>1, <1>7 DEF TypeConns
  <2>2. ASSUME NEW e \in Ends
        PROVE  IsFiniteSet(held'[e]) /\ Cardinality(held'[e]) <= readers'[e]
    <3>1. /\ held'[e] = held[e] /\ IsFiniteSet(held[e]) /\ Cardinality(held[e]) \in Nat
          /\ Cardinality(held[e]) <= readers[e]
      BY <1>1, <1>7, FS_CardinalityType DEF Counted
    <3> QED
      BY <2>1, <3>1
  <2> QED
    BY <2>2 DEF Counted
<1>12. Numbered'
  <2>1. ASSUME NEW t \in Sides, NEW x \in Conns, cid[x] = 0
        PROVE  readers'[<<t, x>>] = 0
    <3>1. x # bind[<<"proxy", In("proxy").cid>>]
      BY <1>1, <1>3, <1>5, <2>1, BoundsAssumption DEF Bound, CIDs
    <3>2. readers[<<t, x>>] = 0 /\ <<t, x>> \in Ends
      BY <1>1, <2>1 DEF Numbered, Ends
    <3>3. <<t, x>> # <<"proxy", bind[<<"proxy", In("proxy").cid>>]>>
      BY <3>1
    <3> QED
      BY <1>1, <1>7, <3>2, <3>3 DEF TypeConns
  <2> QED
    BY <1>1, <1>7, <2>1 DEF Numbered
<1>13. Handling'
  BY <1>1, <1>7 DEF Handling, TypeLoops, Loop, At
<1>14. Messages'
  <2>1. UNCHANGED cid
    BY <1>7
  <2>2. ASSUME NEW t \in Sides, NEW i \in 1 .. Len(chan'[t])
        PROVE  Sound(chan[t][i])'
    <3>1. PICK j \in 1 .. Len(chan[t]) : chan'[t][i] = chan[t][j]
      BY <1>1, <1>3, <2>2, Taking
    <3>2. Sound(chan[t][j])
      BY <1>1 DEF Messages
    <3> QED
      BY <2>1, <3>1, <3>2 DEF Sound
  <2> QED
    BY <2>2 DEF Messages
<1>15. Once'
  <2>1. \A i \in 1 .. Len(chan'["client"]) : chan'["client"][i].type # "CREATE"
    <3>1. "client" \in Sides
      BY DEF Sides
    <3>2. ASSUME NEW i \in 1 .. Len(chan'["client"])
          PROVE  \E j \in 1 .. Len(chan["client"]) : chan'["client"][i] = chan["client"][j]
      <4>1. \/ /\ i \in 1 .. Len(chan["client"])
               /\ chan'["client"][i] = chan["client"][i]
            \/ /\ i + 1 \in 1 .. Len(chan["client"])
               /\ chan'["client"][i] = chan["client"][i + 1]
        BY <1>1, <1>3, <3>1, Taking
      <4> QED
        BY <4>1
    <3> QED
      BY <1>1, <3>2 DEF Once
  <2>2. \A x \in Conns : /\ Dialing(x)' => Dialing(x)
                         /\ Announcing(x)' => Announcing(x)
                         /\ trigger[<<"client", x>>] = "none" => trigger'[<<"client", x>>] = "none"
    BY <1>1, <1>7 DEF Dialing, Announcing, Loop, At, TypeLoops
  <2>3. \A i \in 1 .. Len(chan'["proxy"]), x \in Conns : Announces(i, x)' =>
          i + 0 \in 1 .. Len(chan["proxy"]) /\ Announces(i + 0, x)
    BY <1>1, <1>3, <1>4, Taking DEF Announces, Sides
  <2> QED
    BY <1>1, <2>1, <2>2, <2>3, OnceKept
<1> QED
  BY <1>1, <1>2, PartsNext, <1>8, <1>9, <1>10, <1>11, <1>12, <1>13, <1>14, <1>15,
     SameTypeApps, SameTypeMaps, SameBound, SameAccepting, SameForwardUnbound

LEMMA StepOnCreate ==
  ASSUME Inv, OnCreate PROVE Inv'
<1>1. /\ TypeApps /\ TypeConns /\ TypeMaps /\ TypeSess /\ TypeLoops
      /\ Counted /\ Numbered /\ Bound /\ Accepting /\ Handling
      /\ Messages /\ Once /\ ForwardUnbound
  BY Parts
<1>2. UNCHANGED <<sent, taken, got, fin, stalled, sock, isClose, trigger, due, readers, held,
                  bind, cid, seq, accept>>
  BY DEF OnCreate, Incoming, AtHead, Consume, In, Loop, At, apps, conns, maps, sess, loops
<1>3. "client" \in Sides /\ Incoming("client", "CREATE")
  BY DEF OnCreate, Sides
<1>4. /\ TypeSess' /\ Other("client") \in Sides /\ Other("client") # "client"
      /\ In("client") \in Message /\ In("client").type = "CREATE"
      /\ 1 \in 1 .. Len(chan[Other("client")])
      /\ In("client") = chan[Other("client")][1]
  BY <1>1, <1>3, Taking
<1>5. /\ In("client").cid \in CIDs /\ In("client").chunk \in Nat
      /\ bind[<<"client", In("client").cid>>] \in Conns \cup {None}
  BY <1>1, <1>3, <1>4 DEF Message, TypeMaps
<1>6. Sound(In("client"))
  BY <1>1, <1>4 DEF Messages
<1>7. /\ recv' = [recv EXCEPT !["client"] = At("dial", In("client").conn, In("client").cid)]
      /\ UNCHANGED <<cid, trigger, accept>>
  BY DEF OnCreate, maps, conns
<1>8. In("client").conn \in Conns /\ cid[In("client").conn] = In("client").cid
  BY <1>4, <1>6 DEF Sound
<1>9. TypeSess'
  BY <1>4
<1>10. TypeLoops'
  <2>1. At("dial", In("client").conn, In("client").cid) \in Receiving
    BY <1>5, <1>8 DEF At, Receiving, CIDs
  <2> QED
    BY <1>1, <1>7, <2>1 DEF TypeLoops, OnCreate
<1>11. Handling'
  BY <1>1, <1>3, <1>5, <1>7, <1>8 DEF Handling, TypeLoops, At
<1>12. Messages'
  <2>1. UNCHANGED cid
    BY <1>7
  <2>2. ASSUME NEW t \in Sides, NEW i \in 1 .. Len(chan'[t])
        PROVE  Sound(chan[t][i])'
    <3>1. PICK j \in 1 .. Len(chan[t]) : chan'[t][i] = chan[t][j]
      BY <1>1, <1>3, <2>2, Taking
    <3>2. Sound(chan[t][j])
      BY <1>1 DEF Messages
    <3> QED
      BY <2>1, <3>1, <3>2 DEF Sound
  <2> QED
    BY <2>2 DEF Messages
<1>13. Once'
  <2> DEFINE c == In("client").conn
  <2>1. /\ Other("client") = "proxy" /\ "proxy" # "client" /\ "proxy" \in Sides
        /\ 1 \in 1 .. Len(chan["proxy"]) /\ Announces(1, c) /\ c \in Conns
    BY <1>4, <1>8 DEF Other, Announces, Sides
  <2>2. /\ trigger[<<"client", c>>] = "none" /\ ~Announcing(c)
        /\ \A j \in 1 .. Len(chan["proxy"]) : Announces(j, c) => j = 1
    BY <1>1, <2>1 DEF Once
  <2>3. \A i \in 1 .. Len(chan'["proxy"]) :
          i + 1 \in 1 .. Len(chan["proxy"]) /\ chan'["proxy"][i] = chan["proxy"][i + 1]
    BY <1>1, <1>3, <2>1, Taking
  <2>4. \A i \in 1 .. Len(chan'["proxy"]), x \in Conns : Announces(i, x)' =>
          i + 1 \in 1 .. Len(chan["proxy"]) /\ Announces(i + 1, x) /\ x # c
    BY <2>2, <2>3 DEF Announces
  <2>5. \A i \in 1 .. Len(chan'["client"]) :
          i \in 1 .. Len(chan["client"]) /\ chan'["client"][i] = chan["client"][i]
    BY <1>1, <1>3, <2>1, Taking
  <2>6. \A x \in Conns : (Dialing(x)' => x = c) /\ (Announcing(x)' <=> Announcing(x))
    BY <1>1, <1>3, <1>7 DEF Dialing, Announcing, At, TypeLoops
  <2>7. ASSUME NEW i \in 1 .. Len(chan'["proxy"]), NEW x \in Conns, Announces(i, x)'
        PROVE  /\ trigger'[<<"client", x>>] = "none" /\ ~Dialing(x)' /\ ~Announcing(x)'
               /\ \A j \in 1 .. Len(chan'["proxy"]) : Announces(j, x)' => j = i
    <3>1. i + 1 \in 1 .. Len(chan["proxy"]) /\ Announces(i + 1, x) /\ x # c
      BY <2>4, <2>7
    <3>2. ASSUME NEW j \in 1 .. Len(chan'["proxy"]), Announces(j, x)' PROVE j = i
      <4>1. j + 1 \in 1 .. Len(chan["proxy"]) /\ Announces(j + 1, x)
        BY <2>4, <3>2
      <4>2. j + 1 = i + 1
        BY <1>1, <3>1, <4>1 DEF Once
      <4> QED
        BY <4>2
    <3> QED
      BY <1>1, <1>7, <2>6, <3>1, <3>2 DEF Once
  <2> HIDE DEF c
  <2> QED
    BY <1>1, <1>7, <2>2, <2>5, <2>6, <2>7 DEF Once
<1> QED
  BY <1>1, <1>2, PartsNext, <1>9, <1>10, <1>11, <1>12, <1>13, SameTypeApps,
     SameTypeConns, SameTypeMaps, SameCounted, SameNumbered, SameBound,
     SameAccepting, SameForwardUnbound

LEMMA StepDialRefused ==
  ASSUME Inv, DialRefused PROVE Inv'
<1>1. /\ TypeApps /\ TypeConns /\ TypeMaps /\ TypeSess /\ TypeLoops
      /\ Counted /\ Numbered /\ Bound /\ Accepting /\ Handling
      /\ Messages /\ Once /\ ForwardUnbound
  BY Parts
<1>2. UNCHANGED <<sent, taken, got, fin, stalled, sock, isClose, trigger, due, readers, held,
                  bind, cid, seq, chan, sessOpen, sessClose, stop, broken, accept>>
  BY DEF DialRefused, apps, conns, maps, sess, loops
<1>3. TypeLoops'
  BY <1>1 DEF DialRefused, Sides, TypeLoops, Receiving, Handling
<1>4. Handling'
  BY <1>1 DEF DialRefused, maps, Handling
<1>5. Once'
  BY <1>1 DEF DialRefused, conns, sess, Once, Announces, Dialing, Announcing
<1> QED
  BY <1>1, <1>2, PartsNext, <1>3, <1>4, <1>5, SameTypeApps, SameTypeConns,
     SameTypeMaps, SameTypeSess, SameCounted, SameNumbered, SameBound,
     SameAccepting, SameMessages, SameForwardUnbound

LEMMA StepSendRefused ==
  ASSUME Inv, SendRefused PROVE Inv'
<1>1. /\ TypeApps /\ TypeConns /\ TypeMaps /\ TypeSess /\ TypeLoops
      /\ Counted /\ Numbered /\ Bound /\ Accepting /\ Handling
      /\ Messages /\ Once /\ ForwardUnbound
  BY Parts
<1>2. UNCHANGED <<sent, taken, got, fin, stalled, sock, isClose, trigger, due, readers, held,
                  bind, cid, seq, accept>>
  BY DEF SendRefused, Loop, At, Write, Written, WriteFails, Msg, apps, conns, maps,
         sess, loops
<1>3. "client" \in Sides /\ recv["client"].cid \in CIDs
  BY <1>1 DEF SendRefused, Handling, Sides
<1>4. /\ Msg("CLOSE", recv["client"].cid, None, 0) \in Message
      /\ Msg("CLOSE", recv["client"].cid, None, 0).type = "CLOSE"
  BY <1>3, ControlIsMessage
<1>5. Write("client", Msg("CLOSE", recv["client"].cid, None, 0))
  BY DEF SendRefused
<1>6. recv' = [recv EXCEPT !["client"] = Loop("client")] /\ UNCHANGED <<trigger,
                                                                        accept,
                                                                        cid>>
  BY DEF SendRefused, conns, maps
<1>7. TypeSess'
  BY <1>1, <1>3, <1>4, <1>5, Sending
<1>8. TypeLoops'
  BY <1>1, BoundsAssumption
     DEF SendRefused, Loop, At, Write, Written, WriteFails, Msg, Sides, TypeLoops,
         Receiving
<1>9. Handling'
  BY <1>1 DEF SendRefused, Loop, At, Write, Written, WriteFails, Msg, maps, Handling
<1>10. Messages'
  BY <1>1, <1>3, <1>4, <1>5, <1>6, Sending DEF Messages, Sound
<1>11. Once'
  <2>1. \A i \in 1 .. Len(chan'["proxy"]), x \in Conns : Announces(i, x)' =>
          i + 0 \in 1 .. Len(chan["proxy"]) /\ Announces(i + 0, x)
    BY <1>1, <1>3, <1>4, <1>5, Sending DEF Announces, Sides, Other
  <2>2. \A i \in 1 .. Len(chan'["client"]) : chan'["client"][i].type # "CREATE"
    BY <1>1, <1>3, <1>4, <1>5, Sending DEF Once, Sides, Other
  <2>3. \A x \in Conns : /\ Dialing(x)' => Dialing(x)
                         /\ Announcing(x)' => Announcing(x)
                         /\ trigger[<<"client", x>>] = "none" => trigger'[<<"client", x>>] = "none"
    BY <1>1, <1>3, <1>6 DEF Dialing, Announcing, Loop, At, TypeLoops
  <2> QED
    BY <1>1, <2>1, <2>2, <2>3, OnceKept
<1> QED
  BY <1>1, <1>2, PartsNext, <1>7, <1>8, <1>9, <1>10, <1>11, SameTypeApps,
     SameTypeConns, SameTypeMaps, SameCounted, SameNumbered, SameBound,
     SameAccepting, SameForwardUnbound

LEMMA StepDialStore ==
  ASSUME Inv, DialStore PROVE Inv'
<1>1. /\ TypeApps /\ TypeConns /\ TypeMaps /\ TypeSess /\ TypeLoops
      /\ Counted /\ Numbered /\ Bound /\ Accepting /\ Handling
      /\ Messages /\ Once /\ ForwardUnbound
  BY Parts
<1>2. UNCHANGED <<sent, taken, got, fin, stalled, chan, sessOpen, sessClose, stop, broken,
                  held, readers, accept, cid>>
  BY DEF DialStore, apps, conns, maps, sess, loops
<1>3. TypeConns'
  BY <1>1 DEF DialStore, TypeConns
<1>4. TypeMaps'
  BY <1>1 DEF DialStore, Sides, TypeMaps, Handling
<1>5. TypeLoops'
  BY <1>1 DEF DialStore, TypeLoops, Receiving
<1>6. Numbered'
  BY <1>1 DEF DialStore, Numbered
<1>7. Bound'
  BY <1>1 DEF DialStore, Bound, Handling
<1>8. Handling'
  BY <1>1 DEF DialStore, Handling
<1>9. Once'
  BY <1>1 DEF DialStore, sess, Once, Announces, Dialing, Announcing
<1>10. ForwardUnbound'
  BY <1>1 DEF DialStore, ForwardUnbound, Once, Dialing
<1> QED
  BY <1>1, <1>2, PartsNext, <1>3, <1>4, <1>5, <1>6, <1>7, <1>8, <1>9, <1>10,
     SameTypeApps, SameTypeSess, SameCounted, SameAccepting, SameMessages

LEMMA StepArmForward ==
  ASSUME Inv, ArmForward PROVE Inv'
<1>1. /\ TypeApps /\ TypeConns /\ TypeMaps /\ TypeSess /\ TypeLoops
      /\ Counted /\ Numbered /\ Bound /\ Accepting /\ Handling
      /\ Messages /\ Once /\ ForwardUnbound
  BY Parts
<1>2. UNCHANGED <<sent, taken, got, fin, stalled, bind, cid, seq, chan, sessOpen, sessClose,
                  stop, broken, accept>>
  BY DEF ArmForward, apps, conns, maps, sess, loops
<1>3. TypeConns'
  BY <1>1 DEF ArmForward, Ends, Sides, TypeConns, Handling
<1>4. TypeLoops'
  BY <1>1 DEF ArmForward, TypeLoops, Receiving
<1>5. Counted'
  <2>1. \A e \in Ends : readers'[e] \in Nat /\ readers'[e] >= readers[e] /\ readers[e] \in Nat
    BY <1>1 DEF ArmForward, TypeConns
  <2>2. UNCHANGED held
    BY DEF ArmForward
  <2> QED
    BY <1>1, <2>1, <2>2, FS_CardinalityType DEF Counted
<1>6. Numbered'
  BY <1>1 DEF ArmForward, maps, CIDs, Numbered, Handling
<1>7. Handling'
  BY <1>1 DEF ArmForward, maps, Handling
<1>8. Once'
  BY <1>1
     DEF ArmForward, sess, Sides, Once, Announces, Dialing, Announcing, TypeLoops
<1>9. ForwardUnbound'
  BY <1>1 DEF ArmForward, maps, ForwardUnbound
<1> QED
  BY <1>1, <1>2, PartsNext, <1>3, <1>4, <1>5, <1>6, <1>7, <1>8, <1>9, SameTypeApps,
     SameTypeMaps, SameTypeSess, SameBound, SameAccepting, SameMessages

LEMMA StepsendCreateConnDoneEvent ==
  ASSUME Inv, sendCreateConnDoneEvent PROVE Inv'
<1>1. /\ TypeApps /\ TypeConns /\ TypeMaps /\ TypeSess /\ TypeLoops
      /\ Counted /\ Numbered /\ Bound /\ Accepting /\ Handling
      /\ Messages /\ Once /\ ForwardUnbound
  BY Parts
<1>2. UNCHANGED <<sent, taken, got, fin, stalled, sock, isClose, trigger, due, readers, held,
                  bind, cid, seq, accept>>
  BY DEF sendCreateConnDoneEvent, Loop, At, Write, Written, WriteFails, Msg, apps,
         conns, maps, sess, loops
<1>3. "client" \in Sides /\ recv["client"].cid \in CIDs
  BY <1>1 DEF sendCreateConnDoneEvent, Handling, Sides
<1>4. /\ Msg("DONE", recv["client"].cid, None, 0) \in Message
      /\ Msg("DONE", recv["client"].cid, None, 0).type = "DONE"
  BY <1>3, ControlIsMessage
<1>5. Write("client", Msg("DONE", recv["client"].cid, None, 0))
  BY DEF sendCreateConnDoneEvent
<1>6. recv' = [recv EXCEPT !["client"] = Loop("client")] /\ UNCHANGED <<trigger,
                                                                        accept,
                                                                        cid>>
  BY DEF sendCreateConnDoneEvent, conns, maps
<1>7. TypeSess'
  BY <1>1, <1>3, <1>4, <1>5, Sending
<1>8. TypeLoops'
  BY <1>1, BoundsAssumption
     DEF sendCreateConnDoneEvent, Loop, At, Write, Written, WriteFails, Msg, Sides,
         TypeLoops, Receiving
<1>9. Handling'
  BY <1>1
     DEF sendCreateConnDoneEvent, Loop, At, Write, Written, WriteFails, Msg, maps,
         Handling
<1>10. Messages'
  BY <1>1, <1>3, <1>4, <1>5, <1>6, Sending DEF Messages, Sound
<1>11. Once'
  <2>1. \A i \in 1 .. Len(chan'["proxy"]), x \in Conns : Announces(i, x)' =>
          i + 0 \in 1 .. Len(chan["proxy"]) /\ Announces(i + 0, x)
    BY <1>1, <1>3, <1>4, <1>5, Sending DEF Announces, Sides, Other
  <2>2. \A i \in 1 .. Len(chan'["client"]) : chan'["client"][i].type # "CREATE"
    BY <1>1, <1>3, <1>4, <1>5, Sending DEF Once, Sides, Other
  <2>3. \A x \in Conns : /\ Dialing(x)' => Dialing(x)
                         /\ Announcing(x)' => Announcing(x)
                         /\ trigger[<<"client", x>>] = "none" => trigger'[<<"client", x>>] = "none"
    BY <1>1, <1>3, <1>6 DEF Dialing, Announcing, Loop, At, TypeLoops
  <2> QED
    BY <1>1, <2>1, <2>2, <2>3, OnceKept
<1> QED
  BY <1>1, <1>2, PartsNext, <1>7, <1>8, <1>9, <1>10, <1>11, SameTypeApps,
     SameTypeConns, SameTypeMaps, SameCounted, SameNumbered, SameBound,
     SameAccepting, SameForwardUnbound

LEMMA StepAppSend ==
  ASSUME Inv, NEW s \in Sides, NEW c \in Conns, AppSend(s, c) PROVE Inv'
<1>1. /\ TypeApps /\ TypeConns /\ TypeMaps /\ TypeSess /\ TypeLoops
      /\ Counted /\ Numbered /\ Bound /\ Accepting /\ Handling
      /\ Messages /\ Once /\ ForwardUnbound
  BY Parts
<1>2. UNCHANGED <<sock, isClose, trigger, due, readers, held, bind, cid, seq, chan,
                  sessOpen, sessClose, stop, broken, recv, accept, listening,
                  failed>>
  BY DEF AppSend, apps, conns, maps, sess, loops
<1>3. TypeApps'
  BY <1>1 DEF AppSend, Ends, TypeApps
<1> QED
  BY <1>1, <1>2, PartsNext, <1>3, SameTypeConns, SameTypeMaps, SameTypeSess,
     SameTypeLoops, SameCounted, SameNumbered, SameBound, SameAccepting,
     SameHandling, SameMessages, SameOnce, SameForwardUnbound

LEMMA StepAppClose ==
  ASSUME Inv, NEW s \in Sides, NEW c \in Conns, AppClose(s, c) PROVE Inv'
<1>1. /\ TypeApps /\ TypeConns /\ TypeMaps /\ TypeSess /\ TypeLoops
      /\ Counted /\ Numbered /\ Bound /\ Accepting /\ Handling
      /\ Messages /\ Once /\ ForwardUnbound
  BY Parts
<1>2. UNCHANGED <<sock, isClose, trigger, due, readers, held, bind, cid, seq, chan,
                  sessOpen, sessClose, stop, broken, recv, accept, listening,
                  failed>>
  BY DEF AppClose, apps, conns, maps, sess, loops
<1>3. TypeApps'
  BY <1>1 DEF AppClose, TypeApps
<1> QED
  BY <1>1, <1>2, PartsNext, <1>3, SameTypeConns, SameTypeMaps, SameTypeSess,
     SameTypeLoops, SameCounted, SameNumbered, SameBound, SameAccepting,
     SameHandling, SameMessages, SameOnce, SameForwardUnbound

LEMMA StepAppStall ==
  ASSUME Inv, NEW s \in Sides, NEW c \in Conns, AppStall(s, c) PROVE Inv'
<1>1. /\ TypeApps /\ TypeConns /\ TypeMaps /\ TypeSess /\ TypeLoops
      /\ Counted /\ Numbered /\ Bound /\ Accepting /\ Handling
      /\ Messages /\ Once /\ ForwardUnbound
  BY Parts
<1>2. UNCHANGED <<sock, isClose, trigger, due, readers, held, bind, cid, seq, chan,
                  sessOpen, sessClose, stop, broken, recv, accept, listening,
                  failed>>
  BY DEF AppStall, apps, conns, maps, sess, loops
<1>3. TypeApps'
  BY <1>1 DEF AppStall, TypeApps
<1> QED
  BY <1>1, <1>2, PartsNext, <1>3, SameTypeConns, SameTypeMaps, SameTypeSess,
     SameTypeLoops, SameCounted, SameNumbered, SameBound, SameAccepting,
     SameHandling, SameMessages, SameOnce, SameForwardUnbound

LEMMA StepAppResume ==
  ASSUME Inv, NEW s \in Sides, NEW c \in Conns, AppResume(s, c) PROVE Inv'
<1>1. /\ TypeApps /\ TypeConns /\ TypeMaps /\ TypeSess /\ TypeLoops
      /\ Counted /\ Numbered /\ Bound /\ Accepting /\ Handling
      /\ Messages /\ Once /\ ForwardUnbound
  BY Parts
<1>2. UNCHANGED <<sock, isClose, trigger, due, readers, held, bind, cid, seq, chan,
                  sessOpen, sessClose, stop, broken, recv, accept, listening,
                  failed>>
  BY DEF AppResume, apps, conns, maps, sess, loops
<1>3. TypeApps'
  BY <1>1 DEF AppResume, TypeApps
<1> QED
  BY <1>1, <1>2, PartsNext, <1>3, SameTypeConns, SameTypeMaps, SameTypeSess,
     SameTypeLoops, SameCounted, SameNumbered, SameBound, SameAccepting,
     SameHandling, SameMessages, SameOnce, SameForwardUnbound

LEMMA StepRead ==
  ASSUME Inv, NEW s \in Sides, NEW c \in Conns, Read(s, c) PROVE Inv'
<1>1. /\ TypeApps /\ TypeConns /\ TypeMaps /\ TypeSess /\ TypeLoops
      /\ Counted /\ Numbered /\ Bound /\ Accepting /\ Handling
      /\ Messages /\ Once /\ ForwardUnbound
  BY Parts
<1>2. UNCHANGED <<bind, cid, seq, chan, sessOpen, sessClose, stop, broken, recv,
                  accept, listening, failed, sock, trigger, readers>>
  BY DEF Read, Reading, apps, conns, maps, sess, loops
<1>3. TypeApps'
  BY <1>1 DEF Read, Reading, Ends, TypeApps
<1>4. TypeConns'
  <2>1. held \in [Ends -> SUBSET Nat] /\ taken'[<<s, c>>] \in Nat
    BY <1>1, <1>3 DEF TypeConns, TypeApps, Ends
  <2>2. held' = [held EXCEPT ![<<s, c>>] = @ \cup {taken'[<<s, c>>]}]
    BY DEF Read
  <2>3. held' \in [Ends -> SUBSET Nat]
    BY <2>1, <2>2
  <2> QED
    BY <1>1, <2>3 DEF Read, TypeConns
<1>5. Counted'
  <2>1. ASSUME NEW e \in Ends
        PROVE  IsFiniteSet(held'[e]) /\ Cardinality(held'[e]) <= readers'[e]
    <3>1. /\ IsFiniteSet(held[e]) /\ Cardinality(held[e]) \in Nat
          /\ Cardinality(held[e]) <= readers[e] /\ readers[e] \in Nat
      BY <1>1, FS_CardinalityType DEF Counted, TypeConns
    <3>2. CASE e = <<s, c>>
      <4>1. PICK k : held'[e] = held[e] \cup {k}
        BY <1>1, <3>2 DEF Read, TypeConns
      <4>2. IsFiniteSet(held'[e]) /\ Cardinality(held'[e]) <= Cardinality(held[e]) + 1
        <5>1. IsFiniteSet(held[e] \cup {k})
          BY <3>1, FS_AddElement
        <5>2. Cardinality(held[e] \cup {k}) <= Cardinality(held[e]) + 1
          <6>1. Cardinality(held[e] \cup {k}) =
                  IF k \in held[e] THEN Cardinality(held[e]) ELSE Cardinality(held[e]) + 1
            BY <3>1, FS_AddElement, Zenon
          <6> QED
            BY <3>1, <6>1
        <5> QED
          BY <4>1, <5>1, <5>2
      <4>3. readers'[e] = readers[e] /\ Cardinality(held[e]) < readers[e]
        BY <1>1, <3>2 DEF Read, Reading
      <4>4. Cardinality(held'[e]) \in Nat
        BY <4>2, FS_CardinalityType
      <4> QED
        BY <3>1, <4>2, <4>3, <4>4
    <3>3. CASE e # <<s, c>>
      BY <1>1, <3>1, <3>3 DEF Read, TypeConns
    <3> QED
      BY <3>2, <3>3
  <2> QED
    BY <2>1 DEF Counted
<1> QED
  BY <1>1, <1>2, PartsNext, <1>3, <1>4, <1>5, SameTypeMaps, SameTypeSess,
     SameTypeLoops, SameNumbered, SameBound, SameAccepting, SameHandling,
     SameMessages, SameOnce, SameForwardUnbound

LEMMA StepSendReq ==
  ASSUME Inv, NEW s \in Sides, NEW c \in Conns, SendReq(s, c) PROVE Inv'
<1>1. /\ TypeApps /\ TypeConns /\ TypeMaps /\ TypeSess /\ TypeLoops
      /\ Counted /\ Numbered /\ Bound /\ Accepting /\ Handling
      /\ Messages /\ Once /\ ForwardUnbound
  BY Parts
<1>2. UNCHANGED <<sent, taken, got, fin, stalled, bind, cid, seq, recv, accept, listening,
                  failed, trigger>>
  BY DEF SendReq, Write, Written, WriteFails, Msg, apps, conns, maps, sess, loops
<1>3. PICK k \in held[<<s, c>>] : /\ Write(s, Msg("REQ", cid[c], c, k))
                                 /\ held' = [held EXCEPT ![<<s, c>>] = @ \ {k}]
  BY DEF SendReq
<1>4. /\ <<s, c>> \in Ends /\ k \in Nat /\ IsFiniteSet(held[<<s, c>>])
      /\ Cardinality(held[<<s, c>>]) <= readers[<<s, c>>]
  BY <1>1, <1>3 DEF Ends, TypeConns, Counted
<1>5. /\ Cardinality(held[<<s, c>>]) \in Nat /\ Cardinality(held[<<s, c>>]) # 0
      /\ IsFiniteSet(held[<<s, c>>] \ {k})
      /\ Cardinality(held[<<s, c>>] \ {k}) = Cardinality(held[<<s, c>>]) - 1
  BY <1>3, <1>4, FS_CardinalityType, FS_EmptySet, FS_RemoveElement
<1>6. readers[<<s, c>>] \in Nat \ {0}
  BY <1>1, <1>4, <1>5 DEF TypeConns
<1>7. cid[c] \in CIDs
  BY <1>1, <1>6 DEF Numbered, TypeMaps, CIDs
<1>8. Msg("REQ", cid[c], c, k) \in Message /\ Msg("REQ", cid[c], c, k).type = "REQ"
      /\ Msg("REQ", cid[c], c, k).conn = c
  BY <1>4, <1>7, MsgIsMessage
<1>9. UNCHANGED <<recv, accept, cid, trigger, sock>>
  BY DEF SendReq, loops, maps
<1>10. \/ UNCHANGED readers
       \/ readers' = [readers EXCEPT ![<<s, c>>] = @ - 1]
  BY <1>1 DEF SendReq, TypeConns
<1>11. TypeConns'
  <2>1. /\ readers' \in [Ends -> Nat] /\ held' \in [Ends -> SUBSET Nat]
    BY <1>1, <1>3, <1>4, <1>6, <1>10 DEF TypeConns
  <2> QED
    BY <1>1, <2>1 DEF TypeConns, SendReq
<1>12. TypeSess'
  BY <1>1, <1>3, <1>8, Sending
<1>13. Counted'
  <2>1. ASSUME NEW e \in Ends
        PROVE  IsFiniteSet(held'[e]) /\ Cardinality(held'[e]) <= readers'[e]
    <3>1. CASE e = <<s, c>>
      BY <3>1, <1>1, <1>3, <1>4, <1>5, <1>6, <1>10 DEF TypeConns
    <3>2. CASE e # <<s, c>>
      BY <3>2, <1>1, <1>3, <1>10 DEF TypeConns, Counted
    <3> QED
      BY <3>1, <3>2
  <2> QED
    BY <2>1 DEF Counted
<1>14. Numbered'
  BY <1>1, <1>7, <1>9, <1>10 DEF Numbered, TypeConns, CIDs, Ends
<1>15. Messages'
  BY <1>1, <1>3, <1>8, <1>9, Sending DEF Messages, Sound
<1>16. Once'
  <2>1. \A i \in 1 .. Len(chan'["proxy"]), x \in Conns : Announces(i, x)' =>
          i + 0 \in 1 .. Len(chan["proxy"]) /\ Announces(i + 0, x)
    BY <1>1, <1>3, <1>8, Sending DEF Announces, Sides, Other
  <2>2. \A i \in 1 .. Len(chan'["client"]) : chan'["client"][i].type # "CREATE"
    BY <1>1, <1>3, <1>8, Sending DEF Once, Sides, Other
  <2>3. \A x \in Conns : /\ Dialing(x)' => Dialing(x)
                         /\ Announcing(x)' => Announcing(x)
                         /\ trigger[<<"client", x>>] = "none" => trigger'[<<"client", x>>] = "none"
    BY <1>1, <1>9 DEF Dialing, Announcing
  <2> QED
    BY <1>1, <2>1, <2>2, <2>3, OnceKept
<1> QED
  BY <1>1, <1>2, PartsNext, <1>11, <1>12, <1>13, <1>14, <1>15, <1>16, SameTypeApps,
     SameTypeMaps, SameTypeLoops, SameBound, SameAccepting, SameHandling,
     SameForwardUnbound

LEMMA StepReadEnd ==
  ASSUME Inv, NEW s \in Sides, NEW c \in Conns, ReadEnd(s, c) PROVE Inv'
<1>1. /\ TypeApps /\ TypeConns /\ TypeMaps /\ TypeSess /\ TypeLoops
      /\ Counted /\ Numbered /\ Bound /\ Accepting /\ Handling
      /\ Messages /\ Once /\ ForwardUnbound
  BY Parts
<1>2. UNCHANGED <<sent, taken, got, fin, stalled, bind, cid, seq, chan, sessOpen, sessClose,
                  stop, broken, recv, accept, listening, failed, trigger>>
  BY DEF ReadEnd, Reading, apps, conns, maps, sess, loops
<1>3. TypeConns'
  BY <1>1, FS_CardinalityType DEF ReadEnd, Reading, Ends, TypeConns, Counted
<1>4. Counted'
  <2>1. ASSUME NEW e \in Ends
        PROVE  IsFiniteSet(held'[e]) /\ Cardinality(held'[e]) <= readers'[e]
    <3>1. /\ IsFiniteSet(held[e]) /\ Cardinality(held[e]) \in Nat
          /\ Cardinality(held[e]) <= readers[e] /\ readers[e] \in Nat
      BY <1>1, FS_CardinalityType DEF Counted, TypeConns
    <3>2. CASE e = <<s, c>>
      BY <1>1, <3>1, <3>2 DEF ReadEnd, Reading, TypeConns
    <3>3. CASE e # <<s, c>>
      BY <1>1, <3>1, <3>3 DEF ReadEnd, TypeConns
    <3> QED
      BY <3>2, <3>3
  <2> QED
    BY <2>1 DEF Counted
<1>5. Numbered'
  BY <1>1, FS_CardinalityType DEF ReadEnd, Reading, maps, Ends, Numbered, Counted
<1> QED
  BY <1>1, <1>2, PartsNext, <1>3, <1>4, <1>5, SameTypeApps, SameTypeMaps,
     SameTypeSess, SameTypeLoops, SameBound, SameAccepting, SameHandling,
     SameMessages, SameOnce, SameForwardUnbound

LEMMA StepFireBrowser ==
  ASSUME Inv, NEW c \in Conns, FireBrowser(c) PROVE Inv'
<1>1. /\ TypeApps /\ TypeConns /\ TypeMaps /\ TypeSess /\ TypeLoops
      /\ Counted /\ Numbered /\ Bound /\ Accepting /\ Handling
      /\ Messages /\ Once /\ ForwardUnbound
  BY Parts
<1>2. UNCHANGED <<sent, taken, got, fin, stalled, chan, sessOpen, sessClose, stop, broken,
                  recv, accept, listening, failed, held, readers, cid>>
  BY DEF FireBrowser, Fires, apps, conns, maps, sess, loops
<1>3. TypeConns'
  BY <1>1 DEF FireBrowser, Fires, TypeConns
<1>4. TypeMaps'
  BY <1>1 DEF FireBrowser, Fires, TypeMaps
<1>5. Numbered'
  BY <1>1 DEF FireBrowser, Fires, Numbered
<1>6. Bound'
  BY <1>1, ConnsAssumption DEF FireBrowser, Fires, Bound
<1>7. Once'
  BY <1>1
     DEF FireBrowser, Fires, sess, loops, Ends, Once, Announces, Dialing,
         Announcing, TypeSess
<1>8. ForwardUnbound'
  BY <1>1 DEF FireBrowser, Fires, ForwardUnbound
<1> QED
  BY <1>1, <1>2, PartsNext, <1>3, <1>4, <1>5, <1>6, <1>7, <1>8, SameTypeApps,
     SameTypeSess, SameTypeLoops, SameCounted, SameAccepting, SameHandling,
     SameMessages

LEMMA StepFireForward ==
  ASSUME Inv, NEW c \in Conns, FireForward(c) PROVE Inv'
<1>1. /\ TypeApps /\ TypeConns /\ TypeMaps /\ TypeSess /\ TypeLoops
      /\ Counted /\ Numbered /\ Bound /\ Accepting /\ Handling
      /\ Messages /\ Once /\ ForwardUnbound
  BY Parts
<1>2. UNCHANGED <<sent, taken, got, fin, stalled, bind, cid, seq, chan, sessOpen, sessClose,
                  stop, broken, recv, accept, listening, failed, held, readers>>
  BY DEF FireForward, Fires, apps, conns, maps, sess, loops
<1>3. TypeConns'
  BY <1>1 DEF FireForward, Fires, Ends, Sides, TypeConns
<1>4. Numbered'
  BY <1>1 DEF FireForward, Fires, maps, Numbered
<1>5. Once'
  BY <1>1 DEF FireForward, Fires, sess, loops, Once, Announces, Dialing, Announcing
<1>6. ForwardUnbound'
  <2>1. cid[c] \in CIDs
    BY <1>1, BoundsAssumption DEF FireForward, Fires, Numbered, TypeMaps, CIDs, Sides
  <2>2. /\ bind' = bind
        /\ \/ trigger' = [trigger EXCEPT ![<<"client", c>>] = "unbind"]
           \/ /\ bind[<<"client", cid[c]>>] = None
              /\ \E h \in {"close", "done"} :
                   trigger' = [trigger EXCEPT ![<<"client", c>>] = h]
    BY DEF FireForward, maps
  <2>3. ASSUME NEW n \in CIDs, NEW x \in Conns, bind[<<"client", n>>] = x
        PROVE  trigger'[<<"client", x>>] \notin {"notify", "close", "done"}
    <3>1. CASE trigger' = [trigger EXCEPT ![<<"client", c>>] = "unbind"]
      BY <1>1, <2>3, <3>1 DEF ForwardUnbound, TypeConns
    <3>2. CASE bind[<<"client", cid[c]>>] = None
      <4>1. x # c
        <5>1. cid[x] = n
          BY <1>1, <2>3 DEF Bound, Sides
        <5> QED
          BY <2>3, <3>2, <5>1, ConnsAssumption
      <4>2. /\ <<"client", x>> \in Ends /\ <<"client", x>> # <<"client", c>>
            /\ trigger \in [Ends -> {"none", "armed", "unbind", "notify", "close", "done"}]
        BY <1>1, <4>1 DEF TypeConns, Ends, Sides
      <4>3. trigger'[<<"client", x>>] = trigger[<<"client", x>>]
        BY <2>2, <4>2
      <4> QED
        BY <1>1, <2>3, <4>3 DEF ForwardUnbound
    <3> QED
      BY <2>2, <3>1, <3>2
  <2> QED
    BY <2>2, <2>3 DEF ForwardUnbound
<1> QED
  BY <1>1, <1>2, PartsNext, <1>3, <1>4, <1>5, <1>6, SameTypeApps, SameTypeMaps,
     SameTypeSess, SameTypeLoops, SameCounted, SameBound, SameAccepting,
     SameHandling, SameMessages

LEMMA StepUnbindForward ==
  ASSUME Inv, NEW c \in Conns, UnbindForward(c) PROVE Inv'
<1>1. /\ TypeApps /\ TypeConns /\ TypeMaps /\ TypeSess /\ TypeLoops
      /\ Counted /\ Numbered /\ Bound /\ Accepting /\ Handling
      /\ Messages /\ Once /\ ForwardUnbound
  BY Parts
<1>2. UNCHANGED <<sent, taken, got, fin, stalled, chan, sessOpen, sessClose, stop, broken,
                  recv, accept, listening, failed, held, readers, cid>>
  BY DEF UnbindForward, apps, conns, maps, sess, loops
<1>3. TypeConns'
  BY <1>1 DEF UnbindForward, TypeConns
<1>4. TypeMaps'
  BY <1>1 DEF UnbindForward, TypeMaps
<1>5. Numbered'
  BY <1>1 DEF UnbindForward, Numbered
<1>6. Bound'
  BY <1>1, ConnsAssumption DEF UnbindForward, Bound
<1>7. Once'
  BY <1>1
     DEF UnbindForward, sess, loops, Once, Announces, Dialing, Announcing, TypeSess
<1>8. ForwardUnbound'
  <2>1. cid[c] \in CIDs
    BY <1>1, BoundsAssumption DEF UnbindForward, Numbered, TypeMaps, CIDs, Sides
  <2>2. /\ bind' = [bind EXCEPT ![<<"client", cid[c]>>] = None]
        /\ trigger' = [trigger EXCEPT ![<<"client", c>>] = "notify"]
    BY DEF UnbindForward
  <2>3. ASSUME NEW n \in CIDs, NEW x \in Conns, bind'[<<"client", n>>] = x
        PROVE  trigger'[<<"client", x>>] \notin {"notify", "close", "done"}
    <3>1. n # cid[c] /\ bind[<<"client", n>>] = x
      BY <1>1, <2>1, <2>2, <2>3, ConnsAssumption DEF TypeMaps, Sides
    <3>2. x # c
      BY <1>1, <3>1 DEF Bound, Sides
    <3> QED
      BY <1>1, <2>2, <3>1, <3>2 DEF ForwardUnbound, TypeConns
  <2> QED
    BY <2>3 DEF ForwardUnbound
<1> QED
  BY <1>1, <1>2, PartsNext, <1>3, <1>4, <1>5, <1>6, <1>7, <1>8, SameTypeApps,
     SameTypeSess, SameTypeLoops, SameCounted, SameAccepting, SameHandling,
     SameMessages

LEMMA StepNotify ==
  ASSUME Inv, NEW s \in Sides, NEW c \in Conns, Notify(s, c) PROVE Inv'
<1>1. /\ TypeApps /\ TypeConns /\ TypeMaps /\ TypeSess /\ TypeLoops
      /\ Counted /\ Numbered /\ Bound /\ Accepting /\ Handling
      /\ Messages /\ Once /\ ForwardUnbound
  BY Parts
<1>2. UNCHANGED <<sent, taken, got, fin, stalled, bind, cid, seq, recv, accept, listening,
                  failed, held, readers>>
  BY DEF Notify, Write, Written, WriteFails, Msg, apps, conns, maps, sess, loops
<1>3. cid[c] \in CIDs
  BY <1>1 DEF Notify, Numbered, TypeMaps, CIDs
<1>4. /\ Msg("CLOSE", cid[c], None, 0) \in Message
      /\ Msg("CLOSE", cid[c], None, 0).type = "CLOSE"
  BY <1>3, ControlIsMessage
<1>5. Write(s, Msg("CLOSE", cid[c], None, 0))
  BY DEF Notify
<1>6. /\ \A e \in Ends : trigger'[e] = "none" <=> trigger[e] = "none"
      /\ UNCHANGED <<recv, accept, cid>>
  BY <1>1 DEF Notify, TypeConns, loops, maps
<1>7. TypeConns'
  BY <1>1 DEF Notify, Write, Written, WriteFails, Msg, TypeConns
<1>8. TypeSess'
  BY <1>1, <1>4, <1>5, Sending
<1>9. Numbered'
  BY <1>1 DEF Notify, Write, Written, WriteFails, Msg, maps, Numbered
<1>10. Messages'
  BY <1>1, <1>4, <1>5, <1>6, Sending DEF Messages, Sound
<1>11. Once'
  <2>1. \A i \in 1 .. Len(chan'["proxy"]), x \in Conns : Announces(i, x)' =>
          i + 0 \in 1 .. Len(chan["proxy"]) /\ Announces(i + 0, x)
    BY <1>1, <1>4, <1>5, Sending DEF Announces, Sides, Other
  <2>2. \A i \in 1 .. Len(chan'["client"]) : chan'["client"][i].type # "CREATE"
    BY <1>1, <1>4, <1>5, Sending DEF Once, Sides, Other
  <2>3. \A x \in Conns : /\ Dialing(x)' => Dialing(x)
                         /\ Announcing(x)' => Announcing(x)
                         /\ trigger[<<"client", x>>] = "none" => trigger'[<<"client", x>>] = "none"
    BY <1>1, <1>6 DEF Dialing, Announcing, Ends, Sides
  <2> QED
    BY <1>1, <2>1, <2>2, <2>3, OnceKept
<1>12. ForwardUnbound'
  BY <1>1 DEF Notify, Write, Written, WriteFails, Msg, maps, ForwardUnbound
<1> QED
  BY <1>1, <1>2, PartsNext, <1>7, <1>8, <1>9, <1>10, <1>11, <1>12, SameTypeApps,
     SameTypeMaps, SameTypeLoops, SameCounted, SameBound, SameAccepting,
     SameHandling

LEMMA StepCloseAfter ==
  ASSUME Inv, NEW s \in Sides, NEW c \in Conns, CloseAfter(s, c) PROVE Inv'
<1>1. /\ TypeApps /\ TypeConns /\ TypeMaps /\ TypeSess /\ TypeLoops
      /\ Counted /\ Numbered /\ Bound /\ Accepting /\ Handling
      /\ Messages /\ Once /\ ForwardUnbound
  BY Parts
<1>2. UNCHANGED <<sent, taken, got, fin, stalled, bind, cid, seq, chan, sessOpen, sessClose,
                  stop, broken, recv, accept, listening, failed, held, readers>>
  BY DEF CloseAfter, apps, conns, maps, sess, loops
<1>3. TypeConns'
  BY <1>1 DEF CloseAfter, TypeConns
<1>4. Numbered'
  BY <1>1 DEF CloseAfter, maps, Numbered
<1>5. Once'
  BY <1>1 DEF CloseAfter, sess, loops, Ends, Once, Announces, Dialing, Announcing
<1>6. ForwardUnbound'
  BY <1>1 DEF CloseAfter, maps, ForwardUnbound
<1> QED
  BY <1>1, <1>2, PartsNext, <1>3, <1>4, <1>5, <1>6, SameTypeApps, SameTypeMaps,
     SameTypeSess, SameTypeLoops, SameCounted, SameBound, SameAccepting,
     SameHandling, SameMessages

LEMMA StepFinalize ==
  ASSUME Inv, NEW s \in Sides, NEW c \in Conns, Finalize(s, c) PROVE Inv'
<1>1. /\ TypeApps /\ TypeConns /\ TypeMaps /\ TypeSess /\ TypeLoops
      /\ Counted /\ Numbered /\ Bound /\ Accepting /\ Handling
      /\ Messages /\ Once /\ ForwardUnbound
  BY Parts
<1>2. UNCHANGED <<sent, taken, got, fin, stalled, bind, cid, seq, chan, sessOpen, sessClose,
                  stop, broken, recv, accept, listening, failed, held, readers,
                  trigger>>
  BY DEF Finalize, apps, conns, maps, sess, loops
<1>3. TypeConns'
  BY <1>1 DEF Finalize, TypeConns
<1>4. Numbered'
  BY <1>1 DEF Finalize, maps, Numbered
<1> QED
  BY <1>1, <1>2, PartsNext, <1>3, <1>4, SameTypeApps, SameTypeMaps, SameTypeSess,
     SameTypeLoops, SameCounted, SameBound, SameAccepting, SameHandling,
     SameMessages, SameOnce, SameForwardUnbound

-----------------------------------------------------------------------------
\* Nothing is connected, numbered or announced at the start.
LEMMA InvInit == Init => Inv
<1> SUFFICES ASSUME Init PROVE Inv
  OBVIOUS
<1>1. TypeApps
  BY DEF Init, TypeApps
<1>2. TypeConns
  BY DEF Init, TypeConns
<1>3. TypeMaps
  BY BoundsAssumption DEF Init, TypeMaps
<1>4. TypeSess
  <2>1. <<>> \in Seq(Message)
    OBVIOUS
  <2> QED
    BY <2>1 DEF Init, TypeSess
<1>5. TypeLoops
  <2>1. At("read", None, 0) \in Receiving /\ At("accept", None, 0) \in Acceptance
    BY BoundsAssumption DEF At, Receiving, Acceptance
  <2> QED
    BY <2>1 DEF Init, TypeLoops
<1>6. Counted
  BY FS_EmptySet DEF Init, Counted
<1>7. Numbered
  BY DEF Init, Numbered, Ends, Sides
<1>8. Bound /\ ForwardUnbound
  BY ConnsAssumption DEF Init, Bound, ForwardUnbound, Sides
<1>9. Accepting /\ Handling
  BY DEF Init, Accepting, Handling, At
<1>10. Messages
  BY DEF Init, Messages
<1>11. Once
  BY DEF Init, Once, Dialing, Announcing, At, Sides
<1> QED
  BY <1>1, <1>2, <1>3, <1>4, <1>5, <1>6, <1>7, <1>8, <1>9, <1>10, <1>11, Parts

\* The actions of Next, gathered.
LEMMA InvNext == Inv /\ Writing /\ [Next]_vars => Inv'
<1> SUFFICES ASSUME Inv, Writing, [Next]_vars PROVE Inv'
  OBVIOUS
<1>0. "proxy" \in Sides /\ "client" \in Sides
  BY DEF Sides
<1>1. CASE Break \/ checkClientHB \/ sendHB \/ CloseListener
  BY <1>1, StepBreak, StepcheckClientHB, StepsendHB, StepCloseListener
<1>2. CASE AcceptLoop
  BY <1>2, StepStore, StepsendBrowserConnCreateEvent DEF AcceptLoop
<1>3. ASSUME NEW c \in Conns, Accept(c) PROVE Inv'
  BY <1>3, StepAccept
<1>4. ASSUME NEW s \in Sides, Stop(s) \/ StopSess(s) PROVE Inv'
  BY <1>4, StepStop, StepStopSess
<1>5. ASSUME NEW s \in Sides, Receiver(s) PROVE Inv'
  <2>1. \/ ReceiveEnd(s)
        \/ \E t \in Sides : \/ OnReq(t) \/ OnReqWrite(t) \/ OnClose(t)
                            \/ OnCloseUnbind(t) \/ OnCloseClose(t)
        \/ clientConnCreateDoneHandler \/ proxyCreateBrowserConnHandler
    BY <1>0, <1>5
       DEF Receiver, clientReqHandler, proxyReqHandler, clientConnCloseHandler,
           proxyCloseBrowserConnHandler
  <2>2. ASSUME NEW t \in Sides, \/ OnReq(t) \/ OnReqWrite(t) \/ OnClose(t)
                                 \/ OnCloseUnbind(t) \/ OnCloseClose(t)
        PROVE  Inv'
    BY <2>2, StepOnReq, StepOnReqWrite, StepOnClose, StepOnCloseUnbind, StepOnCloseClose
  <2>3. CASE proxyCreateBrowserConnHandler
    BY <2>3, StepOnCreate, StepDialRefused, StepSendRefused, StepDialStore,
       StepArmForward, StepsendCreateConnDoneEvent
       DEF proxyCreateBrowserConnHandler
  <2> QED
    BY <2>1, <2>2, <2>3, StepReceiveEnd, StepclientConnCreateDoneHandler
<1>6. ASSUME NEW s \in Sides, NEW c \in Conns, App(s, c) \/ Finalize(s, c)
      PROVE  Inv'
  BY <1>6, StepAppSend, StepAppClose, StepAppStall, StepAppResume, StepFinalize DEF App
<1>7. ASSUME NEW s \in Sides, NEW c \in Conns, Reader(s, c) PROVE Inv'
  BY <1>7, StepRead, StepSendReq, StepReadEnd DEF Reader
<1>8. ASSUME NEW s \in Sides, NEW c \in Conns, Trigger(s, c) PROVE Inv'
  BY <1>8, StepFireBrowser, StepFireForward, StepUnbindForward, StepNotify,
     StepCloseAfter
     DEF Trigger
<1>9. CASE UNCHANGED vars
  <2>1. /\ TypeApps /\ TypeConns /\ TypeMaps /\ TypeSess /\ TypeLoops
        /\ Counted /\ Numbered /\ Bound /\ Accepting /\ Handling
        /\ Messages /\ Once /\ ForwardUnbound
    BY Parts
  <2>2. UNCHANGED <<sent, taken, got, fin, stalled, sock, isClose, trigger, due, readers,
                    held, bind, cid, seq, chan, sessOpen, sessClose, stop, broken,
                    recv, accept, listening, failed>>
    BY <1>9 DEF vars, apps, conns, maps, sess, loops
  <2> QED
    BY <2>1, <2>2, PartsNext, SameTypeApps, SameTypeConns, SameTypeMaps,
       SameTypeSess, SameTypeLoops, SameCounted, SameNumbered, SameBound,
       SameAccepting, SameHandling, SameMessages, SameOnce, SameForwardUnbound
<1> QED
  BY <1>1, <1>2, <1>3, <1>4, <1>5, <1>6, <1>7, <1>8, <1>9 DEF Next

\* What is written comes behind the message that is read next.
LEMMA Behind ==
  ASSUME TypeSess, NEW s \in Sides, NEW m \in Message, Write(s, m), NEW t \in Sides,
         chan[t] # <<>>
  PROVE  chan'[t] # <<>> /\ Head(chan'[t]) = Head(chan[t])
<1>1. chan' = chan \/ chan' = [chan EXCEPT ![s] = Append(@, m)]
  BY DEF Write, Written, WriteFails
<1>2. chan \in [Sides -> Seq(Message)] /\ chan[t] \in Seq(Message)
  BY DEF TypeSess
<1>3. chan'[t] = chan[t] \/ chan'[t] = Append(chan[t], m)
  BY <1>1, <1>2
<1> QED
  BY <1>2, <1>3

\* The REQ that a receiver is writing stays where it is.
LEMMA WritingNext == Inv /\ Writing /\ [Next]_vars => Writing'
<1> SUFFICES ASSUME Inv, Writing, [Next]_vars PROVE Writing'
  OBVIOUS
<1> DEFINE Stays(t) == chan[t] # <<>> => chan'[t] # <<>> /\ Head(chan'[t]) = Head(chan[t])
           Same(t)  == recv'[t] = recv[t] \/ recv'[t].pc # "write"
<1>0. /\ TypeSess /\ recv \in [Sides -> Receiving] /\ "proxy" \in Sides /\ "client" \in Sides
      /\ \A t \in Sides : /\ Other(t) \in Sides /\ Other(t) # t /\ Other(Other(t)) = t
                          /\ \A u \in Sides : u = t \/ u = Other(t)
      /\ \A t \in Sides : Loop(t).pc # "write"
  BY Parts DEF TypeLoops, Sides, Other, Loop, At
<1>1. ASSUME \A t \in Sides : Stays(t) /\ Same(t) PROVE Writing'
  BY <1>0, <1>1 DEF Writing, In
<1>2. ASSUME NEW t \in Sides, NEW r, r.pc # "write", recv' = [recv EXCEPT ![t] = r], Stays(t)
      PROVE  Writing'
  <2>1. recv'[t].pc # "write" /\ recv'[Other(t)] = recv[Other(t)]
    BY <1>0, <1>2
  <2> SUFFICES ASSUME NEW s \in Sides, recv'[s].pc = "write"
               PROVE  chan'[Other(s)] # <<>> /\ In(s)'.type = "REQ" /\ In(s)'.cid = recv'[s].cid
    BY DEF Writing
  <2>2. s = Other(t) /\ Other(s) = t /\ recv'[s] = recv[s]
    BY <1>0, <2>1
  <2> QED  BY <1>2, <2>2 DEF Writing, In
<1>3. ASSUME UNCHANGED <<chan, recv>> PROVE Writing'
  BY <1>1, <1>3
<1>4. ASSUME NEW s \in Sides, NEW m \in Message, Write(s, m) PROVE \A t \in Sides : Stays(t)
  BY <1>0, <1>4, Behind
<1> HIDE DEF Stays, Same
<1>5. CASE \/ Break \/ checkClientHB \/ sendHB \/ CloseListener \/ UNCHANGED vars
           \/ \E s \in Sides : Stop(s) \/ StopSess(s)
  <2>1. CASE UNCHANGED vars \/ Break
    BY <1>3, <2>1 DEF vars, Break, sess, loops
  <2>2. CASE checkClientHB \/ sendHB \/ CloseListener
    BY <1>3, <2>2 DEF checkClientHB, CloseSess, sendHB, WriteFails, CloseListener, sess, loops
  <2>3. CASE \E s \in Sides : Stop(s) \/ StopSess(s)
    BY <1>3, <2>3 DEF Stop, StopSess, CloseSess, loops
  <2> QED  BY <1>5, <2>1, <2>2, <2>3
<1>6. CASE AcceptLoop \/ \E c \in Conns : Accept(c)
  <2>1. CASE sendBrowserConnCreateEvent
    <3>1. /\ accept.conn \in Conns \cup {None} /\ accept.cid \in CIDs /\ 0 \in Nat
      BY <2>1 DEF sendBrowserConnCreateEvent, Inv, Accepting
    <3>2. Msg("CREATE", accept.cid, accept.conn, 0) \in Message
      BY <3>1, MsgIsMessage
    <3>3. Write("proxy", Msg("CREATE", accept.cid, accept.conn, 0)) /\ recv' = recv
      BY <2>1 DEF sendBrowserConnCreateEvent, Write
    <3> QED  BY <1>0, <1>1, <1>4, <3>2, <3>3 DEF Same
  <2>2. CASE Store \/ \E c \in Conns : Accept(c)
    BY <1>3, <2>2 DEF Store, Accept, sess
  <2> QED  BY <1>6, <2>1, <2>2 DEF AcceptLoop
<1>7. ASSUME NEW s \in Sides, Receiver(s) PROVE Writing'
  <2>1. ASSUME NEW t \in Sides, NEW x, Incoming(t, x) PROVE Stays(t)
    <3>1. chan' = [chan EXCEPT ![Other(t)] = Tail(@)]
      BY <2>1 DEF Incoming, Consume
    <3>2. chan'[t] = chan[t]
      BY <1>0, <3>1 DEF TypeSess
    <3> QED  BY <3>2 DEF Stays
  <2>2. ASSUME UNCHANGED chan PROVE \A t \in Sides : Stays(t)
    BY <2>2 DEF Stays
  <2>3. CASE ReceiveEnd(s)
    <3>1. At("end", None, 0).pc # "write" /\ recv' = [recv EXCEPT ![s] = At("end", None, 0)]
      BY <2>3 DEF ReceiveEnd, At
    <3>2. chan'[s] = chan[s]
      BY <1>0, <2>3 DEF ReceiveEnd, TypeSess
    <3> QED  BY <1>2, <3>1, <3>2 DEF Stays
  <2>4. ASSUME NEW t \in Sides, OnReq(t) PROVE Writing'
    <3> DEFINE n == In(t).cid
    <3>1. AtHead(t, "REQ")
      BY <2>4 DEF OnReq
    <3>2. CASE Consume(t) /\ recv' = [recv EXCEPT ![t] = Loop(t)]
      <4>1. Stays(t)
        BY <2>1, <3>1, <3>2 DEF Incoming
      <4> QED  BY <1>0, <1>2, <3>2, <4>1
    <3>3. CASE recv' = [recv EXCEPT ![t] = At("write", bind[<<t, n>>], n)] /\ UNCHANGED chan
      <4>1. recv'[t].cid = n /\ recv'[Other(t)] = recv[Other(t)]
        BY <1>0, <3>3 DEF At
      <4>2. chan[Other(t)] # <<>> /\ In(t).type = "REQ"
        BY <3>1 DEF AtHead, In
      <4>3. ASSUME NEW u \in Sides, recv'[u].pc = "write"
            PROVE  chan'[Other(u)] # <<>> /\ In(u)'.type = "REQ" /\ In(u)'.cid = recv'[u].cid
        <5>1. CASE u = t
          BY <3>3, <4>1, <4>2, <5>1 DEF In
        <5>2. CASE u = Other(t)
          BY <3>3, <4>1, <4>3, <5>2 DEF Writing, In
        <5> QED  BY <1>0, <5>1, <5>2
      <4> QED  BY <4>3 DEF Writing
    <3> QED  BY <2>4, <3>2, <3>3 DEF OnReq, sess
  <2>5. ASSUME NEW t \in Sides, OnReqWrite(t) PROVE Writing'
    <3>1. Consume(t) /\ recv' = [recv EXCEPT ![t] = Loop(t)]
      BY <2>5 DEF OnReqWrite
    <3>2. chan'[t] = chan[t]
      BY <1>0, <3>1 DEF Consume, TypeSess
    <3> QED  BY <1>0, <1>2, <3>1, <3>2 DEF Stays
  <2>6. ASSUME NEW t \in Sides, OnClose(t) PROVE Writing'
    <3>1. \E r : r.pc # "write" /\ recv' = [recv EXCEPT ![t] = r]
      BY <1>0, <2>6 DEF OnClose, At
    <3> QED  BY <1>2, <2>1, <2>6, <3>1 DEF OnClose
  <2>7. ASSUME NEW t \in Sides, OnCloseUnbind(t) \/ OnCloseClose(t) PROVE Writing'
    <3>1. \A u \in Sides : Same(u)
      <4>1. CASE OnCloseUnbind(t)
        BY <1>0, <4>1 DEF OnCloseUnbind, Same, Receiving
      <4>2. CASE OnCloseClose(t)
        BY <1>0, <4>2 DEF OnCloseClose, Same
      <4> QED  BY <2>7, <4>1, <4>2
    <3> QED  BY <1>1, <2>2, <2>7, <3>1 DEF OnCloseUnbind, OnCloseClose, sess
  <2>8. CASE clientConnCreateDoneHandler
    BY <1>0, <1>2, <2>1, <2>8 DEF clientConnCreateDoneHandler
  <2>9. CASE OnCreate
    <3>1. \E r : r.pc # "write" /\ recv' = [recv EXCEPT !["client"] = r]
      BY <2>9 DEF OnCreate, At
    <3> QED  BY <1>0, <1>2, <2>1, <2>9, <3>1 DEF OnCreate
  <2>10. CASE DialRefused \/ DialStore \/ ArmForward
    <3>1. \A u \in Sides : Same(u)
      <4>1. \E p : p # "write" /\ recv' = [recv EXCEPT !["client"].pc = p]
        BY <2>10 DEF DialRefused, DialStore, ArmForward
      <4> QED  BY <1>0, <4>1 DEF Same, Receiving
    <3> QED  BY <1>1, <2>2, <2>10, <3>1 DEF DialRefused, DialStore, ArmForward, sess
  <2>11. CASE SendRefused \/ sendCreateConnDoneEvent
    <3>1. recv["client"].cid \in CIDs
      BY <1>0, <2>11 DEF SendRefused, sendCreateConnDoneEvent, Inv, Handling
    <3>2. \E m \in Message : Write("client", m)
      BY <2>11, <3>1, ControlIsMessage DEF SendRefused, sendCreateConnDoneEvent
    <3>3. recv' = [recv EXCEPT !["client"] = Loop("client")]
      BY <2>11 DEF SendRefused, sendCreateConnDoneEvent
    <3>4. Stays("client")
      BY <1>0, <1>4, <3>2
    <3> QED  BY <1>0, <1>2, <3>3, <3>4
  <2> QED  BY <1>0, <1>7, <2>3, <2>4, <2>5, <2>6, <2>7, <2>8, <2>9, <2>10, <2>11
           DEF Receiver, clientReqHandler, proxyReqHandler, clientConnCloseHandler,
               proxyCloseBrowserConnHandler, proxyCreateBrowserConnHandler
<1>8. ASSUME NEW s \in Sides, NEW c \in Conns,
             App(s, c) \/ Reader(s, c) \/ Trigger(s, c) \/ Finalize(s, c)
      PROVE  Writing'
  <2>1. CASE SendReq(s, c) \/ Notify(s, c)
    <3>1. cid[c] \in CIDs /\ \A k \in held[<<s, c>>] : k \in Nat
      <4>1. CASE Notify(s, c)
        BY <4>1 DEF Notify, Inv, TypeOK, Numbered, CIDs, Ends
      <4>2. CASE SendReq(s, c)
        <5>1. readers[<<s, c>>] # 0
          <6>1. PICK k \in held[<<s, c>>] : TRUE
            BY <4>2 DEF SendReq
          <6>2. <<s, c>> \in Ends /\ readers[<<s, c>>] \in Nat
            BY DEF Ends, Inv, TypeOK
          <6>3. IsFiniteSet(held[<<s, c>>]) /\ Cardinality(held[<<s, c>>]) <= readers[<<s, c>>]
            BY <6>2 DEF Inv, Counted
          <6>4. Cardinality(held[<<s, c>>]) # 0 /\ Cardinality(held[<<s, c>>]) \in Nat
            BY <6>1, <6>3, FS_EmptySet, FS_CardinalityType
          <6> QED  BY <6>2, <6>3, <6>4
        <5>2. cid[c] # 0 /\ cid[c] \in 0 .. MaxCID
          BY <5>1 DEF Inv, TypeOK, Numbered
        <5>3. held[<<s, c>>] \subseteq Nat
          BY DEF Inv, TypeOK, Ends
        <5> QED  BY <5>2, <5>3, BoundsAssumption DEF CIDs
      <4> QED  BY <2>1, <4>1, <4>2
    <3>2. \E m \in Message : Write(s, m)
      <4>1. CASE Notify(s, c)
        BY <3>1, <4>1, ControlIsMessage DEF Notify
      <4>2. CASE SendReq(s, c)
        BY <3>1, <4>2, MsgIsMessage DEF SendReq
      <4> QED  BY <2>1, <4>1, <4>2
    <3>3. recv' = recv
      BY <2>1 DEF SendReq, Notify, loops
    <3> QED  BY <1>1, <1>4, <3>2, <3>3 DEF Same
  <2>2. CASE App(s, c) \/ Read(s, c) \/ ReadEnd(s, c) \/ Finalize(s, c)
    BY <1>3, <2>2 DEF App, AppSend, AppClose, AppStall, AppResume, Read, ReadEnd, Finalize,
                      sess, loops
  <2>3. CASE FireBrowser(c) \/ FireForward(c) \/ UnbindForward(c) \/ CloseAfter(s, c)
    BY <1>3, <2>3 DEF FireBrowser, FireForward, UnbindForward, CloseAfter, sess, loops
  <2> QED  BY <1>8, <2>1, <2>2, <2>3 DEF Reader, Trigger
<1> QED  BY <1>5, <1>6, <1>7, <1>8 DEF Next

\* The invariant holds in every reachable state.
LEMMA Invariance == Spec => []Inv /\ []Writing
<1>1. Init => Writing
  BY DEF Init, Writing, At
<1> QED
  BY <1>1, InvInit, InvNext, WritingNext, PTL DEF Spec

\* The variables keep their types, for any connections, numbers, amounts of
\* data and faults: in particular every message that is sent carries a number,
\* and no reader ends that was not there.
THEOREM TypeCorrect == Spec => []TypeOK
<1>1. Inv => TypeOK
  BY DEF Inv
<1> QED
  BY <1>1, Invariance, PTL

\* An entry of forwardConnRID never outlives the close handlers of its
\* connection, also when numbers come round and a close handler removes the
\* entry of another connection that has its number.
THEOREM NoStaleForward == Spec => []ForwardUnbound
<1>1. Inv => ForwardUnbound
  BY DEF Inv
<1> QED
  BY <1>1, Invariance, PTL

-----------------------------------------------------------------------------
\* Between the dial and the close trigger the new connection is in the map.
Dialled ==
  recv["client"].pc = "arm" =>
    bind[<<"client", recv["client"].cid>>] = recv["client"].conn

\* No number is in use twice.
Unique == \A c, d \in Conns : cid[c] = cid[d] /\ cid[c] # 0 => c = d

\* A step that touches neither map and opens, arms and stores nothing.
LEMMA LiveCalm ==
  ASSUME LiveIsBound, bind' = bind, cid' = cid,
         accept' = accept \/ accept.pc # "store",
         \A s \in Sides, c \in Conns :
           /\ trigger'[<<s, c>>] = "armed" => trigger[<<s, c>>] = "armed"
           /\ sock'[<<s, c>>] = "open" => sock[<<s, c>>] = "open"
           /\ ~isClose'[<<s, c>>] => ~isClose[<<s, c>>],
         \A s \in Sides : recv'[s] = recv[s] \/ recv[s].pc # "close"
  PROVE  LiveIsBound'
BY DEF LiveIsBound

LEMMA DialledCalm ==
  ASSUME Dialled, bind' = bind,
         recv'["client"] = recv["client"] \/ recv'["client"].pc # "arm"
  PROVE  Dialled'
BY DEF Dialled

\* The connection that is stored is bound to its number, and the others have
\* other numbers.
LEMMA LiveStore ==
  ASSUME Inv, Unique, LiveIsBound, Dialled, Store PROVE LiveIsBound' /\ Dialled'
<1> DEFINE e == accept.conn
<1>1. /\ e \in Conns /\ accept.cid \in CIDs /\ cid[e] = accept.cid
  BY DEF Store, Inv, Accepting
<1>2. /\ bind' = [bind EXCEPT ![<<"proxy", accept.cid>>] = e]
      /\ bind \in [Sides \X CIDs -> Conns \cup {None}]
      /\ UNCHANGED <<sock, isClose, trigger, cid, recv>>
  BY DEF Store, conns, Inv, TypeOK
<1>3. \A s \in Sides, d \in Conns : d # e => bind'[<<s, cid[d]>>] = bind[<<s, cid[d]>>]
  BY <1>1, <1>2 DEF Unique, CIDs
<1>4. bind'[<<"proxy", cid[e]>>] = e /\ bind'[<<"client", cid[e]>>] = bind[<<"client", cid[e]>>]
  BY <1>1, <1>2 DEF Sides
<1>5. LiveIsBound'
  <2> SUFFICES ASSUME NEW s \in Sides, NEW c \in Conns,
                      /\ trigger[<<s, c>>] = "armed" /\ sock[<<s, c>>] = "open"
                      /\ ~isClose[<<s, c>>] /\ (recv[s].conn # c \/ recv[s].pc # "close")
               PROVE  bind'[<<s, cid[c]>>] = c
    BY <1>2 DEF LiveIsBound
  <2>1. CASE c = e /\ s = "proxy"
    BY <1>4, <2>1
  <2>2. CASE ~(c = e /\ s = "proxy")
    <3>1. bind[<<s, cid[c]>>] = c
      BY <2>2 DEF LiveIsBound
    <3> QED  BY <1>3, <1>4, <2>2, <3>1 DEF Sides
  <2> QED  BY <2>1, <2>2
<1>6. Dialled'
  BY <1>2 DEF Dialled, Inv, Handling, Sides, CIDs
<1> QED  BY <1>5, <1>6

\* A number that is taken out of a map is not that of another connection.
LEMMA Unbinding ==
  ASSUME Inv, Unique, NEW t \in Sides, NEW e \in Conns, cid[e] \in CIDs,
         bind' = [bind EXCEPT ![<<t, cid[e]>>] = None]
  PROVE  \A s \in Sides, d \in Conns :
           s # t \/ d # e => bind'[<<s, cid[d]>>] = bind[<<s, cid[d]>>]
BY DEF Inv, TypeOK, Unique, CIDs

LEMMA LiveOnCloseUnbind ==
  ASSUME Inv, Unique, LiveIsBound, Dialled, NEW t \in Sides, OnCloseUnbind(t)
  PROVE  LiveIsBound' /\ Dialled'
<1> DEFINE e == recv[t].conn
<1>1. /\ recv[t].pc = "unbind" /\ e \in Conns /\ cid[e] = recv[t].cid /\ cid[e] \in CIDs
  BY DEF OnCloseUnbind, Inv, Handling
<1>2. /\ bind' = [bind EXCEPT ![<<t, cid[e]>>] = None]
      /\ recv' = [recv EXCEPT ![t].pc = "close"]
      /\ UNCHANGED <<sock, isClose, trigger, cid, accept>>
  BY <1>1 DEF OnCloseUnbind, conns
<1>3. /\ recv'[t].pc = "close" /\ recv'[t].conn = e
      /\ \A s \in Sides : s # t => recv'[s] = recv[s]
  BY <1>2 DEF Inv, TypeOK
<1>4. \A s \in Sides, d \in Conns : s # t \/ d # e => bind'[<<s, cid[d]>>] = bind[<<s, cid[d]>>]
  BY <1>1, <1>2, Unbinding
<1>5. LiveIsBound'
  <2> SUFFICES ASSUME NEW s \in Sides, NEW c \in Conns,
                      /\ trigger[<<s, c>>] = "armed" /\ sock[<<s, c>>] = "open"
                      /\ ~isClose[<<s, c>>]
                      /\ ~(s = "proxy" /\ accept.pc = "store" /\ accept.conn = c)
                      /\ recv'[s].conn # c \/ recv'[s].pc # "close"
               PROVE  bind'[<<s, cid[c]>>] = c
    BY <1>2 DEF LiveIsBound
  <2>1. s # t \/ c # e
    BY <1>3
  <2>2. recv[s].conn # c \/ recv[s].pc # "close"
    BY <1>1, <1>3
  <2>3. bind[<<s, cid[c]>>] = c
    BY <2>2 DEF LiveIsBound
  <2> QED  BY <1>4, <2>1, <2>3
<1>6. Dialled'
  <2>1. CASE t = "client"
    BY <1>3, <2>1 DEF Dialled
  <2>2. CASE t # "client"
    <3> SUFFICES ASSUME recv["client"].pc = "arm"
                 PROVE  bind'[<<"client", recv["client"].cid>>] = recv["client"].conn
      BY <1>3, <2>2 DEF Dialled, Sides
    <3>1. recv["client"].conn \in Conns /\ cid[recv["client"].conn] = recv["client"].cid
      BY DEF Inv, Handling, Sides
    <3> QED  BY <1>4, <2>2, <3>1 DEF Dialled, Sides
  <2> QED  BY <2>1, <2>2
<1> QED  BY <1>5, <1>6

LEMMA LiveOnCloseClose ==
  ASSUME Inv, LiveIsBound, Dialled, NEW t \in Sides, OnCloseClose(t)
  PROVE  LiveIsBound' /\ Dialled'
<1> DEFINE e == recv[t].conn
<1>1. /\ recv[t].pc = "close" /\ e \in Conns
      /\ isClose' = [isClose EXCEPT ![<<t, e>>] = TRUE]
      /\ sock' = [sock EXCEPT ![<<t, e>>] = "closed"]
      /\ recv' = [recv EXCEPT ![t] = Loop(t)]
      /\ UNCHANGED <<trigger, bind, cid, accept>>
  BY DEF OnCloseClose, maps, Inv, Handling
<1>2. /\ isClose'[<<t, e>>] = TRUE /\ Loop(t).pc # "arm"
      /\ recv'[t] = Loop(t) /\ \A s \in Sides : s # t => recv'[s] = recv[s]
  BY <1>1 DEF Inv, TypeOK, Ends, Loop, At
<1>3. \A s \in Sides, c \in Conns :
        s # t \/ c # e => isClose'[<<s, c>>] = isClose[<<s, c>>] /\ sock'[<<s, c>>] = sock[<<s, c>>]
  BY <1>1 DEF Inv, TypeOK, Ends
<1>4. LiveIsBound'
  <2> SUFFICES ASSUME NEW s \in Sides, NEW c \in Conns,
                      /\ trigger[<<s, c>>] = "armed" /\ sock'[<<s, c>>] = "open"
                      /\ ~isClose'[<<s, c>>]
                      /\ ~(s = "proxy" /\ accept.pc = "store" /\ accept.conn = c)
                      /\ recv'[s].conn # c \/ recv'[s].pc # "close"
               PROVE  bind[<<s, cid[c]>>] = c
    BY <1>1 DEF LiveIsBound
  <2>1. s # t \/ c # e
    BY <1>2
  <2>2. recv[s].conn # c \/ recv[s].pc # "close"
    BY <1>2, <2>1
  <2> QED  BY <1>3, <2>1, <2>2 DEF LiveIsBound
<1>5. Dialled'
  BY <1>1, <1>2, DialledCalm DEF Sides
<1> QED  BY <1>4, <1>5

\* The new connection is about to be stored, and unknown to the client.
LEMMA LiveAccept ==
  ASSUME Inv, LiveIsBound, Dialled, NEW e \in Conns, Accept(e)
  PROVE  LiveIsBound' /\ Dialled'
<1>1. /\ accept.pc = "accept" /\ sock[<<"proxy", e>>] = "none"
      /\ accept' = At("store", e, seq')
      /\ cid' = [cid EXCEPT ![e] = seq']
      /\ sock' = [sock EXCEPT ![<<"proxy", e>>] = "open"]
      /\ trigger' = [trigger EXCEPT ![<<"proxy", e>>] = "armed"]
      /\ UNCHANGED <<bind, isClose, recv>>
  BY DEF Accept
<1>2. cid[e] = 0 /\ trigger[<<"client", e>>] = "none"
  BY <1>1 DEF Inv, Numbered, Sides
<1>3. /\ \A d \in Conns : d # e => cid'[d] = cid[d]
      /\ \A s \in Sides, d \in Conns :
           s # "proxy" \/ d # e => /\ trigger'[<<s, d>>] = trigger[<<s, d>>]
                                  /\ sock'[<<s, d>>] = sock[<<s, d>>]
  BY <1>1 DEF Inv, TypeOK, Ends
<1>4. LiveIsBound'
  <2> SUFFICES ASSUME NEW s \in Sides, NEW c \in Conns,
                      /\ trigger'[<<s, c>>] = "armed" /\ sock'[<<s, c>>] = "open"
                      /\ ~isClose[<<s, c>>]
                      /\ ~(s = "proxy" /\ accept'.pc = "store" /\ accept'.conn = c)
                      /\ recv[s].conn # c \/ recv[s].pc # "close"
               PROVE  bind[<<s, cid'[c]>>] = c
    BY <1>1 DEF LiveIsBound
  <2>1. c # e
    <3>1. accept'.pc = "store" /\ accept'.conn = e
      BY <1>1 DEF At
    <3> QED  BY <1>2, <1>3, <3>1 DEF Sides
  <2> QED  BY <1>1, <1>3, <2>1 DEF LiveIsBound
<1> QED  BY <1>1, <1>4, DialledCalm

\* The forward connection is stored before its trigger is armed.
LEMMA LiveDialStore ==
  ASSUME Inv, Unique, LiveIsBound, Dialled, DialStore PROVE LiveIsBound' /\ Dialled'
<1> DEFINE e == recv["client"].conn
<1>1. /\ recv["client"].pc = "dial" /\ e \in Conns
      /\ cid[e] = recv["client"].cid /\ cid[e] \in CIDs
      /\ trigger[<<"client", e>>] = "none"
  BY DEF DialStore, Inv, Handling, Once, Dialing, Sides
<1>2. /\ bind' = [bind EXCEPT ![<<"client", cid[e]>>] = e]
      /\ sock' = [sock EXCEPT ![<<"client", e>>] = "open"]
      /\ recv' = [recv EXCEPT !["client"].pc = "arm"]
      /\ UNCHANGED <<isClose, trigger, cid, accept>>
  BY <1>1 DEF DialStore
<1>3. /\ recv'["client"].pc = "arm" /\ recv'["client"].conn = e
      /\ recv'["client"].cid = cid[e] /\ recv'["proxy"] = recv["proxy"]
      /\ bind'[<<"client", cid[e]>>] = e
  BY <1>1, <1>2 DEF Inv, TypeOK, Sides
<1>4. \A s \in Sides, d \in Conns :
        s # "client" \/ d # e => /\ bind'[<<s, cid[d]>>] = bind[<<s, cid[d]>>]
                                /\ sock'[<<s, d>>] = sock[<<s, d>>]
  BY <1>1, <1>2 DEF Inv, TypeOK, Unique, CIDs, Ends
<1>5. LiveIsBound'
  <2> SUFFICES ASSUME NEW s \in Sides, NEW c \in Conns,
                      /\ trigger[<<s, c>>] = "armed" /\ sock'[<<s, c>>] = "open"
                      /\ ~isClose[<<s, c>>]
                      /\ ~(s = "proxy" /\ accept.pc = "store" /\ accept.conn = c)
                      /\ recv'[s].conn # c \/ recv'[s].pc # "close"
               PROVE  bind'[<<s, cid[c]>>] = c
    BY <1>2 DEF LiveIsBound
  <2>1. s # "client" \/ c # e
    BY <1>1
  <2>2. recv[s].conn # c \/ recv[s].pc # "close"
    BY <1>1, <1>3 DEF Sides
  <2> QED  BY <1>4, <2>1, <2>2 DEF LiveIsBound
<1> QED  BY <1>3, <1>5 DEF Dialled

LEMMA LiveArmForward ==
  ASSUME Inv, LiveIsBound, Dialled, ArmForward PROVE LiveIsBound' /\ Dialled'
<1> DEFINE e == recv["client"].conn
<1>1. /\ recv["client"].pc = "arm" /\ e \in Conns /\ cid[e] = recv["client"].cid
      /\ trigger' = [trigger EXCEPT ![<<"client", e>>] = "armed"]
      /\ recv' = [recv EXCEPT !["client"].pc = "done"]
      /\ UNCHANGED <<sock, isClose, bind, cid, accept>>
  BY DEF ArmForward, maps, Inv, Handling, Sides
<1>2. recv'["client"].pc = "done" /\ recv'["proxy"] = recv["proxy"]
  BY <1>1 DEF Inv, TypeOK, Sides
<1>3. bind[<<"client", cid[e]>>] = e
  BY <1>1 DEF Dialled
<1>4. \A s \in Sides, d \in Conns :
        s # "client" \/ d # e => trigger'[<<s, d>>] = trigger[<<s, d>>]
  BY <1>1 DEF Inv, TypeOK, Ends
<1>5. LiveIsBound'
  <2> SUFFICES ASSUME NEW s \in Sides, NEW c \in Conns,
                      /\ trigger'[<<s, c>>] = "armed" /\ sock[<<s, c>>] = "open"
                      /\ ~isClose[<<s, c>>]
                      /\ ~(s = "proxy" /\ accept.pc = "store" /\ accept.conn = c)
                      /\ recv'[s].conn # c \/ recv'[s].pc # "close"
               PROVE  bind[<<s, cid[c]>>] = c
    BY <1>1 DEF LiveIsBound
  <2>1. recv[s].conn # c \/ recv[s].pc # "close"
    BY <1>1, <1>2 DEF Sides
  <2>2. CASE s = "client" /\ c = e
    BY <1>3, <2>2
  <2>3. CASE s # "client" \/ c # e
    BY <1>4, <2>1, <2>3 DEF LiveIsBound
  <2> QED  BY <2>2, <2>3
<1> QED  BY <1>2, <1>5 DEF Dialled

\* A close trigger takes out its own connection's number, and is not armed any
\* more; a connection that is being dialled has none.
LEMMA LiveUnbound ==
  ASSUME Inv, Unique, LiveIsBound, Dialled, NEW t \in Sides, NEW e \in Conns,
         trigger[<<t, e>>] # "none",
         bind' = [bind EXCEPT ![<<t, cid[e]>>] = None],
         trigger' = [trigger EXCEPT ![<<t, e>>] = "notify"],
         UNCHANGED <<sock, isClose, cid, accept, recv>>
  PROVE  LiveIsBound' /\ Dialled'
<1>1. cid[e] \in CIDs
  BY DEF Inv, TypeOK, Numbered, CIDs
<1>2. \A s \in Sides, d \in Conns : s # t \/ d # e => bind'[<<s, cid[d]>>] = bind[<<s, cid[d]>>]
  BY <1>1, Unbinding
<1>3. /\ trigger'[<<t, e>>] = "notify"
      /\ \A s \in Sides, d \in Conns :
           s # t \/ d # e => trigger'[<<s, d>>] = trigger[<<s, d>>]
  BY DEF Inv, TypeOK, Ends
<1>4. LiveIsBound'
  <2> SUFFICES ASSUME NEW s \in Sides, NEW c \in Conns,
                      /\ trigger'[<<s, c>>] = "armed" /\ sock[<<s, c>>] = "open"
                      /\ ~isClose[<<s, c>>]
                      /\ ~(s = "proxy" /\ accept.pc = "store" /\ accept.conn = c)
                      /\ recv[s].conn # c \/ recv[s].pc # "close"
               PROVE  bind'[<<s, cid[c]>>] = c
    BY DEF LiveIsBound
  <2>1. s # t \/ c # e
    BY <1>3
  <2> QED  BY <1>2, <1>3, <2>1 DEF LiveIsBound
<1>5. Dialled'
  <2> SUFFICES ASSUME recv["client"].pc = "arm"
               PROVE  bind'[<<"client", recv["client"].cid>>] = recv["client"].conn
    BY DEF Dialled
  <2>1. /\ recv["client"].conn \in Conns /\ cid[recv["client"].conn] = recv["client"].cid
        /\ trigger[<<"client", recv["client"].conn>>] = "none"
    BY DEF Inv, Handling, Once, Dialing, Sides
  <2> QED  BY <1>2, <2>1 DEF Dialled, Sides
<1> QED  BY <1>4, <1>5

\* The receivers' steps that only close or take up work.
LEMMA LiveReceiver ==
  ASSUME Inv, LiveIsBound, Dialled, NEW t \in Sides,
         \/ ReceiveEnd(t) \/ OnReq(t) \/ OnReqWrite(t) \/ OnClose(t)
         \/ clientConnCreateDoneHandler
         \/ OnCreate \/ DialRefused \/ SendRefused \/ sendCreateConnDoneEvent
  PROVE  LiveIsBound' /\ Dialled'
<1>1. UNCHANGED <<sock, trigger, bind, cid, accept>>
  BY DEF ReceiveEnd, OnReq, OnReqWrite, OnClose, clientConnCreateDoneHandler, OnCreate,
         DialRefused, SendRefused, sendCreateConnDoneEvent, conns, maps
<1>2. PICK u \in Sides : /\ recv[u].pc # "close"
                         /\ \E r : r.pc # "arm" /\ recv' = [recv EXCEPT ![u] = r]
  <2>1. \A s \in Sides : Loop(s).pc # "arm" /\ At("end", None, 0).pc # "arm"
    BY DEF Loop, At
  <2>2. CASE ReceiveEnd(t)
    BY <2>1, <2>2 DEF ReceiveEnd
  <2>3. CASE OnReq(t)
    <3>1. At("write", bind[<<t, In(t).cid>>], In(t).cid).pc # "arm"
      BY DEF At
    <3>2. recv[t].pc # "close" /\ Loop(t).pc # "arm"
      BY <2>1, <2>3 DEF OnReq, AtHead
    <3> QED  BY <2>3, <3>1, <3>2 DEF OnReq
  <2>10. CASE OnReqWrite(t)
    BY <2>1, <2>10 DEF OnReqWrite
  <2>4. CASE OnClose(t)
    BY <2>1, <2>4 DEF OnClose, Incoming, AtHead, Consume, At
  <2>5. CASE clientConnCreateDoneHandler
    BY <2>1, <2>5 DEF clientConnCreateDoneHandler, Incoming, AtHead, Consume, Sides
  <2>6. CASE OnCreate
    BY <2>6 DEF OnCreate, Incoming, AtHead, Consume, At, Sides
  <2>7. CASE DialRefused
    BY <2>7 DEF DialRefused, Sides, Inv, TypeOK
  <2>8. CASE SendRefused
    BY <2>1, <2>8 DEF SendRefused, Sides
  <2>9. CASE sendCreateConnDoneEvent
    BY <2>1, <2>9 DEF sendCreateConnDoneEvent, Sides
  <2> QED  BY <2>2, <2>3, <2>4, <2>5, <2>6, <2>7, <2>8, <2>9, <2>10
<1>3. \A s \in Sides : recv'[s] = recv[s] \/ (recv[s].pc # "close" /\ recv'[s].pc # "arm")
  BY <1>2 DEF Inv, TypeOK
<1>4. \A s \in Sides, c \in Conns : ~isClose'[<<s, c>>] => ~isClose[<<s, c>>]
  <2>1. CASE OnReqWrite(t)
    <3>1. \/ isClose' = isClose
          \/ \E c : isClose' = [isClose EXCEPT ![<<t, c>>] = TRUE]
      BY <2>1 DEF OnReqWrite, AppWrite
    <3> QED  BY <3>1 DEF Inv, TypeOK, Ends
  <2>2. CASE ~OnReqWrite(t)
    <3>1. isClose' = isClose
      BY <2>2 DEF ReceiveEnd, OnReq, OnClose, clientConnCreateDoneHandler, OnCreate, DialRefused,
             SendRefused, sendCreateConnDoneEvent, conns
    <3> QED  BY <3>1
  <2> QED  BY <2>1, <2>2
<1> QED  BY <1>1, <1>3, <1>4, LiveCalm, DialledCalm DEF Sides

\* The other steps of an application connection.
LEMMA LiveConnection ==
  ASSUME Inv, LiveIsBound, Dialled, NEW t \in Sides, NEW e \in Conns,
         \/ App(t, e) \/ Reader(t, e) \/ FireForward(e) \/ Notify(t, e)
         \/ CloseAfter(t, e) \/ Finalize(t, e)
  PROVE  LiveIsBound' /\ Dialled'
<1>1. UNCHANGED <<bind, cid, accept, recv>>
  BY DEF App, AppSend, AppClose, AppStall, AppResume, Reader, Read, SendReq, ReadEnd, FireForward, Notify,
         CloseAfter, Finalize, maps, loops
<1>2. \/ trigger' = trigger
      \/ \E s \in Sides : \E x : x # "armed" /\ trigger' = [trigger EXCEPT ![<<s, e>>] = x]
  <2>1. CASE FireForward(e)
    BY <2>1 DEF FireForward, Sides
  <2>2. CASE Notify(t, e)
    BY <2>2 DEF Notify
  <2>3. CASE CloseAfter(t, e)
    BY <2>3 DEF CloseAfter
  <2> QED  BY <2>1, <2>2, <2>3
           DEF App, AppSend, AppClose, AppStall, AppResume, Reader, Read, SendReq, ReadEnd, Finalize, conns
<1>3. sock' = sock \/ sock' = [sock EXCEPT ![<<t, e>>] = "closed"]
  BY DEF App, AppSend, AppClose, AppStall, AppResume, Reader, Read, SendReq, ReadEnd, FireForward, Notify,
         CloseAfter, Finalize, conns
<1>4. isClose' = isClose \/ isClose' = [isClose EXCEPT ![<<t, e>>] = TRUE]
  BY DEF App, AppSend, AppClose, AppStall, AppResume, Reader, Read, SendReq, ReadEnd, FireForward, Notify,
         CloseAfter, Finalize, conns
<1>5. \A s \in Sides, c \in Conns :
        /\ trigger'[<<s, c>>] = "armed" => trigger[<<s, c>>] = "armed"
        /\ sock'[<<s, c>>] = "open" => sock[<<s, c>>] = "open"
        /\ ~isClose'[<<s, c>>] => ~isClose[<<s, c>>]
  <2>1. \A s \in Sides, c \in Conns : trigger'[<<s, c>>] = "armed" => trigger[<<s, c>>] = "armed"
    BY <1>2 DEF Inv, TypeOK, Ends
  <2>2. \A s \in Sides, c \in Conns : sock'[<<s, c>>] = "open" => sock[<<s, c>>] = "open"
    BY <1>3 DEF Inv, TypeOK, Ends
  <2>3. \A s \in Sides, c \in Conns : ~isClose'[<<s, c>>] => ~isClose[<<s, c>>]
    BY <1>4 DEF Inv, TypeOK, Ends
  <2> QED  BY <2>1, <2>2, <2>3
<1> QED  BY <1>1, <1>5, LiveCalm, DialledCalm

LEMMA LiveNext ==
  ASSUME Inv, Unique, LiveIsBound, Dialled, [Next]_vars PROVE LiveIsBound' /\ Dialled'
<1>0. "proxy" \in Sides /\ "client" \in Sides
  BY DEF Sides
<1>1. CASE \/ Break \/ checkClientHB \/ sendHB \/ CloseListener \/ UNCHANGED vars
           \/ \E s \in Sides : Stop(s) \/ StopSess(s)
  <2>1. UNCHANGED <<sock, isClose, trigger, bind, cid, accept, recv>>
    <3>1. CASE UNCHANGED vars
      BY <3>1 DEF vars, conns, maps, loops
    <3>2. CASE Break
      BY <3>2 DEF Break, CloseSess, conns, maps, loops
    <3>3. CASE checkClientHB
      BY <3>3 DEF checkClientHB, CloseSess, conns, maps, loops
    <3>4. CASE CloseListener
      BY <3>4 DEF CloseListener, conns, maps, loops
    <3>5. CASE \E s \in Sides : Stop(s) \/ StopSess(s)
      <4>1. PICK s \in Sides : Stop(s) \/ StopSess(s)
        BY <3>5
      <4>2. CASE Stop(s)
        BY <4>2 DEF Stop, CloseSess, conns, maps, loops
      <4>3. CASE StopSess(s)
        BY <4>3 DEF StopSess, CloseSess, conns, maps, loops
      <4> QED  BY <4>1, <4>2, <4>3
    <3>6. CASE sendHB
      BY <3>6 DEF sendHB, conns, maps, loops
    <3> QED  BY <1>1, <3>1, <3>2, <3>3, <3>4, <3>5, <3>6
  <2> QED  BY <2>1, LiveCalm, DialledCalm
<1>2. CASE AcceptLoop
  <2>1. CASE Store
    BY <2>1, LiveStore
  <2>2. CASE sendBrowserConnCreateEvent
    <3>1. /\ UNCHANGED <<trigger, bind, cid, recv>> /\ accept.pc # "store"
          /\ \/ UNCHANGED <<sock, isClose>>
             \/ /\ sock' = [sock EXCEPT ![<<"proxy", accept.conn>>] = "closed"]
                /\ isClose' = [isClose EXCEPT ![<<"proxy", accept.conn>>] = TRUE]
      BY <2>2 DEF sendBrowserConnCreateEvent, maps
    <3>2. \A s \in Sides, c \in Conns :
            /\ sock'[<<s, c>>] = "open" => sock[<<s, c>>] = "open"
            /\ ~isClose'[<<s, c>>] => ~isClose[<<s, c>>]
      <4>1. CASE UNCHANGED <<sock, isClose>>
        BY <4>1
      <4>2. CASE /\ sock' = [sock EXCEPT ![<<"proxy", accept.conn>>] = "closed"]
                 /\ isClose' = [isClose EXCEPT ![<<"proxy", accept.conn>>] = TRUE]
        <5>1. /\ sock = [x \in Sides \X Conns |-> sock[x]]
              /\ isClose = [x \in Sides \X Conns |-> isClose[x]]
          BY DEF Inv, TypeOK, Ends
        <5>2. \A x \in Sides \X Conns :
                /\ sock'[x] = "open" => sock[x] = "open"
                /\ ~isClose'[x] => ~isClose[x]
          BY <4>2, <5>1
        <5> QED  BY <5>2
      <4> QED  BY <3>1, <4>1, <4>2
    <3> QED  BY <3>1, <3>2, LiveCalm, DialledCalm
  <2> QED  BY <1>2, <2>1, <2>2 DEF AcceptLoop
<1>3. ASSUME NEW c \in Conns, Accept(c) PROVE LiveIsBound' /\ Dialled'
  BY <1>3, LiveAccept
<1>4. ASSUME NEW s \in Sides, Receiver(s) PROVE LiveIsBound' /\ Dialled'
  <2>1. \/ ReceiveEnd(s)
        \/ \E t \in Sides : \/ OnReq(t) \/ OnReqWrite(t) \/ OnClose(t)
                            \/ OnCloseUnbind(t) \/ OnCloseClose(t)
        \/ clientConnCreateDoneHandler \/ proxyCreateBrowserConnHandler
    BY <1>0, <1>4
       DEF Receiver, clientReqHandler, proxyReqHandler, clientConnCloseHandler,
           proxyCloseBrowserConnHandler
  <2>2. ASSUME NEW t \in Sides, \/ OnReq(t) \/ OnReqWrite(t) \/ OnClose(t)
                                 \/ OnCloseUnbind(t) \/ OnCloseClose(t)
        PROVE  LiveIsBound' /\ Dialled'
    BY <2>2, LiveReceiver, LiveOnCloseUnbind, LiveOnCloseClose
  <2>3. CASE proxyCreateBrowserConnHandler
    BY <2>3, LiveReceiver, LiveDialStore, LiveArmForward DEF proxyCreateBrowserConnHandler
  <2> QED  BY <2>1, <2>2, <2>3, LiveReceiver
<1>5. ASSUME NEW s \in Sides, NEW c \in Conns, Trigger(s, c) PROVE LiveIsBound' /\ Dialled'
  <2>1. CASE FireBrowser(c)
    <3>1. /\ trigger[<<"proxy", c>>] # "none"
          /\ bind' = [bind EXCEPT ![<<"proxy", cid[c]>>] = None]
          /\ trigger' = [trigger EXCEPT ![<<"proxy", c>>] = "notify"]
          /\ UNCHANGED <<sock, isClose, cid, accept, recv>>
      BY <2>1 DEF FireBrowser, Fires, loops
    <3> QED  BY <1>0, <3>1, LiveUnbound
  <2>2. CASE UnbindForward(c)
    <3>1. /\ trigger[<<"client", c>>] # "none"
          /\ bind' = [bind EXCEPT ![<<"client", cid[c]>>] = None]
          /\ trigger' = [trigger EXCEPT ![<<"client", c>>] = "notify"]
          /\ UNCHANGED <<sock, isClose, cid, accept, recv>>
      BY <2>2 DEF UnbindForward, loops
    <3> QED  BY <1>0, <3>1, LiveUnbound
  <2> QED  BY <1>5, <2>1, <2>2, LiveConnection DEF Trigger
<1>6. ASSUME NEW s \in Sides, NEW c \in Conns, App(s, c) \/ Reader(s, c) \/ Finalize(s, c)
      PROVE  LiveIsBound' /\ Dialled'
  BY <1>6, LiveConnection
<1> QED  BY <1>1, <1>2, <1>3, <1>4, <1>5, <1>6 DEF Next

-----------------------------------------------------------------------------
\* Not more connections than numbers.
FewConns == IsFiniteSet(Conns) /\ Cardinality(Conns) <= MaxCID

\* The counter has counted the accepted connections, and they have the numbers up
\* to it.
Accepted == {c \in Conns : cid[c] # 0}
Drawn    == seq = Cardinality(Accepted) /\ \A c \in Conns : cid[c] <= seq

\* So the counter does not come round: an accepted connection gets the next number.
LEMMA AcceptDraws ==
  ASSUME FewConns, Inv, Drawn, NEW c \in Conns, Accept(c) PROVE seq' = seq + 1
<1>1. /\ cid[c] = 0 /\ cid \in [Conns -> 0 .. MaxCID] /\ seq \in 0 .. MaxCID
      /\ seq' = newSerialNo
  BY DEF Accept, Inv, Numbered, TypeOK, Sides
<1>2. /\ IsFiniteSet(Accepted) /\ Accepted \subseteq Conns /\ c \notin Accepted
      /\ Cardinality(Accepted) \in Nat /\ Cardinality(Conns) \in Nat
  BY <1>1, FS_Subset, FS_CardinalityType DEF FewConns, Accepted
<1>3. IsFiniteSet(Accepted \cup {c}) /\ Cardinality(Accepted \cup {c}) = Cardinality(Accepted) + 1
  BY <1>2, FS_AddElement
<1>4. Cardinality(Accepted \cup {c}) <= Cardinality(Conns)
  BY <1>2, FS_Subset DEF FewConns
<1>5. seq < MaxCID
  BY <1>1, <1>2, <1>3, <1>4, BoundsAssumption DEF Drawn, FewConns
<1> QED  BY <1>1, <1>5, BoundsAssumption DEF newSerialNo

\* No other step draws a number.
LEMMA SameNumbers ==
  ASSUME [Next]_vars, ~\E c \in Conns : Accept(c) PROVE cid' = cid /\ seq' = seq
<1>1. ASSUME NEW s \in Sides, Receiver(s) PROVE cid' = cid /\ seq' = seq
  <2>1. \/ ReceiveEnd(s)
        \/ \E t \in Sides : \/ OnReq(t) \/ OnReqWrite(t) \/ OnClose(t)
                            \/ OnCloseUnbind(t) \/ OnCloseClose(t)
        \/ clientConnCreateDoneHandler \/ proxyCreateBrowserConnHandler
    BY <1>1 DEF Receiver, clientReqHandler, proxyReqHandler, clientConnCloseHandler,
                proxyCloseBrowserConnHandler, Sides
  <2>2. CASE ReceiveEnd(s) \/ clientConnCreateDoneHandler
    BY <2>2 DEF ReceiveEnd, clientConnCreateDoneHandler, maps
  <2>3. CASE \E t \in Sides : \/ OnReq(t) \/ OnReqWrite(t) \/ OnClose(t)
                              \/ OnCloseUnbind(t) \/ OnCloseClose(t)
    BY <2>3 DEF OnReq, OnReqWrite, OnClose, OnCloseUnbind, OnCloseClose, maps
  <2>4. CASE proxyCreateBrowserConnHandler
    BY <2>4 DEF proxyCreateBrowserConnHandler, OnCreate, DialRefused, SendRefused,
                DialStore, ArmForward, sendCreateConnDoneEvent, maps
  <2> QED  BY <2>1, <2>2, <2>3, <2>4
<1>2. ASSUME NEW s \in Sides, NEW c \in Conns, App(s, c) \/ Reader(s, c) \/ Finalize(s, c)
      PROVE  cid' = cid /\ seq' = seq
  BY <1>2 DEF App, AppSend, AppClose, AppStall, AppResume, Reader, Read, SendReq, ReadEnd, Finalize, maps
<1>3. ASSUME NEW s \in Sides, NEW c \in Conns, Trigger(s, c) PROVE cid' = cid /\ seq' = seq
  BY <1>3 DEF Trigger, FireBrowser, FireForward, UnbindForward, Notify, CloseAfter, maps
<1>4. ASSUME NEW s \in Sides, Stop(s) \/ StopSess(s) PROVE cid' = cid /\ seq' = seq
  BY <1>4 DEF Stop, StopSess, CloseSess, maps
<1>5. CASE Break \/ checkClientHB \/ sendHB \/ CloseListener
  BY <1>5 DEF Break, checkClientHB, sendHB, CloseListener, CloseSess, maps
<1>6. CASE AcceptLoop
  BY <1>6 DEF AcceptLoop, Store, sendBrowserConnCreateEvent, maps
<1>7. CASE UNCHANGED vars
  BY <1>7 DEF vars, maps
<1> QED  BY <1>1, <1>2, <1>3, <1>4, <1>5, <1>6, <1>7 DEF Next

\* The numbers stay drawn in order, and apart.
LEMMA DrawnNext ==
  ASSUME FewConns, Inv, Inv', Drawn, Unique, [Next]_vars PROVE Drawn' /\ Unique'
<1>1. CASE \E c \in Conns : Accept(c)
  <2>1. PICK c \in Conns : Accept(c)
    BY <1>1
  <2>2. /\ cid[c] = 0 /\ cid \in [Conns -> 0 .. MaxCID] /\ seq \in 0 .. MaxCID
        /\ cid' = [cid EXCEPT ![c] = seq'] /\ seq' = seq + 1
    BY <2>1, AcceptDraws DEF Accept, Inv, Numbered, TypeOK, Sides
  <2>3. /\ IsFiniteSet(Accepted) /\ c \notin Accepted /\ Cardinality(Accepted) \in Nat
    BY <2>2, FS_Subset, FS_CardinalityType DEF FewConns, Accepted
  <2>4. Cardinality(Accepted \cup {c}) = Cardinality(Accepted) + 1
    BY <2>3, FS_AddElement
  <2>5. cid'[c] = seq + 1 /\ \A d \in Conns : d # c => cid'[d] = cid[d]
    BY <2>2
  <2>6. Accepted' = Accepted \cup {c}
    BY <2>2, <2>5 DEF Accepted
  <2>7. Drawn'
    BY <2>2, <2>4, <2>5, <2>6 DEF Drawn
  <2>8. Unique'
    BY <2>2, <2>5 DEF Unique, Drawn
  <2> QED  BY <2>7, <2>8
<1>2. CASE ~\E c \in Conns : Accept(c)
  BY <1>2, SameNumbers DEF Drawn, Unique, Accepted
<1> QED  BY <1>1, <1>2

\* A connection that nobody is closing can be reached by its number, at both
\* endpoints, for any faults, as long as no number is given twice: neither a close
\* handler nor a CLOSE takes out another connection's entry.
THEOREM LiveReachable ==
  ASSUME FewConns
  PROVE  Spec => []LiveIsBound
<1>1. Init => LiveIsBound /\ Dialled /\ Drawn /\ Unique
  <2> SUFFICES ASSUME Init PROVE LiveIsBound /\ Dialled /\ Drawn /\ Unique
    OBVIOUS
  <2>1. Accepted = {} /\ Cardinality({}) = 0
    BY FS_EmptySet DEF Init, Accepted
  <2> QED  BY <2>1 DEF Init, LiveIsBound, Dialled, Drawn, Unique, Ends, At, Sides
<1>2. /\ Inv /\ Inv' /\ LiveIsBound /\ Dialled /\ Drawn /\ Unique /\ [Next]_vars
      => LiveIsBound' /\ Dialled' /\ Drawn' /\ Unique'
  BY LiveNext, DrawnNext
<1> QED  BY <1>1, <1>2, Invariance, PTL DEF Spec
=============================================================================
