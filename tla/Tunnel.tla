-------------------------------- MODULE Tunnel --------------------------------
(***************************************************************************)
(* One session of a client and a proxy: the life of every tunnelled        *)
(* connection, from the proxy's accept to the close of both its ends.      *)
(*                                                                         *)
(* The two endpoints share one TCP connection and send each other CREATE,  *)
(* DONE, REQ and CLOSE messages tagged with a connection number (cID).     *)
(* Each keeps a map from cID to its end of the connection (browserConnRID, *)
(* forwardConnRID).  The goroutines of an endpoint share the map and the   *)
(* session connection without a lock: the receiver runs the message        *)
(* handlers, each application connection has a reader and a close trigger, *)
(* and the proxy has an accept loop.                                       *)
(*                                                                         *)
(* An end is a pair <<side, connection>>.  Of a close trigger's goroutines *)
(* one wins here; CloseTrigger models the choice among them.  A session's  *)
(* successors (Restart, with new maps) are Lifecycle's.                    *)
(***************************************************************************)
EXTENDS Integers, Sequences, FiniteSets

CONSTANTS Conns,      \* the connections that browsers make
          MaxChunks,  \* bound: MaxChunks[s] pieces of data an application at side s sends
          MaxCID,     \* the connection numbers are 1 .. MaxCID, then 1 again
          Faults,     \* what may go wrong: see FaultNames
          None        \* no connection

Sides == {"proxy", "client"}

FaultNames == {"refuse",   \* the forward address refuses a dial
               "break",    \* the session's TCP connection breaks
               "silence",  \* the proxy misses the client's heart beat
               "stop",     \* somebody stops an endpoint
               "accept",   \* Accept of the browser listener fails
               "stall"}    \* an application does not read for a time, or for ever

ASSUME ConnsAssumption  == None \notin Conns
ASSUME BoundsAssumption == MaxChunks \in [Sides -> Nat] /\ MaxCID \in Nat \ {0}
ASSUME FaultsAssumption == Faults \subseteq FaultNames

VARIABLES
  \* the applications: pieces sent, taken in by the tunnel, received; closed;
  \* not reading, and the buffers towards it are full
  sent, taken, got, fin, stalled,
  \* the IPConn of an end: its socket, its close signal, its close trigger, and
  \* whether that is to close the connection after its handler
  sock, isClose, trigger, due,
  \* reader goroutines of an end, and the pieces they hold between Read and Write
  readers, held,
  \* the maps: bind[<<"proxy", n>>] is browserConnRID, bind[<<"client", n>>] forwardConnRID
  bind, cid, seq,
  \* the session: messages sent by a side, its socket, its close signal, stop
  chan, sessOpen, sessClose, stop, broken,
  \* the receiver of a side; the accept loop and the close signal of its listener
  recv, accept, listening,
  \* history: connections whose dial was refused or whose application left
  \* while something was written to it
  failed

apps  == <<sent, taken, got, fin, stalled>>
conns == <<sock, isClose, trigger, due, readers, held>>
maps  == <<bind, cid, seq>>
sess  == <<chan, sessOpen, sessClose, stop, broken>>
loops == <<recv, accept, listening>>
vars  == <<apps, conns, maps, sess, loops, failed>>

Other(s) == IF s = "proxy" THEN "client" ELSE "proxy"
Ends     == Sides \X Conns
CIDs     == 1 .. MaxCID

Msg(t, n, c, k) == [type |-> t, cid |-> n, conn |-> c, chunk |-> k]
At(p, c, n)     == [pc |-> p, conn |-> c, cid |-> n]

Init ==
  /\ sent = [e \in Ends |-> 0] /\ taken = [e \in Ends |-> 0]
  /\ got = [e \in Ends |-> <<>>] /\ fin = [e \in Ends |-> FALSE]
  /\ stalled = [e \in Ends |-> FALSE]
  /\ sock = [e \in Ends |-> "none"] /\ isClose = [e \in Ends |-> FALSE]
  /\ trigger = [e \in Ends |-> "none"] /\ due = [e \in Ends |-> FALSE]
  /\ readers = [e \in Ends |-> 0] /\ held = [e \in Ends |-> {}]
  /\ bind = [e \in Sides \X CIDs |-> None]
  /\ cid = [c \in Conns |-> 0] /\ seq = 0
  /\ chan = [s \in Sides |-> <<>>]
  /\ sessOpen = [s \in Sides |-> TRUE] /\ sessClose = [s \in Sides |-> FALSE]
  /\ stop = [s \in Sides |-> FALSE] /\ broken = FALSE
  /\ recv = [s \in Sides |-> At("read", None, 0)]
  /\ accept = At("accept", None, 0) /\ listening = TRUE
  /\ failed = {}

-----------------------------------------------------------------------------
\* The session connection.

Up == ~broken /\ \A s \in Sides : sessOpen[s]

\* IPConn.Write on the session: what is written after the connection is gone
\* is lost, or fails and gives the close signal.
Written(s, m) ==
  /\ sessOpen[s]
  /\ chan' = IF Up THEN [chan EXCEPT ![s] = Append(@, m)] ELSE chan
  /\ UNCHANGED <<sessOpen, sessClose, stop, broken>>

WriteFails(s) ==
  /\ ~Up
  /\ sessClose' = [sessClose EXCEPT ![s] = TRUE]
  /\ UNCHANGED <<chan, sessOpen, stop, broken>>

Write(s, m) == Written(s, m) \/ WriteFails(s)

\* The connection breaks, as TCP reports it to both endpoints.
Break ==
  /\ "break" \in Faults /\ ~broken
  /\ broken' = TRUE
  /\ UNCHANGED <<apps, conns, maps, chan, sessOpen, sessClose, stop, loops, failed>>

\* Stop of an endpoint closes its stop signal.
Stop(s) ==
  /\ "stop" \in Faults /\ ~stop[s]
  /\ stop' = [stop EXCEPT ![s] = TRUE]
  /\ UNCHANGED <<apps, conns, maps, chan, sessOpen, sessClose, broken, loops, failed>>

CloseSess(s) ==
  /\ sessOpen[s]
  /\ sessOpen' = [sessOpen EXCEPT ![s] = FALSE]
  /\ sessClose' = [sessClose EXCEPT ![s] = TRUE]
  /\ UNCHANGED <<apps, conns, maps, chan, stop, broken, loops, failed>>

\* The stop signal's trigger closes the session connection, unless that was
\* lost already: then the trigger is over.
StopSess(s) == stop[s] /\ ~sessClose[s] /\ CloseSess(s)

\* The receiver of s waits in its write to an application.
Blocked(s) ==
  LET e == <<s, recv[s].conn>>
  IN recv[s].pc = "write" /\ stalled[e] /\ sock[e] = "open" /\ ~fin[e]

\* Without heart beats in time: the client sends none, or the proxy's receiver
\* does not come to read them.
BeatsMissed == ~Up \/ Blocked("proxy")

\* checkClientHB: the timer of the session fires.
checkClientHB == ("silence" \in Faults \/ BeatsMissed) /\ CloseSess("proxy")

\* Variant: the heart beat is written past IPConn, whose Write gives the signal.
sendHBSilently ==
  /\ ~sessClose["client"] /\ ~Up
  /\ UNCHANGED vars

\* The client's next heart beat cannot be written any more.
sendHB ==
  /\ ~sessClose["client"] /\ WriteFails("client")
  /\ UNCHANGED <<apps, conns, maps, loops, failed>>

\* The browser listener is closed with its session, or its Accept fails.
CloseListener ==
  /\ listening
  /\ stop["proxy"] \/ sessClose["proxy"] \/ ("accept" \in Faults /\ accept.pc = "accept")
  /\ listening' = FALSE
  /\ UNCHANGED <<apps, conns, maps, sess, recv, accept, failed>>

-----------------------------------------------------------------------------
\* The applications.

AppSend(s, c) ==
  /\ sock[<<s, c>>] # "none" /\ ~fin[<<s, c>>] /\ sent[<<s, c>>] < MaxChunks[s]
  /\ sent' = [sent EXCEPT ![<<s, c>>] = @ + 1]
  /\ UNCHANGED <<taken, got, fin, stalled, conns, maps, sess, loops, failed>>

AppStall(s, c) ==
  /\ "stall" \in Faults /\ sock[<<s, c>>] = "open" /\ ~fin[<<s, c>>] /\ ~stalled[<<s, c>>]
  /\ stalled' = [stalled EXCEPT ![<<s, c>>] = TRUE]
  /\ UNCHANGED <<sent, taken, got, fin, conns, maps, sess, loops, failed>>

AppResume(s, c) ==
  /\ stalled[<<s, c>>]
  /\ stalled' = [stalled EXCEPT ![<<s, c>>] = FALSE]
  /\ UNCHANGED <<sent, taken, got, fin, conns, maps, sess, loops, failed>>

AppClose(s, c) ==
  /\ sock[<<s, c>>] # "none" /\ ~fin[<<s, c>>]
  /\ fin' = [fin EXCEPT ![<<s, c>>] = TRUE]
  /\ UNCHANGED <<sent, taken, got, stalled, conns, maps, sess, loops, failed>>

\* IPConn.Write on an application's connection: it waits while the application
\* does not read, until one of the two closes the connection.
AppWrite(s, c, m) ==
  \/ /\ sock[<<s, c>>] = "open" /\ ~fin[<<s, c>>] /\ ~stalled[<<s, c>>]
     /\ got' = [got EXCEPT ![<<s, c>>] = Append(@, <<m.conn, m.chunk>>)]
     /\ UNCHANGED <<isClose, failed>>
  \/ /\ sock[<<s, c>>] = "closed" \/ fin[<<s, c>>]
     /\ UNCHANGED <<got, isClose, failed>>
  \/ /\ fin[<<s, c>>] /\ sock[<<s, c>>] = "open"
     /\ isClose' = [isClose EXCEPT ![<<s, c>>] = TRUE]
     /\ failed' = failed \cup {c}
     /\ UNCHANGED got

-----------------------------------------------------------------------------
\* The proxy's accept loop.

\* Variants of the number: it starts at 0, or never advances.
newSerialNoFromZero == (seq + 1) % MaxCID
newSerialNoStuck    == 1

\* The next number; SerialNo models the concurrent calls.  The numbers of
\* messages are drawn from the same counter, so that it comes round the sooner.
newSerialNo == (seq % MaxCID) + 1

\* A browser connects: a connection number, and the close trigger is armed
\* before the connection is in the map.
Accept(c) ==
  /\ accept.pc = "accept" /\ listening
  /\ sock[<<"proxy", c>>] = "none"
  /\ seq' = newSerialNo
  /\ cid' = [cid EXCEPT ![c] = seq']
  /\ sock' = [sock EXCEPT ![<<"proxy", c>>] = "open"]
  /\ trigger' = [trigger EXCEPT ![<<"proxy", c>>] = "armed"]
  /\ accept' = At("store", c, seq')
  /\ UNCHANGED <<apps, isClose, due, readers, held, bind, sess, recv, listening, failed>>

\* Variant: the connection is announced without being stored.
StoreNothing ==
  /\ accept.pc = "store"
  /\ accept' = [accept EXCEPT !.pc = "create"]
  /\ UNCHANGED <<apps, conns, maps, sess, recv, listening, failed>>

Store ==
  /\ accept.pc = "store"
  /\ bind' = [bind EXCEPT ![<<"proxy", accept.cid>>] = accept.conn]
  /\ accept' = [accept EXCEPT !.pc = "create"]
  /\ UNCHANGED <<apps, conns, cid, seq, sess, recv, listening, failed>>

\* A browser connection that cannot be announced is closed.
sendBrowserConnCreateEvent ==
  /\ accept.pc = "create"
  /\ LET c == accept.conn IN
     \/ /\ Written("proxy", Msg("CREATE", accept.cid, c, 0))
        /\ UNCHANGED <<sock, isClose>>
     \/ /\ WriteFails("proxy")
        /\ sock' = [sock EXCEPT ![<<"proxy", c>>] = "closed"]
        /\ isClose' = [isClose EXCEPT ![<<"proxy", c>>] = TRUE]
  /\ accept' = At("accept", None, 0)
  /\ UNCHANGED <<apps, trigger, due, readers, held, maps, recv, listening, failed>>

-----------------------------------------------------------------------------
\* The receiver goroutines.

\* Back at the top of the loop: the close signal ends it.
Loop(s) == At(IF sessClose[s] THEN "end" ELSE "read", None, 0)

\* The next message that s reads from the session is of type t.
AtHead(s, t) ==
  /\ recv[s].pc = "read" /\ sessOpen[s]
  /\ chan[Other(s)] # <<>> /\ Head(chan[Other(s)]).type = t

Consume(s) ==
  /\ chan' = [chan EXCEPT ![Other(s)] = Tail(@)]
  /\ UNCHANGED <<sessOpen, sessClose, stop, broken>>

Incoming(s, t) == AtHead(s, t) /\ Consume(s)

In(s) == Head(chan[Other(s)])

\* Read fails once the connection is closed or broken, and what is still in
\* flight is lost.
ReceiveEnd(s) ==
  /\ recv[s].pc = "read"
  /\ ~Up \/ sessClose[s]
  /\ recv' = [recv EXCEPT ![s] = At("end", None, 0)]
  /\ sessClose' = [sessClose EXCEPT ![s] = TRUE]
  /\ chan' = [chan EXCEPT ![Other(s)] = <<>>]
  /\ UNCHANGED <<apps, conns, maps, sessOpen, stop, broken, accept, listening, failed>>

\* REQ: the bound connection is looked up, then the data is written to it.  The
\* message is left at the head of chan until that write returns.
OnReq(s) ==
  /\ AtHead(s, "REQ")
  /\ LET n == In(s).cid IN
       \/ /\ bind[<<s, n>>] = None
          /\ Consume(s)
          /\ recv' = [recv EXCEPT ![s] = Loop(s)]
       \/ /\ bind[<<s, n>>] # None
          /\ recv' = [recv EXCEPT ![s] = At("write", bind[<<s, n>>], n)]
          /\ UNCHANGED sess
  /\ UNCHANGED <<apps, conns, maps, accept, listening, failed>>

OnReqWrite(s) ==
  /\ recv[s].pc = "write"
  /\ AppWrite(s, recv[s].conn, In(s))
  /\ Consume(s)
  /\ recv' = [recv EXCEPT ![s] = Loop(s)]
  /\ UNCHANGED <<sent, taken, fin, stalled, sock, trigger, due, readers, held, maps,
                 accept, listening>>

clientReqHandler == OnReq("proxy") \/ OnReqWrite("proxy")
proxyReqHandler  == OnReq("client") \/ OnReqWrite("client")

\* CLOSE: the bound connection is looked up, unbound, then closed.
OnClose(s) ==
  /\ Incoming(s, "CLOSE")
  /\ LET n == In(s).cid IN
       recv' = [recv EXCEPT ![s] = IF bind[<<s, n>>] = None THEN Loop(s)
                                   ELSE At("unbind", bind[<<s, n>>], n)]
  /\ UNCHANGED <<apps, conns, maps, accept, listening, failed>>

OnCloseUnbind(s) ==
  /\ recv[s].pc = "unbind"
  /\ bind' = [bind EXCEPT ![<<s, recv[s].cid>>] = None]
  /\ recv' = [recv EXCEPT ![s].pc = "close"]
  /\ UNCHANGED <<apps, conns, cid, seq, sess, accept, listening, failed>>

OnCloseClose(s) ==
  /\ recv[s].pc = "close"
  /\ sock' = [sock EXCEPT ![<<s, recv[s].conn>>] = "closed"]
  /\ isClose' = [isClose EXCEPT ![<<s, recv[s].conn>>] = TRUE]
  /\ recv' = [recv EXCEPT ![s] = Loop(s)]
  /\ UNCHANGED <<apps, trigger, due, readers, held, maps, sess, accept, listening, failed>>

clientConnCloseHandler ==
  OnClose("proxy") \/ OnCloseUnbind("proxy") \/ OnCloseClose("proxy")
proxyCloseBrowserConnHandler ==
  OnClose("client") \/ OnCloseUnbind("client") \/ OnCloseClose("client")

\* Variant: nobody reads the browser.
DoneUnread ==
  /\ Incoming("proxy", "DONE")
  /\ recv' = [recv EXCEPT !["proxy"] = Loop("proxy")]
  /\ UNCHANGED <<apps, conns, maps, accept, listening, failed>>

\* DONE, at the proxy: the browser is read from now on.
clientConnCreateDoneHandler ==
  /\ Incoming("proxy", "DONE")
  /\ LET c == bind[<<"proxy", In("proxy").cid>>] IN
       readers' = IF c = None THEN readers ELSE [readers EXCEPT ![<<"proxy", c>>] = @ + 1]
  /\ recv' = [recv EXCEPT !["proxy"] = Loop("proxy")]
  /\ UNCHANGED <<apps, sock, isClose, trigger, due, held, maps, accept, listening, failed>>

\* CREATE, at the client: the receiver dials the forward address and waits.
OnCreate ==
  /\ Incoming("client", "CREATE")
  /\ recv' = [recv EXCEPT !["client"] = At("dial", In("client").conn, In("client").cid)]
  /\ UNCHANGED <<apps, conns, maps, accept, listening, failed>>

DialRefused ==
  /\ "refuse" \in Faults /\ recv["client"].pc = "dial"
  /\ recv' = [recv EXCEPT !["client"].pc = "refuse"]
  /\ failed' = failed \cup {recv["client"].conn}
  /\ UNCHANGED <<apps, conns, maps, sess, accept, listening>>

SendRefused ==
  /\ recv["client"].pc = "refuse"
  /\ Write("client", Msg("CLOSE", recv["client"].cid, None, 0))
  /\ recv' = [recv EXCEPT !["client"] = Loop("client")]
  /\ UNCHANGED <<apps, conns, maps, accept, listening, failed>>

DialStore ==
  /\ recv["client"].pc = "dial"
  /\ sock' = [sock EXCEPT ![<<"client", recv["client"].conn>>] = "open"]
  /\ bind' = [bind EXCEPT ![<<"client", recv["client"].cid>>] = recv["client"].conn]
  /\ recv' = [recv EXCEPT !["client"].pc = "arm"]
  /\ UNCHANGED <<apps, isClose, trigger, due, readers, held, cid, seq, sess, accept,
                 listening, failed>>

\* AddCloseTrigger and the reader goroutine.
ArmForward ==
  /\ recv["client"].pc = "arm"
  /\ trigger' = [trigger EXCEPT ![<<"client", recv["client"].conn>>] = "armed"]
  /\ readers' = [readers EXCEPT ![<<"client", recv["client"].conn>>] = @ + 1]
  /\ recv' = [recv EXCEPT !["client"].pc = "done"]
  /\ UNCHANGED <<apps, sock, isClose, due, held, maps, sess, accept, listening, failed>>

sendCreateConnDoneEvent ==
  /\ recv["client"].pc = "done"
  /\ Write("client", Msg("DONE", recv["client"].cid, None, 0))
  /\ recv' = [recv EXCEPT !["client"] = Loop("client")]
  /\ UNCHANGED <<apps, conns, maps, accept, listening, failed>>

proxyCreateBrowserConnHandler ==
  \/ OnCreate \/ DialRefused \/ SendRefused
  \/ DialStore \/ ArmForward \/ sendCreateConnDoneEvent

-----------------------------------------------------------------------------
\* The reader goroutines of an application connection.

Reading(s, c) == readers[<<s, c>>] > Cardinality(held[<<s, c>>])

\* IPConn.Read of a piece of the application's data.
Read(s, c) ==
  /\ Reading(s, c) /\ sock[<<s, c>>] = "open" /\ taken[<<s, c>>] < sent[<<s, c>>]
  /\ taken' = [taken EXCEPT ![<<s, c>>] = @ + 1]
  /\ held' = [held EXCEPT ![<<s, c>>] = @ \cup {taken'[<<s, c>>]}]
  /\ UNCHANGED <<sent, got, fin, stalled, sock, isClose, trigger, due, readers, maps, sess,
                 loops, failed>>

\* Variant: the buffer is sent a second time.
SendReqAgain(s, c) ==
  /\ \E k \in held[<<s, c>>] :
       /\ Len(chan[s]) < 3 /\ Write(s, Msg("REQ", cid[c], c, k))
       /\ \E H \in {held[<<s, c>>], held[<<s, c>>] \ {k}} : held' = [held EXCEPT ![<<s, c>>] = H]
  /\ UNCHANGED <<apps, sock, isClose, trigger, due, readers, maps, loops, failed>>

SendReq(s, c) ==
  /\ \E k \in held[<<s, c>>] :
       /\ Write(s, Msg("REQ", cid[c], c, k))
       /\ held' = [held EXCEPT ![<<s, c>>] = @ \ {k}]
  /\ readers' = [readers EXCEPT ![<<s, c>>] = IF isClose[<<s, c>>] THEN @ - 1 ELSE @]
  /\ UNCHANGED <<apps, sock, isClose, trigger, due, maps, loops, failed>>

ReadEnd(s, c) ==
  /\ Reading(s, c)
  /\ \/ isClose[<<s, c>>] \/ sock[<<s, c>>] = "closed"
     \/ fin[<<s, c>>] /\ taken[<<s, c>>] = sent[<<s, c>>]
  /\ readers' = [readers EXCEPT ![<<s, c>>] = @ - 1]
  /\ isClose' = [isClose EXCEPT ![<<s, c>>] = TRUE]
  /\ UNCHANGED <<apps, sock, trigger, due, held, maps, sess, loops, failed>>

-----------------------------------------------------------------------------
\* The close triggers of an application connection.

\* A signal other than the connection's own close signal.
OutsideSignal(s) == stop[s] \/ sessClose[s] \/ (s = "proxy" /\ ~listening)

\* A signal wins: x says whether it was one from outside.
Fires(s, c, x) ==
  /\ trigger[<<s, c>>] = "armed"
  /\ IF x THEN OutsideSignal(s) ELSE isClose[<<s, c>>]
  /\ due' = [due EXCEPT ![<<s, c>>] = x]

\* The proxy's handlers unbind the number and notify the client.
FireBrowser(c) ==
  /\ \E x \in BOOLEAN : Fires("proxy", c, x)
  /\ bind' = [bind EXCEPT ![<<"proxy", cid[c]>>] = None]
  /\ trigger' = [trigger EXCEPT ![<<"proxy", c>>] = "notify"]
  /\ UNCHANGED <<apps, sock, isClose, readers, held, cid, seq, sess, loops, failed>>

\* The client's do so only if the number is still bound.
FireForward(c) ==
  /\ \E x \in BOOLEAN :
       /\ Fires("client", c, x)
       /\ trigger' = [trigger EXCEPT ![<<"client", c>>] =
                        IF bind[<<"client", cid[c]>>] # None THEN "unbind"
                        ELSE IF x THEN "close" ELSE "done"]
  /\ UNCHANGED <<apps, sock, isClose, readers, held, maps, sess, loops, failed>>

\* Variant: the entry stays in the map.
UnbindForwardNot(c) ==
  /\ trigger[<<"client", c>>] = "unbind"
  /\ trigger' = [trigger EXCEPT ![<<"client", c>>] = "notify"]
  /\ UNCHANGED <<apps, sock, isClose, due, readers, held, maps, sess, loops, failed>>

UnbindForward(c) ==
  /\ trigger[<<"client", c>>] = "unbind"
  /\ bind' = [bind EXCEPT ![<<"client", cid[c]>>] = None]
  /\ trigger' = [trigger EXCEPT ![<<"client", c>>] = "notify"]
  /\ UNCHANGED <<apps, sock, isClose, due, readers, held, cid, seq, sess, loops, failed>>

\* Variant: the other side is not told.
NotifyNobody(s, c) ==
  /\ trigger[<<s, c>>] = "notify"
  /\ trigger' = [trigger EXCEPT ![<<s, c>>] = IF due[<<s, c>>] THEN "close" ELSE "done"]
  /\ UNCHANGED <<apps, sock, isClose, due, readers, held, maps, sess, loops, failed>>

\* sendBrowserConnCloseEvent, sendForwardConnCloseEvent.
Notify(s, c) ==
  /\ trigger[<<s, c>>] = "notify"
  /\ Write(s, Msg("CLOSE", cid[c], None, 0))
  /\ trigger' = [trigger EXCEPT ![<<s, c>>] = IF due[<<s, c>>] THEN "close" ELSE "done"]
  /\ UNCHANGED <<apps, sock, isClose, due, readers, held, maps, loops, failed>>

\* A trigger of a signal from outside closes the connection after its handler.
CloseAfter(s, c) ==
  /\ trigger[<<s, c>>] = "close"
  /\ sock' = [sock EXCEPT ![<<s, c>>] = "closed"]
  /\ isClose' = [isClose EXCEPT ![<<s, c>>] = TRUE]
  /\ trigger' = [trigger EXCEPT ![<<s, c>>] = "done"]
  /\ due' = [due EXCEPT ![<<s, c>>] = FALSE]
  /\ UNCHANGED <<apps, readers, held, maps, sess, loops, failed>>

\* Go's runtime closes the socket of a connection nothing refers to any more.
Finalize(s, c) ==
  /\ sock[<<s, c>>] = "open" /\ isClose[<<s, c>>] /\ trigger[<<s, c>>] = "done" /\ readers[<<s, c>>] = 0
  /\ \A n \in CIDs : bind[<<s, n>>] # c
  /\ recv[s].conn # c /\ accept.conn # c
  /\ sock' = [sock EXCEPT ![<<s, c>>] = "closed"]
  /\ UNCHANGED <<apps, isClose, trigger, due, readers, held, maps, sess, loops, failed>>

-----------------------------------------------------------------------------
\* One operator per goroutine.
AcceptLoop    == Store \/ sendBrowserConnCreateEvent
Receiver(s)   == \/ ReceiveEnd(s)
                 \/ /\ s = "proxy"
                    /\ \/ clientReqHandler \/ clientConnCloseHandler
                       \/ clientConnCreateDoneHandler
                 \/ /\ s = "client"
                    /\ \/ proxyReqHandler \/ proxyCloseBrowserConnHandler
                       \/ proxyCreateBrowserConnHandler
Reader(s, c)  == Read(s, c) \/ SendReq(s, c) \/ ReadEnd(s, c)
Trigger(s, c) == \/ s = "proxy" /\ FireBrowser(c)
                 \/ s = "client" /\ (FireForward(c) \/ UnbindForward(c))
                 \/ Notify(s, c) \/ CloseAfter(s, c)
App(s, c)     == AppSend(s, c) \/ AppClose(s, c) \/ AppStall(s, c) \/ AppResume(s, c)

Next ==
  \/ Break \/ checkClientHB \/ sendHB \/ CloseListener \/ AcceptLoop
  \/ \E c \in Conns : Accept(c)
  \/ \E s \in Sides : Stop(s) \/ StopSess(s) \/ Receiver(s)
  \/ \E s \in Sides, c \in Conns :
        App(s, c) \/ Reader(s, c) \/ Trigger(s, c) \/ Finalize(s, c)

Spec == Init /\ [][Next]_vars

\* Every goroutine that can run does, a dial returns, and a read of a broken or
\* closed connection fails in the end; the heart beat's timer fires when beats are
\* missed for good, and its ticker goes on.  A write returns when the application
\* reads again and again.  Writes to the session are taken not to wait (chan has
\* no bound).  Nothing is assumed of the applications, of faults, or of the
\* garbage collector.
Fairness ==
  /\ WF_vars(AcceptLoop)
  /\ WF_vars(CloseListener /\ (stop["proxy"] \/ sessClose["proxy"]))
  /\ WF_vars(BeatsMissed /\ checkClientHB) /\ WF_vars(sendHB)
  /\ \A s \in Sides : WF_vars(Receiver(s)) /\ SF_vars(OnReqWrite(s)) /\ WF_vars(StopSess(s))
  /\ \A s \in Sides, c \in Conns : WF_vars(Reader(s, c)) /\ WF_vars(Trigger(s, c))

FairSpec == Spec /\ Fairness

-----------------------------------------------------------------------------
TypeOK ==
  /\ sent \in [Ends -> Nat] /\ taken \in [Ends -> Nat]
  /\ got \in [Ends -> Seq(Conns \X Nat)] /\ fin \in [Ends -> BOOLEAN]
  /\ stalled \in [Ends -> BOOLEAN]
  /\ sock \in [Ends -> {"none", "open", "closed"}] /\ isClose \in [Ends -> BOOLEAN]
  /\ trigger \in [Ends -> {"none", "armed", "unbind", "notify", "close", "done"}]
  /\ due \in [Ends -> BOOLEAN]
  /\ readers \in [Ends -> Nat] /\ held \in [Ends -> SUBSET Nat]
  /\ bind \in [Sides \X CIDs -> Conns \cup {None}]
  /\ cid \in [Conns -> 0 .. MaxCID] /\ seq \in 0 .. MaxCID
  /\ chan \in [Sides -> Seq([type : {"CREATE", "DONE", "REQ", "CLOSE"}, cid : CIDs,
                             conn : Conns \cup {None}, chunk : Nat])]
  /\ sessOpen \in [Sides -> BOOLEAN] /\ sessClose \in [Sides -> BOOLEAN]
  /\ stop \in [Sides -> BOOLEAN] /\ broken \in BOOLEAN
  /\ recv \in [Sides -> [pc : {"read", "end", "write", "unbind", "close", "dial", "refuse",
                               "arm", "done"}, conn : Conns \cup {None}, cid : 0 .. MaxCID]]
  /\ accept \in [pc : {"accept", "store", "create"}, conn : Conns \cup {None},
                 cid : 0 .. MaxCID]
  /\ listening \in BOOLEAN /\ failed \subseteq Conns

\* An application receives a prefix of what the other application of its own
\* connection sent, each piece once.
InOrder ==
  \A s \in Sides, c \in Conns :
    /\ Len(got[<<s, c>>]) <= sent[<<Other(s), c>>]
    /\ \A i \in 1 .. Len(got[<<s, c>>]) : got[<<s, c>>][i] = <<c, i>>

\* A browser receives only what the server sent on that browser's connection.
RightBrowser ==
  \A c \in Conns : \A i \in 1 .. Len(got[<<"proxy", c>>]) : got[<<"proxy", c>>][i][1] = c

\* A connection that nobody is closing can be reached: its number leads to it.
LiveIsBound ==
  \A s \in Sides, c \in Conns :
    /\ trigger[<<s, c>>] = "armed" /\ sock[<<s, c>>] = "open" /\ ~isClose[<<s, c>>]
    /\ ~(s = "proxy" /\ accept.pc = "store" /\ accept.conn = c)
    /\ recv[s].conn # c \/ recv[s].pc # "close"
    => bind[<<s, cid[c]>>] = c

\* An entry of forwardConnRID does not outlive the close handlers of its
\* connection.
ForwardUnbound ==
  \A c \in Conns, n \in CIDs :
    bind[<<"client", n>>] = c => trigger[<<"client", c>>] \notin {"notify", "close", "done"}

\* The same of browserConnRID, as the flow chart of the repository has it:
\* once the browser connection is closed its binding is gone.
BrowserUnbound ==
  \A c \in Conns, n \in CIDs : bind[<<"proxy", n>>] = c => trigger[<<"proxy", c>>] # "done"

\* The promise of the tunnel, see TunnelService.
Shut == [e \in Ends |-> sock[e] = "closed"]
Cut  == failed \cup (IF Up /\ listening /\ \A s \in Sides : ~stop[s] THEN {} ELSE Conns)

Service == INSTANCE TunnelService WITH shut <- Shut, cut <- Cut
Promise == Service!Spec

\* No application stops reading for ever.
ReadOn == \A e \in Ends : []<>~stalled[e]

\* When the applications go on reading: one that closes makes the tunnel close the
\* other's connection, unless that one closed too or was never made, though the
\* CLOSE waits behind whatever the receiver has to write to others.
CloseCrosses ==
  ReadOn => \A s \in Sides, c \in Conns :
    fin[<<s, c>>] ~> [](sock[<<Other(s), c>>] # "open" \/ fin[<<Other(s), c>>])

\* When the session is over, no application is left waiting on its connection, even
\* if a receiver waits for an application that never reads again.
SessionEndReleases ==
  \A s \in Sides, c \in Conns : ~Up ~> [](sock[<<s, c>>] # "open" \/ fin[<<s, c>>])

\* When the applications go on reading: while the session lasts and nobody closes,
\* what is sent arrives, however long another application keeps the receiver waiting.
DataFlows ==
  ReadOn => \A s \in Sides : \A c \in Conns, k \in 1 .. MaxChunks[s] :
    sent[<<s, c>>] >= k ~> \/ Len(got[<<Other(s), c>>]) >= k
                       \/ c \in Cut \/ \E t \in Sides : fin[<<t, c>>]
=============================================================================
