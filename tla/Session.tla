------------------------------- MODULE Session -------------------------------
(***************************************************************************)
(* How a client gets, keeps and gets back its session with the proxy: the  *)
(* dial, the hello exchange, the ports the proxy listens on for it, the    *)
(* heart beat, the restart after a refusal, a silence or a loss, and the   *)
(* change of clients when the ini file is edited.  Of the clients that a   *)
(* file asks for, one is followed.                                         *)
(*                                                                         *)
(* Each dial takes a link.  An old link may linger while the client, or    *)
(* its successor, is already on a new one: the proxy holds the old link's  *)
(* ports until it finds out, by an end of file or by its heart beat timer. *)
(*                                                                         *)
(* Time passes in Ticks.  A working link delivers within Delay ticks, and  *)
(* no tick passes while a fired timer or a running handler still has a     *)
(* step to take.                                                           *)
(***************************************************************************)
EXTENDS Integers, Sequences, Mapping

CONSTANTS Links,        \* slots for connections; a slot that is over is used again
          NoLink,       \* p.proxyConn is nil
          Files,        \* what the ini file may hold
          NoFile,       \* nothing that can be loaded
          Aliens,       \* ports that other programs on the proxy's host may hold
          HelloWait,    \* wait_server_hello_time_sec
          RestartWait,  \* restart_interval
          HBInterval,   \* the client's hb_interval_sec
          HBTimeout,    \* the proxy's hb_interval_sec
          Delay,        \* a message on a working link arrives within so many ticks
          MaxBreaks,    \* bound: links that go silent and listeners that fail
          MaxEdits      \* bound: edits of the ini files

ASSUME LinkAssumption == Links \subseteq Nat /\ NoLink \notin Links

\* A file holds the mappings and, as one value, the other settings.
Names == UNION {Ports(Mappings(f.mapping)) : f \in Files}

ASSUME FileAssumption == NoFile \notin Files /\ Aliens \subseteq SUBSET Names
ASSUME TimeAssumption ==
  /\ HelloWait \in Nat /\ RestartWait \in Nat /\ Delay \in Nat /\ HBTimeout \in Nat
  /\ HBInterval \in Nat /\ MaxBreaks \in Nat /\ MaxEdits \in Nat
  /\ Delay < HBInterval
  /\ HBInterval + Delay < HBTimeout
  /\ HelloWait + Delay < HBTimeout

VARIABLES
  file,     \* the ini file of the client
  loaded,   \* the Config as last loaded
  edits,    \* edits of the ini files so far
  phase,    \* the client: none, waiting in Restart, dialing, hello, up
  port,     \* its ClientWannaProxyPort
  cur,      \* its proxyConn
  timer,    \* what is left of Restart's wait, the hello wait or the ticker
  old,      \* the links of clients that are being destroyed
  late,     \* per port: the clients being destroyed whose dials are still out
  client,   \* per link: the client's end
  proxy,    \* per link: the proxy's end
  silent,   \* the links that lose everything without telling either end
  age,      \* per link and kind of message: ticks in flight, Idle if none is
  asked,    \* per link: the port of the hello
  verdict,  \* per link: what the proxy's answer says
  serving,  \* per link: clientHelloHandler runs
  lis,      \* per link: the browser listener, on the port that was asked for
  left,     \* per link: what is left of hbTimer
  alien,    \* the ports that other programs on the proxy's host hold
  breaks    \* links that went silent and listeners that failed so far

config == <<file, loaded, edits>>
owner  == <<port, cur, old, late>>
mail   == <<asked, verdict>>
server == <<serving, lis, left>>
world  == <<silent, alien, breaks>>
vars   == <<config, owner, phase, timer, client, proxy, age, mail, server, world>>

Idle  == -1
Kinds == {"hello", "answer", "beat"}
Quiet == [k \in Kinds |-> Idle]
None  == "none"

Works(l) == client[l] = "open" /\ l \notin silent

\* A message is written: on a link that is silent or closed it is lost.
Sent(l, k) ==
  age' = IF Works(l) /\ proxy[l] # "closed" THEN [age EXCEPT ![l][k] = 0] ELSE age

Wanted(f) == IF f = NoFile THEN {} ELSE Ports(Mappings(f.mapping))

Init ==
  /\ file \in Files /\ loaded = NoFile /\ edits = 0
  /\ phase = "none" /\ port = None /\ cur = NoLink /\ timer = 0
  /\ old = {} /\ late = [n \in Names |-> 0]
  /\ client = [l \in Links |-> "closed"]
  /\ proxy  = [l \in Links |-> "closed"]
  /\ silent = {} /\ breaks = 0
  /\ age = [l \in Links |-> Quiet]
  /\ asked = [l \in Links |-> None]
  /\ verdict = [l \in Links |-> "ok"]
  /\ serving = [l \in Links |-> FALSE]
  /\ lis = [l \in Links |-> "none"]
  /\ left = [l \in Links |-> 0]
  /\ alien \in Aliens

-----------------------------------------------------------------------------
\* The client program.

\* load: what the file holds becomes the Config; the handler runs when that
\* makes a difference, and always the first time.
Same == loaded # NoFile /\ file.rest = loaded.rest
        /\ ~Diff(Mappings(file.mapping), Mappings(loaded.mapping))

\* The update handler: the clients so far are being destroyed and a new one is
\* started for each mapping.
Replace ==
  /\ old' = {l \in Links : client[l] = "open"}
  /\ late' = IF phase = "dialing" THEN [late EXCEPT ![port] = @ + 1] ELSE late
  /\ cur' = NoLink
  /\ \/ Wanted(file) = {} /\ phase' = "none" /\ UNCHANGED port
     \/ phase' = "dialing" /\ port' \in Wanted(file)

Poll ==
  /\ file # NoFile
  /\ loaded' = file
  /\ IF Same THEN UNCHANGED <<owner, phase>> ELSE Replace
  /\ UNCHANGED <<file, edits, timer, client, proxy, age, mail, server, world>>

\* The stop signal of a destroyed client closes its connection.
DestroyOld(l) ==
  /\ l \in old
  /\ old' = old \ {l}
  /\ client' = [client EXCEPT ![l] = "closed"]
  /\ UNCHANGED <<config, port, cur, late, phase, timer, proxy, age, mail, server, world>>

\* p.Restart(): the stop event closes the connection, the wait begins.
Restart(l) ==
  /\ phase' = "waiting" /\ timer' = RestartWait
  /\ client' = [client EXCEPT ![l] = "closed"]

\* The wait of Restart is over: the start event, and listenProxy dials.
StartAgain ==
  /\ phase = "waiting" /\ timer = 0
  /\ phase' = "dialing"
  /\ UNCHANGED <<config, owner, timer, client, proxy, age, mail, server, world>>

DialFails ==
  /\ phase = "dialing"
  /\ phase' = "waiting" /\ timer' = RestartWait
  /\ UNCHANGED <<config, owner, client, proxy, age, mail, server, world>>

\* The port of a link is bound, by a listener that may have failed.
Bound(l) == lis[l] \in {"open", "failed"}

Over(l) == client[l] = "closed" /\ proxy[l] = "closed" /\ ~Bound(l) /\ ~serving[l]

\* A dial returns and its hello is written.
Dialed(l, wants) ==
  /\ Over(l) /\ \A k \in Links : k < l => ~Over(k)
  /\ client' = [client EXCEPT ![l] = "open"]
  /\ proxy'  = [proxy EXCEPT ![l] = "pending"]
  /\ silent' = silent \ {l}
  /\ age' = [age EXCEPT ![l] = [Quiet EXCEPT !["hello"] = 0]]
  /\ asked' = [asked EXCEPT ![l] = wants]
  /\ lis' = [lis EXCEPT ![l] = "none"]
  /\ UNCHANGED <<config, port, verdict, serving, left, alien, breaks>>

\* The wait for the answer begins with the hello.
Connect(l) ==
  /\ phase = "dialing"
  /\ phase' = "hello" /\ cur' = l /\ timer' = HelloWait
  /\ Dialed(l, port)
  /\ UNCHANGED <<old, late>>

\* The dial of a destroyed client returns: listenProxy does not look at the
\* destroy signal before it says hello; the stop signal then closes the link.
LateDial(l) ==
  /\ \E n \in Names :
       /\ late[n] > 0
       /\ late' = [late EXCEPT ![n] = @ - 1]
       /\ Dialed(l, n)
  /\ old' = old \cup {l}
  /\ UNCHANGED <<cur, phase, timer>>

\* No answer within the hello wait.
HelloTimeout ==
  /\ phase = "hello" /\ timer = 0
  /\ Restart(cur)
  /\ UNCHANGED <<config, owner, proxy, age, mail, server, world>>

\* Variant: the error code and the port of the answer are not looked at.
HelloUnchecked(l) ==
  /\ phase = "hello" /\ l = cur /\ age[l]["answer"] # Idle
  /\ phase' = "up" /\ timer' = HBInterval
  /\ age' = [age EXCEPT ![l]["answer"] = Idle, ![l]["beat"] = 0]
  /\ UNCHANGED <<config, owner, client, proxy, mail, server, world>>

\* The answer of the proxy: an error code or a port that is not the wanted one
\* restarts the client; otherwise hb() begins with a first heart beat.
proxyHelloHandler(l) ==
  /\ phase = "hello" /\ l = cur /\ age[l]["answer"] # Idle
  /\ \/ /\ verdict[l] = "refused"
        /\ Restart(l)
        /\ age' = [age EXCEPT ![l]["answer"] = Idle]
     \/ /\ verdict[l] = "ok"
        /\ phase' = "up" /\ timer' = HBInterval
        /\ age' = [age EXCEPT ![l]["answer"] = Idle,
                              ![l]["beat"] = IF proxy[l] = "open" THEN 0 ELSE Idle]
        /\ UNCHANGED client
  /\ UNCHANGED <<config, owner, proxy, mail, server, world>>

\* The ticker of hb().
sendHB ==
  /\ phase = "up" /\ timer = 0
  /\ timer' = HBInterval
  /\ Sent(cur, "beat")
  /\ UNCHANGED <<config, owner, phase, client, proxy, mail, server, world>>

\* A read or write of the client fails: its self close handler restarts it.
LoseLink(l) ==
  /\ phase \in {"hello", "up"} /\ l = cur
  /\ proxy[l] = "closed" \/ l \in silent
  /\ Restart(l)
  /\ UNCHANGED <<config, owner, proxy, age, mail, server, world>>

-----------------------------------------------------------------------------
\* The proxy.

\* The accepted connection gets its heart beat timer at once.
Accept(l) ==
  /\ proxy[l] = "pending"
  /\ proxy' = [proxy EXCEPT ![l] = "open"]
  /\ left' = [left EXCEPT ![l] = HBTimeout]
  /\ UNCHANGED <<config, owner, phase, timer, client, age, mail, serving, lis, world>>

\* The receiver dispatches a client hello.  Its loop over the asked ports has
\* one round: the parser splits the mapping at commas, so a port holds none.
clientHelloHandler(l) ==
  /\ proxy[l] = "open" /\ age[l]["hello"] # Idle
  /\ age' = [age EXCEPT ![l]["hello"] = Idle]
  /\ serving' = [serving EXCEPT ![l] = TRUE]
  /\ UNCHANGED <<config, owner, phase, timer, client, proxy, mail, lis, left, world>>

sayHello(l, v) ==
  /\ verdict' = [verdict EXCEPT ![l] = v]
  /\ Sent(l, "answer")
  /\ serving' = [serving EXCEPT ![l] = FALSE]

Taken == alien \cup {asked[l] : l \in {k \in Links : Bound(k)}}

\* Variant: the error of net.Listen is only logged.
listenBrowserLogs(l) ==
  /\ serving[l]
  /\ lis' = IF asked[l] \in Taken THEN lis ELSE [lis EXCEPT ![l] = "open"]
  /\ sayHello(l, "ok")
  /\ UNCHANGED <<config, owner, phase, timer, client, proxy, asked, left, world>>

\* The port is bound and the client told so, or refused.
listenBrowser(l) ==
  /\ serving[l]
  /\ \/ asked[l] \in Taken /\ sayHello(l, "refused") /\ UNCHANGED lis
     \/ /\ asked[l] \notin Taken
        /\ lis' = [lis EXCEPT ![l] = "open"]
        /\ sayHello(l, "ok")
  /\ UNCHANGED <<config, owner, phase, timer, client, proxy, asked, left, world>>

\* Variant: a heart beat does not set the timer back.
HBIgnored(l) ==
  /\ proxy[l] = "open" /\ age[l]["beat"] # Idle
  /\ age' = [age EXCEPT ![l]["beat"] = Idle]
  /\ UNCHANGED <<config, owner, phase, timer, client, proxy, mail, server, world>>

\* Variant: a heart beat lengthens what is left of the timer.
HBAdds(l) ==
  /\ proxy[l] = "open" /\ age[l]["beat"] # Idle
  /\ age' = [age EXCEPT ![l]["beat"] = Idle]
  /\ left' = [left EXCEPT ![l] = @ + HBTimeout]
  /\ UNCHANGED <<config, owner, phase, timer, client, proxy, mail, serving, lis, world>>

\* The heart beat timer is reset.
clientHBHandler(l) ==
  /\ proxy[l] = "open" /\ age[l]["beat"] # Idle
  /\ age' = [age EXCEPT ![l]["beat"] = Idle]
  /\ left' = [left EXCEPT ![l] = HBTimeout]
  /\ UNCHANGED <<config, owner, phase, timer, client, proxy, mail, serving, lis, world>>

\* Variant: the heart beat timer only logs.
HBTimerLogs(l) ==
  /\ proxy[l] = "open" /\ left[l] = 0
  /\ left' = [left EXCEPT ![l] = HBTimeout]
  /\ UNCHANGED <<config, owner, phase, timer, client, proxy, age, mail, serving, lis, world>>

\* The timer of the link fires: the proxy closes it.
checkClientHB(l) ==
  /\ proxy[l] = "open" /\ left[l] = 0
  /\ proxy' = [proxy EXCEPT ![l] = "closed"]
  /\ UNCHANGED <<config, owner, phase, timer, client, age, mail, server, world>>

\* The proxy's read fails: the client's end is closed, or the link is silent
\* and the operating system found out.
ReadFails(l) ==
  /\ proxy[l] = "open" /\ (client[l] = "closed" \/ l \in silent)
  /\ proxy' = [proxy EXCEPT ![l] = "closed"]
  /\ UNCHANGED <<config, owner, phase, timer, client, age, mail, server, world>>

\* The close signal of the link closes the browser listener.
CloseListeners(l) ==
  /\ proxy[l] = "closed" /\ lis[l] = "open"
  /\ lis' = [lis EXCEPT ![l] = "none"]
  /\ UNCHANGED <<config, owner, phase, timer, client, proxy, age, mail, serving, left, world>>

\* Accept of a browser listener fails: its own signal comes first, its handler
\* only logs and the loop ends.  Nobody accepts browsers any more, nobody closes
\* the socket, and the client is not told.
AcceptFails(l) ==
  /\ lis[l] = "open" /\ breaks < MaxBreaks
  /\ lis' = [lis EXCEPT ![l] = "failed"] /\ breaks' = breaks + 1
  /\ UNCHANGED <<config, owner, phase, timer, client, proxy, age, mail, serving, left,
                 silent, alien>>

\* The garbage collector closes the socket of a listener that nobody holds.
Finalize(l) ==
  /\ lis[l] = "failed"
  /\ lis' = [lis EXCEPT ![l] = "gone"]
  /\ UNCHANGED <<config, owner, phase, timer, client, proxy, age, mail, serving, left, world>>

-----------------------------------------------------------------------------
\* The world.

\* Somebody writes the client's file.
EditFile(f) ==
  /\ edits < MaxEdits /\ f # file
  /\ file' = f /\ edits' = edits + 1
  /\ UNCHANGED <<loaded, owner, phase, timer, client, proxy, age, mail, server, world>>

\* The proxy's file is edited: its handler destroys the proxy, which closes every
\* link, and starts another with the new settings.
ProxyReplaced ==
  /\ edits < MaxEdits
  /\ edits' = edits + 1
  /\ proxy' = [l \in Links |-> "closed"]
  /\ UNCHANGED <<file, loaded, owner, phase, timer, client, age, mail, server, world>>

Break(l) ==
  /\ Works(l) /\ proxy[l] # "closed" /\ breaks < MaxBreaks
  /\ silent' = silent \cup {l} /\ breaks' = breaks + 1
  /\ age' = [age EXCEPT ![l] = Quiet]
  /\ UNCHANGED <<config, owner, phase, timer, client, proxy, mail, server, alien>>

AlienLeaves ==
  /\ alien # {}
  /\ alien' = {}
  /\ UNCHANGED <<config, owner, phase, timer, client, proxy, age, mail, server, silent,
                 breaks>>

Timed == phase \in {"waiting", "hello", "up"}

Tick ==
  /\ Timed => timer > 0
  /\ old = {}
  /\ \A l \in Links :
       /\ ~serving[l]
       /\ proxy[l] = "open" => left[l] > 0
       /\ proxy[l] = "closed" => lis[l] # "open"
       /\ Works(l) /\ proxy[l] # "closed" => \A k \in Kinds : age[l][k] < Delay
  /\ timer' = IF Timed THEN timer - 1 ELSE timer
  /\ left' = [l \in Links |-> IF proxy[l] = "open" THEN left[l] - 1 ELSE left[l]]
  /\ age' = [l \in Links |-> [k \in Kinds |->
               IF age[l][k] = Idle \/ age[l][k] = Delay THEN age[l][k] ELSE age[l][k] + 1]]
  /\ UNCHANGED <<config, owner, phase, client, proxy, mail, serving, lis, world>>

-----------------------------------------------------------------------------
Client(l) == Connect(l) \/ LateDial(l) \/ proxyHelloHandler(l) \/ LoseLink(l)
             \/ DestroyOld(l)
Proxy(l)  == \/ Accept(l) \/ clientHelloHandler(l) \/ listenBrowser(l)
             \/ clientHBHandler(l) \/ checkClientHB(l) \/ CloseListeners(l)

Next ==
  \/ Poll \/ StartAgain \/ DialFails \/ HelloTimeout \/ sendHB
  \/ ProxyReplaced \/ AlienLeaves \/ Tick
  \/ \E f \in Files \cup {NoFile} : EditFile(f)
  \/ \E l \in Links : \/ Client(l) \/ Proxy(l) \/ ReadFails(l) \/ Break(l)
                     \/ AcceptFails(l) \/ Finalize(l)

Spec == Init /\ [][Next]_vars

\* Time passes; goroutines that can run do; a dial that is tried again and again
\* succeeds at last, and so does an acceptance that arrives again and again just
\* as the hello wait ends (no link is that slow for ever); a closed end is seen on
\* a link that works, and the client's operating system gives up a silent one
\* (retransmission, keep-alive).  Nothing but the heart beat timer tells the proxy
\* of a silent link.  The Go runtime collects garbage at least every two minutes.
Fairness ==
  /\ WF_vars(Poll) /\ WF_vars(StartAgain) /\ WF_vars(HelloTimeout) /\ WF_vars(sendHB)
  /\ WF_vars(AlienLeaves) /\ WF_vars(Tick)
  /\ SF_vars(\E l \in Links : Connect(l))
  /\ SF_vars(\E l \in Links : verdict[l] = "ok" /\ proxyHelloHandler(l))
  /\ \A l \in Links :
       /\ WF_vars(proxyHelloHandler(l)) /\ WF_vars(LoseLink(l)) /\ WF_vars(DestroyOld(l))
       /\ WF_vars(Proxy(l)) /\ WF_vars(l \notin silent /\ ReadFails(l))
       /\ WF_vars(Finalize(l))

FairSpec == Spec /\ Fairness

-----------------------------------------------------------------------------
TypeOK ==
  /\ file \in Files \cup {NoFile} /\ loaded \in Files \cup {NoFile} /\ edits \in 0 .. MaxEdits
  /\ phase \in {"none", "waiting", "dialing", "hello", "up"}
  /\ port \in Names \cup {None} /\ late \in [Names -> Nat]
  /\ cur \in Links \cup {NoLink} /\ old \subseteq Links
  /\ timer \in Nat
  /\ client \in [Links -> {"open", "closed"}]
  /\ proxy \in [Links -> {"pending", "open", "closed"}]
  /\ silent \subseteq Links
  /\ age \in [Links -> [Kinds -> Idle .. Delay]]
  /\ asked \in [Links -> Names \cup {None}]
  /\ verdict \in [Links -> {"ok", "refused"}]
  /\ serving \in [Links -> BOOLEAN]
  /\ lis \in [Links -> {"none", "open", "failed", "gone"}]
  /\ left \in [Links -> 0 .. HBTimeout]
  /\ alien \subseteq Names
  /\ breaks \in 0 .. MaxBreaks

\* The proxy's heart beat timer never fires on a link that works: the hello
\* exchange is over, or the next heart beat is in, before fifteen seconds are.
LivePeerKept == \A l \in Links : proxy[l] = "open" /\ left[l] = 0 => ~Works(l)

\* The proxy has listened for the link, and gave it up only when Accept failed.
Listened(l) == lis[l] # "none"

\* A client that takes itself for accepted has been given the port it asks for,
\* and the proxy, as long as it keeps the link, gives the listener up only when
\* its Accept fails: never for a refusal, a late answer or another client.
UpIsListening ==
  phase = "up" /\ proxy[cur] = "open" => asked[cur] = port /\ Listened(cur)

\* What the client program was last able to read.
Shown == IF file = NoFile THEN loaded ELSE file

\* Once links stop breaking, the files stay as they are and the ports are free,
\* the client that the file asks for is served and stays so: no refusal, silence,
\* lingering link or late dial of its own or of its predecessor shuts it out.  What
\* the code does not repair is a listener whose Accept failed on its last link.
Served ==
  <>[](IF Wanted(Shown) = {}
       THEN phase = "none"
       ELSE phase = "up" /\ port \in Wanted(Shown) /\ proxy[cur] = "open"
            /\ Listened(cur))

\* The port of a link that the client has left becomes free, also when the
\* proxy was never told, when a hello is handled after the client left and when
\* the listener had failed.
PortsReleased == \A l \in Links : client[l] = "closed" ~> ~Bound(l)
=============================================================================
