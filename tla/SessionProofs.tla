---------------------------- MODULE SessionProofs ----------------------------
(***************************************************************************)
(* For every number of links, every waiting time and every content of the  *)
(* ini file: the proxy's heart beat timer never fires on a link that       *)
(* works, and a client that takes itself for accepted was given its port.  *)
(* The last part is about the client's mappings and their difference.      *)
(*                                                                         *)
(* The heart beat needs an account of time: while a heart beat is in       *)
(* flight, what is left of the proxy's timer and the age of the heart beat *)
(* together exceed the delay; while none is, the timer outlasts the        *)
(* client's ticker by more than the delay.                                 *)
(***************************************************************************)
EXTENDS Session, FiniteSetTheorems, TLAPS

HasLink == phase \in {"hello", "up"}

\* The client program: whose ends are open, and what the client waits for.
Ends ==
  /\ phase # "none" => port \in Names
  /\ \A l \in Links : client[l] = "open" => l \in old \/ (l = cur /\ HasLink)
  /\ \A l \in old : client[l] = "open"
  /\ HasLink => cur \in Links \ old /\ client[cur] = "open" /\ asked[cur] = port
  /\ phase = "hello" => timer <= HelloWait
  /\ phase = "up" => timer <= HBInterval

\* A link's hello: what it asks for, and that "ok" is said of a listener.
Hello(l) ==
  /\ age[l]["hello"] # Idle \/ serving[l] = TRUE => asked[l] \in Names
  /\ proxy[l] = "pending" =>
       serving[l] = FALSE /\ age[l]["answer"] = Idle /\ ~(l = cur /\ phase = "up")
  /\ proxy[l] = "open" =>
       /\ age[l]["answer"] # Idle /\ verdict[l] = "ok" => Listened(l)
       /\ l = cur /\ phase = "up" => Listened(l)

\* A link's heart beat: how much is left of the proxy's timer.
Beat(l) ==
  proxy[l] = "open" /\ Works(l) =>
    /\ left[l] > 0
    /\ l = cur /\ phase = "hello" => left[l] + HelloWait >= timer + HBTimeout
    /\ l = cur /\ phase = "up" =>
         IF age[l]["beat"] = Idle
         THEN left[l] > timer + Delay
         ELSE left[l] + age[l]["beat"] > Delay /\ timer + age[l]["beat"] = HBInterval

Inv == TypeOK /\ Ends /\ \A l \in Links : Hello(l) /\ Beat(l)

-----------------------------------------------------------------------------
\* What the ini file can ask for.
LEMMA WantedNames == ASSUME NEW f \in Files \cup {NoFile} PROVE Wanted(f) \subseteq Names
BY DEF Wanted, Names

LEMMA InitInv == Init => Inv
<1> SUFFICES ASSUME Init PROVE Inv
  OBVIOUS
<1> USE TimeAssumption, LinkAssumption DEF Init
<1>1. TypeOK
  <2>1. alien \subseteq Names
    BY FileAssumption
  <2> QED  BY <2>1 DEF TypeOK, Quiet, Idle, Kinds
<1>2. Ends
  BY DEF Ends, HasLink
<1>3. ASSUME NEW l \in Links PROVE Hello(l) /\ Beat(l)
  BY DEF Hello, Beat, Quiet, Idle, Kinds
<1> QED  BY <1>1, <1>2, <1>3 DEF Inv

-----------------------------------------------------------------------------
\* The handler answers with a refusal, or it binds the port and accepts.
LEMMA ListenCases ==
  ASSUME NEW l \in Links, listenBrowser(l)
  PROVE  /\ serving[l]
         /\ \/ sayHello(l, "refused") /\ lis' = lis
            \/ sayHello(l, "ok") /\ lis' = [lis EXCEPT ![l] = "open"]
BY DEF listenBrowser

-----------------------------------------------------------------------------
\* The variables stay in their types.
LEMMA TypeClient ==
  ASSUME Inv,
         \/ Poll \/ StartAgain \/ DialFails \/ HelloTimeout \/ sendHB
         \/ \E l \in Links : Client(l)
  PROVE  TypeOK'
<1> USE TimeAssumption, LinkAssumption
    DEF Inv, TypeOK, config, owner, mail, server, world, Idle, Kinds
<1>1. CASE Poll
  <2>1. Wanted(file) \subseteq Names
    BY WantedNames
  <2>2. loaded' \in Files \cup {NoFile}
    BY <1>1 DEF Poll
  <2>3. late' \in [Names -> Nat]
    BY <1>1 DEF Poll, Replace
  <2>4. /\ phase' \in {"none", "waiting", "dialing", "hello", "up"}
        /\ port' \in Names \cup {None}
        /\ cur' \in Links \cup {NoLink} /\ old' \subseteq Links
    BY <1>1, <2>1 DEF Poll, Replace
  <2>5. UNCHANGED <<file, edits, timer, client, proxy, age, mail, server, world>>
    BY <1>1 DEF Poll
  <2> QED  BY <2>2, <2>3, <2>4, <2>5
<1>2. CASE StartAgain \/ DialFails
  BY <1>2 DEF StartAgain, DialFails
<1>3. CASE HelloTimeout
  BY <1>3 DEF HelloTimeout, Restart
<1>4. CASE sendHB
  BY <1>4 DEF sendHB, Sent, Ends, HasLink
<1>5. ASSUME NEW l \in Links, Connect(l) \/ LateDial(l) PROVE TypeOK'
  <2>1. PICK wants \in Names : Dialed(l, wants)
    BY <1>5 DEF Connect, LateDial, Ends
  <2>2. age' \in [Links -> [Kinds -> Idle .. Delay]]
    BY <2>1 DEF Dialed, Quiet
  <2>3. /\ client' \in [Links -> {"open", "closed"}]
        /\ proxy' \in [Links -> {"pending", "open", "closed"}]
        /\ asked' \in [Links -> Names \cup {None}]
        /\ silent' \subseteq Links
        /\ lis' \in [Links -> {"none", "open", "failed", "gone"}]
        /\ UNCHANGED <<config, port, verdict, serving, left, alien, breaks>>
    BY <2>1 DEF Dialed
  <2>4. cur' \in Links \cup {NoLink} /\ old' \subseteq Links /\ timer' \in Nat
        /\ phase' \in {"none", "waiting", "dialing", "hello", "up"}
    BY <1>5 DEF Connect, LateDial
  <2>5. late' \in [Names -> Nat]
    BY <1>5 DEF Connect, LateDial
  <2> QED  BY <2>2, <2>3, <2>4, <2>5
<1>6. ASSUME NEW l \in Links, proxyHelloHandler(l) PROVE TypeOK'
  BY <1>6 DEF proxyHelloHandler, Restart
<1>7. ASSUME NEW l \in Links, LoseLink(l) \/ DestroyOld(l) PROVE TypeOK'
  BY <1>7 DEF LoseLink, DestroyOld, Restart
<1> QED  BY <1>1, <1>2, <1>3, <1>4, <1>5, <1>6, <1>7 DEF Client, Connect, LateDial

LEMMA TypeProxy ==
  ASSUME Inv, NEW l \in Links, Proxy(l) \/ ReadFails(l) PROVE TypeOK'
<1> USE TimeAssumption, LinkAssumption
    DEF Inv, TypeOK, config, owner, mail, server, world, Idle, Kinds
<1>1. CASE Accept(l)
  BY <1>1 DEF Accept
<1>5. CASE clientHBHandler(l)
  BY <1>5 DEF clientHBHandler
<1>2. CASE clientHelloHandler(l)
  BY <1>2 DEF clientHelloHandler
<1>3. CASE listenBrowser(l)
  <2>1. PICK v \in {"ok", "refused"} : sayHello(l, v)
    BY <1>3, ListenCases
  <2>2. verdict' \in [Links -> {"ok", "refused"}] /\ serving' \in [Links -> BOOLEAN]
    BY <2>1 DEF sayHello
  <2>3. age' \in [Links -> [Kinds -> Idle .. Delay]]
    BY <2>1 DEF sayHello, Sent
  <2>4. lis' \in [Links -> {"none", "open", "failed", "gone"}]
    BY <1>3, ListenCases
  <2> QED  BY <1>3, <2>2, <2>3, <2>4 DEF listenBrowser
<1>4. CASE checkClientHB(l) \/ ReadFails(l) \/ CloseListeners(l)
  BY <1>4 DEF checkClientHB, ReadFails, CloseListeners
<1> QED  BY <1>1, <1>2, <1>3, <1>4, <1>5 DEF Proxy

LEMMA TypeWorld ==
  ASSUME Inv,
         \/ ProxyReplaced \/ AlienLeaves \/ Tick
         \/ \E f \in Files \cup {NoFile} : EditFile(f)
         \/ \E l \in Links : Break(l) \/ AcceptFails(l) \/ Finalize(l)
  PROVE  TypeOK'
<1> USE TimeAssumption, LinkAssumption
    DEF Inv, TypeOK, config, owner, mail, server, world, Idle, Kinds
<1>1. CASE ProxyReplaced
  BY <1>1 DEF ProxyReplaced
<1>5. CASE AlienLeaves
  BY <1>5 DEF AlienLeaves
<1>2. CASE Tick
  BY <1>2 DEF Tick, Timed
<1>3. CASE \E f \in Files \cup {NoFile} : EditFile(f)
  BY <1>3 DEF EditFile
<1>4. ASSUME NEW l \in Links, Break(l) PROVE TypeOK'
  BY <1>4 DEF Break, Quiet
<1>6. ASSUME NEW l \in Links, AcceptFails(l) PROVE TypeOK'
  BY <1>6 DEF AcceptFails
<1>7. ASSUME NEW l \in Links, Finalize(l) PROVE TypeOK'
  BY <1>7 DEF Finalize
<1> QED  BY <1>1, <1>2, <1>3, <1>4, <1>5, <1>6, <1>7

-----------------------------------------------------------------------------
\* Whose ends are open: the proxy and the world change neither an open end of a
\* client nor what it waits for.
LEMMA EndsFrame ==
  ASSUME Inv, UNCHANGED <<phase, port, client, old, cur, asked>>,
         timer' = timer \/ (timer > 0 /\ timer' = timer - 1)
  PROVE  Ends'
<1> QED  BY TimeAssumption DEF Inv, TypeOK, Ends, HasLink

LEMMA EndsOthers ==
  ASSUME Inv,
         \/ \E l \in Links : \/ Proxy(l) \/ ReadFails(l) \/ Break(l)
                            \/ AcceptFails(l) \/ Finalize(l)
         \/ \E f \in Files \cup {NoFile} : EditFile(f)
         \/ ProxyReplaced \/ AlienLeaves \/ Tick
  PROVE  Ends'
<1> USE DEF owner, mail, server, world, config
<1>1. ASSUME NEW l \in Links,
             Proxy(l) \/ ReadFails(l) \/ Break(l) \/ AcceptFails(l) \/ Finalize(l)
      PROVE  Ends'
  BY <1>1, EndsFrame
     DEF Proxy, Accept, clientHelloHandler, listenBrowser, clientHBHandler,
         checkClientHB, CloseListeners, ReadFails, Break, AcceptFails, Finalize
<1>2. CASE \E f \in Files \cup {NoFile} : EditFile(f)
  BY <1>2, EndsFrame DEF EditFile
<1>3. CASE ProxyReplaced \/ AlienLeaves
  BY <1>3, EndsFrame DEF ProxyReplaced, AlienLeaves
<1>4. CASE Tick
  BY <1>4, EndsFrame DEF Tick, Timed
<1> QED  BY <1>1, <1>2, <1>3, <1>4

LEMMA EndsClient ==
  ASSUME Inv,
         \/ Poll \/ StartAgain \/ DialFails \/ HelloTimeout \/ sendHB
         \/ \E l \in Links : Client(l)
  PROVE  Ends'
<1> USE TimeAssumption, LinkAssumption
    DEF Inv, TypeOK, Ends, HasLink, config, owner, mail, server, world
<1>1. CASE Poll
  <2>1. Wanted(file) \subseteq Names
    BY WantedNames
  <2> QED  BY <1>1, <2>1 DEF Poll, Replace
<1>2. CASE StartAgain \/ DialFails
  BY <1>2 DEF StartAgain, DialFails
<1>3. CASE HelloTimeout
  BY <1>3 DEF HelloTimeout, Restart
<1>4. CASE sendHB
  BY <1>4 DEF sendHB
<1>5. ASSUME NEW l \in Links, Connect(l) PROVE Ends'
  BY <1>5 DEF Connect, Dialed, Over
<1>6. ASSUME NEW l \in Links, LateDial(l) PROVE Ends'
  BY <1>6 DEF LateDial, Dialed, Over
<1>7. ASSUME NEW l \in Links, proxyHelloHandler(l) PROVE Ends'
  BY <1>7 DEF proxyHelloHandler, Restart
<1>8. ASSUME NEW l \in Links, LoseLink(l) PROVE Ends'
  BY <1>8 DEF LoseLink, Restart
<1>9. ASSUME NEW l \in Links, DestroyOld(l) PROVE Ends'
  BY <1>9 DEF DestroyOld
<1> QED  BY <1>1, <1>2, <1>3, <1>4, <1>5, <1>6, <1>7, <1>8, <1>9 DEF Client
-----------------------------------------------------------------------------
\* A link on which nothing happens but that messages are lost or get older.
Still(k) ==
  /\ \A m \in {"hello", "answer"} : age[k][m] = Idle => age'[k][m] = Idle
  /\ serving'[k] = serving[k] /\ asked'[k] = asked[k] /\ verdict'[k] = verdict[k]
  /\ proxy'[k] \in {proxy[k], "closed"}
  /\ proxy'[k] = "open" /\ Listened(k) => Listened(k)'
  /\ k = cur' /\ phase' = "up" => k = cur /\ phase = "up"

LEMMA HelloStill ==
  ASSUME Inv, NEW k \in Links, Still(k) PROVE Hello(k)'
<1>1. Hello(k) /\ proxy[k] \in {"pending", "open", "closed"}
  BY DEF Inv, TypeOK
<1> QED  BY <1>1 DEF Still, Hello

LEMMA HelloClient ==
  ASSUME Inv, NEW k \in Links,
         \/ Poll \/ StartAgain \/ DialFails \/ HelloTimeout \/ sendHB
         \/ \E l \in Links : Client(l)
  PROVE  Hello(k)'
<1> USE LinkAssumption DEF Inv, TypeOK, config, owner, mail, server, world
<1>1. CASE Poll
  BY <1>1, HelloStill DEF Poll, Replace, Still, Listened
<1>2. CASE StartAgain \/ DialFails
  BY <1>2, HelloStill DEF StartAgain, DialFails, Still, Listened
<1>3. CASE HelloTimeout
  BY <1>3, HelloStill DEF HelloTimeout, Restart, Still, Listened
<1>4. CASE sendHB
  BY <1>4, HelloStill DEF sendHB, Sent, Still, Listened, Kinds
<1>5. ASSUME NEW l \in Links, Connect(l) \/ LateDial(l) PROVE Hello(k)'
  <2>1. PICK wants \in Names : Dialed(l, wants)
    BY <1>5 DEF Connect, LateDial, Ends
  <2>2. CASE k = l
    <3>1. asked'[k] \in Names /\ serving'[k] = FALSE /\ age'[k]["answer"] = Idle /\ proxy'[k] = "pending"
      BY <2>1, <2>2 DEF Dialed, Over, Quiet, Kinds
    <3>2. ~(k = cur' /\ phase' = "up")
      BY <1>5, <2>1, <2>2 DEF Connect, LateDial, Dialed, Over, Ends, HasLink
    <3> QED  BY <3>1, <3>2 DEF Hello
  <2>3. CASE k # l
    <3>1. /\ age'[k] = age[k] /\ serving'[k] = serving[k] /\ asked'[k] = asked[k]
          /\ verdict'[k] = verdict[k] /\ proxy'[k] = proxy[k] /\ lis'[k] = lis[k]
      BY <2>1, <2>3 DEF Dialed
    <3>2. k = cur' /\ phase' = "up" => k = cur /\ phase = "up"
      BY <1>5 DEF Connect, LateDial
    <3> QED  BY <3>1, <3>2, HelloStill DEF Still, Listened
  <2> QED  BY <2>2, <2>3
<1>6. ASSUME NEW l \in Links, proxyHelloHandler(l) PROVE Hello(k)'
  <2>1. CASE k = l
    BY <1>6, <2>1 DEF proxyHelloHandler, Restart, Hello, Listened, Kinds
  <2>2. CASE k # l
    BY <1>6, <2>2, HelloStill DEF proxyHelloHandler, Restart, Still, Listened
  <2> QED  BY <2>1, <2>2
<1>7. ASSUME NEW l \in Links, LoseLink(l) \/ DestroyOld(l) PROVE Hello(k)'
  BY <1>7, HelloStill DEF LoseLink, DestroyOld, Restart, Still, Listened
<1> QED  BY <1>1, <1>2, <1>3, <1>4, <1>5, <1>6, <1>7 DEF Client

LEMMA HelloProxy ==
  ASSUME Inv, NEW k \in Links, NEW l \in Links, Proxy(l) \/ ReadFails(l)
  PROVE  Hello(k)'
<1> USE DEF Inv, TypeOK, config, owner, mail, server, world
<1>1. CASE k # l
  <2>1. age'[k] = age[k] /\ serving'[k] = serving[k] /\ asked'[k] = asked[k]
        /\ verdict'[k] = verdict[k] /\ proxy'[k] = proxy[k] /\ lis'[k] = lis[k]
        /\ cur' = cur /\ phase' = phase
    BY <1>1, ListenCases
       DEF Proxy, Accept, clientHelloHandler, listenBrowser, clientHBHandler,
           checkClientHB, CloseListeners, ReadFails, sayHello, Sent
  <2> QED  BY <2>1, HelloStill DEF Still, Listened
<1>2. CASE k = l /\ Accept(l)
  BY <1>2 DEF Accept, Hello, Listened
<1>3. CASE k = l /\ clientHelloHandler(l)
  BY <1>3 DEF clientHelloHandler, Hello, Listened, Kinds
<1>4. CASE k = l /\ listenBrowser(l)
  <2>1. asked[k] \in Names /\ proxy[k] # "pending"
    BY <1>4, ListenCases DEF Hello
  <2>2. asked' = asked /\ proxy' = proxy /\ cur' = cur /\ phase' = phase
    BY <1>4 DEF listenBrowser
  <2>3. CASE lis' = lis /\ sayHello(l, "refused")
    BY <1>4, <2>1, <2>2, <2>3 DEF sayHello, Sent, Hello, Listened, Kinds
  <2>4. CASE lis' = [lis EXCEPT ![l] = "open"] /\ sayHello(l, "ok")
    <3>1. lis'[k] = "open"
      BY <1>4, <2>4
    <3> QED  BY <2>1, <2>2, <3>1 DEF Hello, Listened
  <2> QED  BY <1>4, <2>3, <2>4, ListenCases
<1>5. CASE k = l /\ clientHBHandler(l)
  BY <1>5, HelloStill DEF clientHBHandler, Still, Listened, Kinds
<1>6. CASE k = l /\ (checkClientHB(l) \/ ReadFails(l) \/ CloseListeners(l))
  BY <1>6, HelloStill DEF checkClientHB, ReadFails, CloseListeners, Still, Listened
<1> QED  BY <1>1, <1>2, <1>3, <1>4, <1>5, <1>6 DEF Proxy

LEMMA HelloWorld ==
  ASSUME Inv, NEW k \in Links,
         \/ ProxyReplaced \/ AlienLeaves \/ Tick
         \/ \E f \in Files \cup {NoFile} : EditFile(f)
         \/ \E l \in Links : Break(l) \/ AcceptFails(l) \/ Finalize(l)
  PROVE  Hello(k)'
<1> USE HelloStill DEF Still, Listened, Inv, TypeOK, config, owner, mail, server, world
<1>1. CASE ProxyReplaced
  BY <1>1 DEF ProxyReplaced
<1>2. CASE AlienLeaves \/ \E f \in Files \cup {NoFile} : EditFile(f)
  BY <1>2 DEF AlienLeaves, EditFile
<1>3. CASE Tick
  BY <1>3 DEF Tick, Kinds
<1>4. CASE \E l \in Links : Break(l) \/ AcceptFails(l) \/ Finalize(l)
  BY <1>4 DEF Break, AcceptFails, Finalize, Quiet, Kinds
<1> QED  BY <1>1, <1>2, <1>3, <1>4
-----------------------------------------------------------------------------
\* A link whose timer is not set, and whose client waits on as before.
Steady(k) ==
  proxy'[k] = "open" /\ client'[k] = "open" /\ k \notin silent' =>
    /\ proxy[k] = "open" /\ Works(k) /\ left'[k] = left[k]
    /\ k = cur' /\ phase' = "hello" => k = cur /\ phase = "hello" /\ timer' = timer
    /\ k = cur' /\ phase' = "up" =>
         k = cur /\ phase = "up" /\ timer' = timer /\ age'[k]["beat"] = age[k]["beat"]

LEMMA BeatSteady ==
  ASSUME Inv, NEW k \in Links, Steady(k) PROVE Beat(k)'
<1>1. Beat(k)
  BY DEF Inv
<1> QED  BY <1>1 DEF Steady, Beat, Works

\* What is left of a working link's timer when its client is not being destroyed.
LEMMA BeatNow ==
  ASSUME Inv, NEW k \in Links, proxy[k] = "open", Works(k)
  PROVE  /\ left[k] \in Nat /\ timer \in Nat /\ age[k]["beat"] \in Idle .. Delay
         /\ left[k] > 0
         /\ k \in old \/ (k = cur /\ HasLink)
         /\ k = cur /\ phase = "hello" =>
              left[k] + HelloWait >= timer + HBTimeout /\ timer <= HelloWait
         /\ k = cur /\ phase = "up" =>
              /\ timer <= HBInterval
              /\ age[k]["beat"] = Idle => left[k] > timer + Delay
              /\ age[k]["beat"] # Idle =>
                   left[k] + age[k]["beat"] > Delay /\ timer + age[k]["beat"] = HBInterval
BY TimeAssumption DEF Inv, TypeOK, Ends, Beat, Works, Kinds

LEMMA BeatClient ==
  ASSUME Inv, NEW k \in Links,
         \/ Poll \/ StartAgain \/ DialFails \/ HelloTimeout \/ sendHB
         \/ \E l \in Links : Client(l)
  PROVE  Beat(k)'
<1> USE LinkAssumption DEF Inv, TypeOK, config, owner, mail, server, world
<1>1. CASE Poll
  BY <1>1, BeatSteady DEF Poll, Replace, Steady, Works
<1>2. CASE StartAgain \/ DialFails
  BY <1>2, BeatSteady DEF StartAgain, DialFails, Steady, Works
<1>3. CASE HelloTimeout
  BY <1>3, BeatSteady DEF HelloTimeout, Restart, Steady, Works
<1>4. CASE sendHB
  <2>1. CASE k # cur \/ proxy[k] # "open" \/ ~Works(k)
    BY <1>4, <2>1, BeatSteady DEF sendHB, Sent, Steady, Works
  <2>2. CASE k = cur /\ proxy[k] = "open" /\ Works(k)
    <3>1. left[k] \in Nat /\ left[k] > Delay
      BY <1>4, <2>2, BeatNow, TimeAssumption DEF sendHB, Idle
    <3>2. age'[k]["beat"] = 0 /\ timer' = HBInterval /\ left' = left /\ phase' = "up"
      BY <1>4, <2>2 DEF sendHB, Sent, Kinds
    <3> QED  BY <3>1, <3>2, TimeAssumption DEF Beat, Idle
  <2> QED  BY <2>1, <2>2
<1>5. ASSUME NEW l \in Links, Connect(l) \/ LateDial(l) PROVE Beat(k)'
  <2>1. PICK wants \in Names : Dialed(l, wants)
    BY <1>5 DEF Connect, LateDial, Ends
  <2>2. CASE k = l
    BY <2>1, <2>2 DEF Dialed, Beat
  <2>3. CASE k # l
    BY <1>5, <2>1, <2>3, BeatSteady DEF Connect, LateDial, Dialed, Steady, Works
  <2> QED  BY <2>2, <2>3
<1>6. ASSUME NEW l \in Links, proxyHelloHandler(l) PROVE Beat(k)'
  <2>1. CASE k # l \/ proxy[k] # "open" \/ ~Works(k) \/ verdict[l] = "refused"
    BY <1>6, <2>1, BeatSteady DEF proxyHelloHandler, Restart, Steady, Works
  <2>2. CASE k = l /\ proxy[k] = "open" /\ Works(k) /\ verdict[l] = "ok"
    <3>1. left[k] \in Nat /\ left[k] > Delay
      BY <1>6, <2>2, BeatNow, TimeAssumption DEF proxyHelloHandler
    <3>2. age'[k]["beat"] = 0 /\ timer' = HBInterval /\ left' = left /\ phase' = "up"
      BY <1>6, <2>2 DEF proxyHelloHandler, Kinds
    <3> QED  BY <3>1, <3>2, TimeAssumption DEF Beat, Idle
  <2> QED  BY <2>1, <2>2
<1>7. ASSUME NEW l \in Links, LoseLink(l) \/ DestroyOld(l) PROVE Beat(k)'
  BY <1>7, BeatSteady DEF LoseLink, DestroyOld, Restart, Steady, Works
<1> QED  BY <1>1, <1>2, <1>3, <1>4, <1>5, <1>6, <1>7 DEF Client

LEMMA BeatProxy ==
  ASSUME Inv, NEW k \in Links, NEW l \in Links, Proxy(l) \/ ReadFails(l)
  PROVE  Beat(k)'
<1> USE DEF Inv, TypeOK, config, owner, mail, server, world
<1>1. CASE k # l
  <2>1. age'[k] = age[k] /\ left'[k] = left[k] /\ proxy'[k] = proxy[k]
        /\ UNCHANGED <<cur, phase, timer, client, silent>>
    BY <1>1, ListenCases
       DEF Proxy, Accept, clientHelloHandler, listenBrowser, clientHBHandler,
           checkClientHB, CloseListeners, ReadFails, sayHello, Sent
  <2> QED  BY <2>1, BeatSteady DEF Steady, Works
<1>2. CASE k = l /\ Accept(l)
  <2>1. left'[k] = HBTimeout /\ ~(k = cur /\ phase = "up")
        /\ UNCHANGED <<cur, phase, timer, age>>
    BY <1>2 DEF Accept, Hello
  <2>2. phase = "hello" => timer <= HelloWait
    BY DEF Ends
  <2> QED  BY <2>1, <2>2, TimeAssumption DEF Beat
<1>3. CASE k = l /\ clientHelloHandler(l)
  BY <1>3, BeatSteady DEF clientHelloHandler, Steady, Works, Kinds
<1>4. CASE k = l /\ listenBrowser(l)
  <2>1. age'[k]["beat"] = age[k]["beat"]
    <3>1. ASSUME NEW v, sayHello(l, v) PROVE age'[l]["beat"] = age[l]["beat"]
      BY <3>1 DEF sayHello, Sent, Kinds
    <3> QED  BY <1>4, <3>1, ListenCases
  <2> QED  BY <1>4, <2>1, BeatSteady DEF listenBrowser, Steady, Works
<1>5. CASE k = l /\ clientHBHandler(l)
  <2>1. left'[k] = HBTimeout /\ age'[k]["beat"] = Idle /\ UNCHANGED <<cur, phase, timer>>
    BY <1>5 DEF clientHBHandler, Kinds
  <2>2. (phase = "hello" => timer <= HelloWait) /\ (phase = "up" => timer <= HBInterval)
    BY DEF Ends
  <2> QED  BY <2>1, <2>2, TimeAssumption DEF Beat
<1>6. CASE k = l /\ (checkClientHB(l) \/ ReadFails(l) \/ CloseListeners(l))
  BY <1>6, BeatSteady DEF checkClientHB, ReadFails, CloseListeners, Steady, Works
<1> QED  BY <1>1, <1>2, <1>3, <1>4, <1>5, <1>6 DEF Proxy

\* A tick takes one from the timer and from the wait, or ages the heart beat.
LEMMA BeatTick == ASSUME Inv, NEW k \in Links, Tick PROVE Beat(k)'
<1> SUFFICES ASSUME proxy[k] = "open", Works(k) PROVE Beat(k)'
  BY DEF Tick, world, Beat, Works
<1>1. /\ UNCHANGED <<phase, cur>> /\ old = {}
      /\ left'[k] = left[k] - 1
      /\ age[k]["beat"] < Delay
      /\ age'[k]["beat"] = IF age[k]["beat"] = Idle THEN Idle ELSE age[k]["beat"] + 1
  <2>1. age'[k]["beat"] = IF age[k]["beat"] = Idle \/ age[k]["beat"] = Delay
                          THEN age[k]["beat"] ELSE age[k]["beat"] + 1
    BY DEF Tick, Kinds
  <2>2. age[k]["beat"] < Delay /\ age[k]["beat"] \in Idle .. Delay
    BY BeatNow DEF Tick, Kinds
  <2>3. UNCHANGED <<phase, cur>> /\ old = {} /\ left'[k] = left[k] - 1
    BY DEF Tick, owner
  <2> QED  BY <2>1, <2>2, <2>3, TimeAssumption DEF Idle
<1>2. k = cur /\ HasLink /\ timer > 0 /\ timer' = timer - 1
  BY <1>1, BeatNow DEF Tick, Timed, HasLink
<1> DEFINE a == age[k]["beat"]
<1>3. left[k] \in Nat /\ timer \in Nat /\ a \in Idle .. Delay
  BY BeatNow
<1>4. CASE phase = "hello"
  <2>1. left[k] + HelloWait >= timer + HBTimeout /\ timer <= HelloWait
    BY <1>2, <1>4, BeatNow
  <2>2. left'[k] > 0 /\ left'[k] + HelloWait >= timer' + HBTimeout
    BY <1>1, <1>2, <1>3, <2>1, TimeAssumption
  <2> QED  BY <1>1, <1>4, <2>2 DEF Beat
<1>5. CASE phase = "up" /\ a = Idle
  <2>1. left[k] > timer + Delay
    BY <1>2, <1>5, BeatNow
  <2>2. left'[k] > 0 /\ left'[k] > timer' + Delay
    BY <1>1, <1>2, <1>3, <2>1, TimeAssumption
  <2> QED  BY <1>1, <1>5, <2>2 DEF Beat
<1>6. CASE phase = "up" /\ a # Idle
  <2>1. left[k] + a > Delay /\ timer + a = HBInterval
    BY <1>2, <1>6, BeatNow
  <2>2. age'[k]["beat"] = a + 1 /\ a + 1 # Idle /\ a \in Nat
    BY <1>1, <1>3, <1>6, TimeAssumption DEF Idle
  <2>3. left'[k] > 0 /\ left'[k] + (a + 1) > Delay /\ timer' + (a + 1) = HBInterval
    BY <1>1, <1>2, <1>3, <2>1, <2>2, TimeAssumption
  <2> QED  BY <1>1, <1>6, <2>2, <2>3 DEF Beat
<1> QED  BY <1>2, <1>4, <1>5, <1>6 DEF HasLink

LEMMA BeatWorld ==
  ASSUME Inv, NEW k \in Links,
         \/ ProxyReplaced \/ AlienLeaves \/ Tick
         \/ \E f \in Files \cup {NoFile} : EditFile(f)
         \/ \E l \in Links : Break(l) \/ AcceptFails(l) \/ Finalize(l)
  PROVE  Beat(k)'
<1> USE BeatSteady DEF Steady, Works, Inv, TypeOK, config, owner, mail, server, world
<1>1. CASE ProxyReplaced
  BY <1>1 DEF ProxyReplaced
<1>2. CASE AlienLeaves \/ \E f \in Files \cup {NoFile} : EditFile(f)
  BY <1>2 DEF AlienLeaves, EditFile
<1>3. CASE Tick
  BY <1>3, BeatTick
<1>4. CASE \E l \in Links : Break(l) \/ AcceptFails(l) \/ Finalize(l)
  BY <1>4 DEF Break, AcceptFails, Finalize
<1> QED  BY <1>1, <1>2, <1>3, <1>4

-----------------------------------------------------------------------------
LEMMA NextInv == Inv /\ [Next]_vars => Inv'
<1> SUFFICES ASSUME Inv, [Next]_vars PROVE Inv'
  OBVIOUS
<1>1. CASE \/ Poll \/ StartAgain \/ DialFails \/ HelloTimeout \/ sendHB
           \/ \E l \in Links : Client(l)
  <2>1. TypeOK'
    BY <1>1, TypeClient
  <2>2. Ends'
    BY <1>1, EndsClient
  <2>3. \A k \in Links : Hello(k)' /\ Beat(k)'
    BY <1>1, HelloClient, BeatClient
  <2> QED  BY <2>1, <2>2, <2>3 DEF Inv
<1>2. CASE \E l \in Links : Proxy(l) \/ ReadFails(l)
  <2>1. TypeOK'
    BY <1>2, TypeProxy
  <2>2. Ends'
    BY <1>2, EndsOthers
  <2>3. \A k \in Links : Hello(k)' /\ Beat(k)'
    BY <1>2, HelloProxy, BeatProxy
  <2> QED  BY <2>1, <2>2, <2>3 DEF Inv
<1>3. CASE \/ ProxyReplaced \/ AlienLeaves \/ Tick
           \/ \E f \in Files \cup {NoFile} : EditFile(f)
           \/ \E l \in Links : Break(l) \/ AcceptFails(l) \/ Finalize(l)
  <2>1. TypeOK'
    BY <1>3, TypeWorld
  <2>2. Ends'
    BY <1>3, EndsOthers
  <2>3. \A k \in Links : Hello(k)' /\ Beat(k)'
    BY <1>3, HelloWorld, BeatWorld
  <2> QED  BY <2>1, <2>2, <2>3 DEF Inv
<1>4. CASE UNCHANGED vars
  BY <1>4 DEF vars, config, owner, mail, server, world, Inv, TypeOK, Ends, HasLink,
              Hello, Beat, Listened, Works
<1> QED  BY <1>1, <1>2, <1>3, <1>4 DEF Next

LEMMA Invariance == Spec => []Inv
BY InitInv, NextInv, PTL DEF Spec

\* The variables stay in their types (client.go:137-206, proxy.go:149-186).
THEOREM TypeCorrect == Spec => []TypeOK
<1>1. Inv => TypeOK
  BY DEF Inv
<1> QED  BY <1>1, Invariance, PTL

\* checkClientHB never closes a link that works: with a ticker and a hello wait
\* that are shorter than the proxy's timer by more than the delay of a message,
\* the timer never fires on one, whatever breaks, restarts or is replaced.
THEOREM LivePeersKept == Spec => []LivePeerKept
<1>1. Inv => LivePeerKept
  BY DEF Inv, Beat, LivePeerKept
<1> QED  BY <1>1, Invariance, PTL

\* A client that runs hb() was given the port it asks for, by a listener of its
\* own link that only a failing Accept takes away while the proxy keeps the link.
THEOREM AcceptedIsListening == Spec => []UpIsListening
<1>1. Inv => UpIsListening
  BY DEF Inv, Ends, HasLink, Hello, UpIsListening
<1> QED  BY <1>1, Invariance, PTL

-----------------------------------------------------------------------------
\* The live update, for every number of mappings: what the difference of two readings
\* of client_proxy_mapping sees, and what it does not.

\* The parser's mappings have a port and an address each.
IsMapping(m) == m = [i \in 1 .. Len(m) |-> [port |-> m[i].port, addr |-> m[i].addr]]
                /\ Len(m) \in Nat

\* No port is asked for twice.
Distinct(m) == \A i, j \in 1 .. Len(m) : m[i].port = m[j].port => i = j

\* The ports of distinct mappings are as many as the mappings.
LEMMA PortCount ==
  ASSUME NEW m, IsMapping(m), Distinct(m)
  PROVE  IsFiniteSet(Ports(m)) /\ Cardinality(Ports(m)) = Len(m)
<1> DEFINE f == [i \in 1 .. Len(m) |-> m[i].port]
<1>1. DOMAIN m = 1 .. Len(m) /\ Len(m) \in Nat
  BY DEF IsMapping
<1>2. IsFiniteSet(1 .. Len(m)) /\ Cardinality(1 .. Len(m)) = Len(m)
  <2>1. 1 \in Int /\ Len(m) \in Int
    BY <1>1
  <2>2. /\ IsFiniteSet(1 .. Len(m))
        /\ Cardinality(1 .. Len(m)) = IF 1 > Len(m) THEN 0 ELSE Len(m) - 1 + 1
    BY <2>1, FS_Interval
  <2> QED  BY <1>1, <2>2
<1>3. f \in Bijection(1 .. Len(m), Ports(m))
  <2>1. \A i \in 1 .. Len(m) : f[i] \in Ports(m)
    BY <1>1 DEF Ports
  <2>2. \A p \in Ports(m) : \E i \in 1 .. Len(m) : f[i] = p
    BY <1>1 DEF Ports
  <2>3. \A i, j \in 1 .. Len(m) : f[i] = f[j] => i = j
    BY DEF Distinct
  <2>4. f \in [1 .. Len(m) -> Ports(m)]
    BY <2>1
  <2> HIDE DEF f
  <2>5. f \in Injection(1 .. Len(m), Ports(m))
    BY <2>3, <2>4 DEF Injection, IsInjective
  <2>6. f \in Surjection(1 .. Len(m), Ports(m))
    BY <2>2, <2>4 DEF Surjection
  <2> QED  BY <2>5, <2>6 DEF Bijection
<1> QED  BY <1>2, <1>3, FS_Bijection DEF ExistsBijection

\* A file that asks for the same ports at the same addresses makes no difference:
\* it destroys no client (clientmappingparse.go:94-120).
THEOREM SameIsNoDiff == \A m : ~Diff(m, m)
BY DEF Diff, Ports, Addrs

\* No port comes or goes unseen: when no port is asked for twice and there is
\* no difference, the running clients hold exactly the ports of the new file.
THEOREM NoDiffSamePorts ==
  ASSUME NEW after, NEW before, IsMapping(after), IsMapping(before), Distinct(after), Distinct(before),
         ~Diff(after, before)
  PROVE  Ports(after) = Ports(before)
<1>1. Len(after) = Len(before) /\ Ports(after) \subseteq Ports(before)
  BY DEF Diff, Ports
<1>2. /\ IsFiniteSet(Ports(before))
      /\ Cardinality(Ports(after)) = Cardinality(Ports(before))
  BY <1>1, PortCount
<1> QED  BY <1>1, <1>2, FS_Subset

\* Two ports that exchange their addresses are no difference: the clients go on
\* forwarding to the addresses of the old file.
THEOREM SwapUnseen ==
  \A p, q, x, y :
    ~Diff(Mappings(<<<<p, y>>, <<q, x>>>>), Mappings(<<<<p, x>>, <<q, y>>>>))
<1> SUFFICES ASSUME NEW p, NEW q, NEW x, NEW y
             PROVE  ~Diff(Mappings(<<<<p, y>>, <<q, x>>>>), Mappings(<<<<p, x>>, <<q, y>>>>))
  OBVIOUS
<1>1. ASSUME NEW a, NEW b
      PROVE  /\ Len(Mappings(<<<<p, a>>, <<q, b>>>>)) = 2
             /\ Ports(Mappings(<<<<p, a>>, <<q, b>>>>)) = {p, q}
             /\ Addrs(Mappings(<<<<p, a>>, <<q, b>>>>)) = {a, b}
  <2> DEFINE s == <<<<p, a>>, <<q, b>>>>
             m == [i \in 1 .. 2 |-> [port |-> s[i][1], addr |-> s[i][2]]]
  <2>1. Mappings(s) = m
    BY DEF Mappings
  <2>2. Len(m) = 2 /\ DOMAIN m = {1, 2}
    OBVIOUS
  <2>3. m[1].port = p /\ m[2].port = q /\ m[1].addr = a /\ m[2].addr = b
    OBVIOUS
  <2> HIDE DEF m
  <2>4. Ports(m) = {p, q}
    BY <2>2, <2>3 DEF Ports
  <2>5. Addrs(m) = {a, b}
    BY <2>2, <2>3 DEF Addrs
  <2> QED  BY <2>1, <2>2, <2>4, <2>5
<1> DEFINE after == Mappings(<<<<p, y>>, <<q, x>>>>)
           before == Mappings(<<<<p, x>>, <<q, y>>>>)
<1>2. /\ Len(after) = 2 /\ Ports(after) = {p, q} /\ Addrs(after) = {y, x}
      /\ Len(before) = 2 /\ Ports(before) = {p, q} /\ Addrs(before) = {x, y}
  BY <1>1
<1> HIDE DEF after, before
<1>3. \A i \in DOMAIN after : after[i].port \in Ports(after) /\ after[i].addr \in Addrs(after)
  BY DEF Ports, Addrs
<1>4. ~Diff(after, before)
  BY <1>2, <1>3 DEF Diff
<1> QED  BY <1>4 DEF after, before
=============================================================================
