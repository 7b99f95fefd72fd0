--------------------------- MODULE LifecycleProofs ---------------------------
(***************************************************************************)
(* For every set of callers and every number of starts: the endpoint's     *)
(* life cycle closes no channel twice, its channels follow its state, and  *)
(* destroy is final.  The three follow from one inductive invariant, which *)
(* relates the holder of the event mutex, the event it fires and the       *)
(* channels the event's callback is still to make or close.                *)
(***************************************************************************)
EXTENDS Lifecycle, TLAPS

InCallback == {"callback", "destroy only"}

\* Only the holder of the event mutex is inside a callback.
MutexHeld ==
  \A g \in Goroutines : pc[g] \in InCallback <=> mutex = g

\* The current stop channel is made and not closed.
Open == stopSignal \notin closed \cup {0}

\* The channels of a state that no callback is about to change.
Settled ==
  mutex = NoOne =>
    /\ status = "started" <=> Open
    /\ status = "destroied" <=> destroyed = TRUE

\* While a callback is pending the status is the new one already, and the
\* channels are still those of the state the event came from.
Pending ==
  \A g \in Goroutines : mutex = g =>
    /\ destroyed = FALSE
    /\ status = Dst(event[g])
    /\ event[g] = "start" => pc[g] = "callback" /\ ~Open /\ stopSignal < MaxStarts
    /\ event[g] = "stop" => pc[g] = "callback" /\ Open
    /\ event[g] = "destroy" => (pc[g] = "callback" <=> Open)

\* Only channels that were made are closed, and all but the last one are.
ChannelsMade == closed \subseteq 1 .. stopSignal /\ 1 .. stopSignal - 1 \subseteq closed

\* A session is launched after its channel is made, and takes a channel that
\* is made: its own one or a later one.
Attached ==
  \A g \in Gens :
    /\ session[g] # "none" => g <= stopSignal
    /\ session[g] = "live" => sig[g] \in 1 .. stopSignal

Inv == TypeOK /\ panicked = FALSE /\ MutexHeld /\ Settled /\ Pending /\ ChannelsMade /\ Attached

-----------------------------------------------------------------------------
\* The value of a free mutex is no goroutine.
LEMMA NoOneFree == \A g \in Goroutines : g # NoOne
BY CallersAssumption, StartsAssumption DEF Goroutines, Gens

\* The current stop channel is a number.
LEMMA Made == Inv => stopSignal \in Nat
<1> SUFFICES ASSUME Inv PROVE stopSignal \in Nat
  OBVIOUS
<1>1. stopSignal \in 0 .. MaxStarts
  BY DEF Inv, TypeOK
<1> QED  BY <1>1, StartsAssumption

\* The endpoint is born stopped, with the nil channel.
LEMMA InitInv == Init => Inv
<1> SUFFICES ASSUME Init PROVE Inv
  OBVIOUS
<1>1. TypeOK
  <2>1. /\ role \in {"client", "proxy"}
        /\ status \in Statuses /\ stopSignal \in 0 .. MaxStarts /\ closed \subseteq 0 .. MaxStarts
        /\ mutex \in Goroutines \cup {NoOne}
    BY StartsAssumption DEF Init, Statuses
  <2>2. destroyed \in BOOLEAN /\ panicked \in BOOLEAN
    BY Zenon DEF Init
  <2>3. /\ pc \in [Goroutines -> {"idle", "entry", "callback", "destroy only", "waiting"}]
        /\ event \in [Goroutines -> Events]
    BY DEF Init, Events
  <2>4. restarting \in [Goroutines -> BOOLEAN]
    BY Zenon DEF Init
  <2>5. /\ session \in [Gens -> {"none", "dialing", "live", "ended"}]
        /\ sig \in [Gens -> 0 .. MaxStarts]
    BY StartsAssumption DEF Init
  <2> QED  BY <2>1, <2>2, <2>3, <2>4, <2>5 DEF TypeOK
<1>2. panicked = FALSE
  BY DEF Init
<1>3. MutexHeld /\ Pending
  BY NoOneFree DEF Init, MutexHeld, Pending, InCallback
<1>4. Settled
  BY DEF Init, Settled, Open
<1>5. ChannelsMade
  BY DEF Init, ChannelsMade
<1>6. Attached
  BY DEF Init, Attached
<1> QED  BY <1>1, <1>2, <1>3, <1>4, <1>5, <1>6 DEF Inv

\* A step that only enters or leaves the queue for the event mutex.
LEMMA QueueStep ==
  ASSUME Inv, Untouched,
         NEW g \in Goroutines, pc[g] \notin InCallback,
         NEW loc \in {"idle", "entry"}, pc' = [pc EXCEPT ![g] = loc],
         NEW e \in Events, event' = [event EXCEPT ![g] = e],
         restarting' \in [Goroutines -> BOOLEAN],
         session' \in [Gens -> {"none", "dialing", "live", "ended"}],
         \A s \in Gens : session'[s] = session[s]
                          \/ (session'[s] = "ended" /\ session[s] # "none"),
         sig' = sig
  PROVE  Inv'
<1> USE DEF Inv, Untouched
<1>1. TypeOK'
  BY DEF TypeOK
<1>2. panicked' = FALSE
  OBVIOUS
<1>3. mutex # g
  BY DEF MutexHeld
<1>4. MutexHeld'
  BY DEF MutexHeld, InCallback, TypeOK
<1>5. Settled'
  BY DEF Settled, Open
<1>6. Pending'
  <2> SUFFICES ASSUME NEW h \in Goroutines, mutex = h
               PROVE  pc'[h] = pc[h] /\ event'[h] = event[h]
    BY DEF Pending, Open
  <2> QED  BY <1>3 DEF TypeOK
<1>7. ChannelsMade'
  BY DEF ChannelsMade
<1>8. Attached'
  BY DEF Attached
<1> QED  BY <1>1, <1>2, <1>4, <1>5, <1>6, <1>7, <1>8

\* The four methods: a goroutine queues for the event mutex.
LEMMA CallInv == ASSUME Inv, NEW g \in Callers, Call(g) PROVE Inv'
<1>1. g \in Goroutines
  BY DEF Goroutines
<1>2. Untouched /\ pc[g] = "idle" /\ pc' = [pc EXCEPT ![g] = "entry"]
      /\ UNCHANGED <<session, sig>>
  BY DEF Call, Start, Stop, Destroy, Restart, Enter
<1>3. PICK e \in Events : event' = [event EXCEPT ![g] = e]
  BY DEF Call, Start, Stop, Destroy, Restart, Enter, Events
<1>4. restarting' \in [Goroutines -> BOOLEAN]
  BY DEF Call, Start, Stop, Destroy, Restart, Enter, Inv, TypeOK
<1> QED  BY <1>1, <1>2, <1>3, <1>4, QueueStep DEF InCallback, Inv, TypeOK

\* The session goroutines: some only change themselves, some call Restart.
LEMMA SessionInv == ASSUME Inv, NEW g \in Gens, Session(g) PROVE Inv'
<1>0. g \in Goroutines
  BY DEF Goroutines
<1>1. CASE DialFails(g) \/ LoseConn(g)
  <2>1. Untouched /\ pc[g] = "idle" /\ pc' = [pc EXCEPT ![g] = "entry"]
        /\ event' = [event EXCEPT ![g] = "stop"] /\ sig' = sig
    BY <1>1 DEF DialFails, LoseConn, Enter
  <2>2. restarting' \in [Goroutines -> BOOLEAN]
    BY <1>1 DEF DialFails, LoseConn, Enter, Inv, TypeOK
  <2>3. /\ session' \in [Gens -> {"none", "dialing", "live", "ended"}]
        /\ \A s \in Gens : session'[s] = session[s]
                            \/ (session'[s] = "ended" /\ session[s] # "none")
    BY <1>1 DEF DialFails, LoseConn, Inv, TypeOK
  <2> QED  BY <1>0, <2>1, <2>2, <2>3, QueueStep DEF InCallback, Events
<1>2. CASE Attach(g) \/ LoseListener(g) \/ StopSession(g)
  <2>1. Untouched /\ UNCHANGED <<pc, event, restarting>>
    BY <1>2 DEF Attach, LoseListener, StopSession
  <2>2. TypeOK'
    BY <1>2, <2>1 DEF Attach, LoseListener, StopSession, Untouched, Inv, TypeOK
  <2>3. Attached'
    <3> SUFFICES ASSUME NEW s \in Gens
                 PROVE  /\ session'[s] # "none" => s <= stopSignal
                        /\ session'[s] = "live" => sig'[s] \in 1 .. stopSignal
      BY <2>1 DEF Untouched, Attached
    <3>1. s \in Nat /\ s >= 1 /\ stopSignal \in Nat
      BY Made DEF Gens
    <3>2. /\ session[s] # "none" => s <= stopSignal
          /\ session[s] = "live" => sig[s] \in 1 .. stopSignal
      BY DEF Inv, Attached
    <3>3. \/ session'[s] = session[s] /\ sig'[s] = sig[s]
          \/ session'[s] = "ended" /\ session[s] # "none"
          \/ session'[s] = "live" /\ session[s] = "dialing" /\ sig'[s] = stopSignal
      BY <1>2 DEF Attach, LoseListener, StopSession, Inv, TypeOK
    <3> QED  BY <3>1, <3>2, <3>3
  <2> QED
    BY <2>1, <2>2, <2>3 DEF Untouched, Inv, MutexHeld, Settled, Open, Pending,
                            ChannelsMade, Attached
<1> QED  BY <1>1, <1>2 DEF Session

-----------------------------------------------------------------------------
\* Refuse and Elapse leave the channels alone.
LEMMA RefuseElapseInv ==
  ASSUME Inv, NEW g \in Goroutines, Refuse(g) \/ Elapse(g) PROVE Inv'
<1>1. CASE Refuse(g)
  <2>1. Untouched /\ pc[g] \notin InCallback /\ pc' = [pc EXCEPT ![g] = "idle"]
        /\ UNCHANGED <<event, session, sig>>
    BY <1>1 DEF Refuse, InCallback
  <2>2. event[g] \in Events /\ event' = [event EXCEPT ![g] = event[g]]
    BY <2>1 DEF Inv, TypeOK
  <2>3. restarting' \in [Goroutines -> BOOLEAN]
    BY <1>1 DEF Refuse, Inv, TypeOK
  <2> QED  BY <2>1, <2>2, <2>3, QueueStep DEF Inv, TypeOK
<1>2. CASE Elapse(g)
  <2>1. Untouched /\ pc[g] \notin InCallback /\ pc' = [pc EXCEPT ![g] = "entry"]
        /\ event' = [event EXCEPT ![g] = "start"] /\ UNCHANGED <<session, sig>>
    BY <1>2 DEF Elapse, InCallback
  <2>2. restarting' \in [Goroutines -> BOOLEAN]
    BY <1>2 DEF Elapse, Inv, TypeOK
  <2> QED  BY <2>1, <2>2, QueueStep DEF Inv, TypeOK, Events
<1> QED  BY <1>1, <1>2

\* A transition takes the mutex and leaves the channels as they were.
LEMMA TransitInv == ASSUME Inv, NEW g \in Goroutines, Transit(g) PROVE Inv'
<1> USE DEF Inv, Transit
<1>0. mutex = NoOne /\ mutex' = g /\ g # NoOne /\ status \in Src(event[g])
      /\ event[g] \in Events
  BY NoOneFree DEF TypeOK
<1>1. TypeOK'
  BY <1>0 DEF TypeOK, Dst, Events, Statuses
<1>2. panicked' = FALSE
  OBVIOUS
<1>3. MutexHeld'
  <2> SUFFICES ASSUME NEW h \in Goroutines PROVE (pc'[h] \in InCallback) <=> mutex' = h
    BY DEF MutexHeld
  <2>1. CASE h = g
    BY <1>0, <2>1 DEF InCallback, TypeOK
  <2>2. CASE h # g
    <3>1. pc'[h] = pc[h] /\ h # NoOne
      BY <2>2, NoOneFree DEF TypeOK
    <3> QED  BY <1>0, <2>2, <3>1 DEF MutexHeld
  <2> QED  BY <2>1, <2>2
<1>4. Settled'
  BY <1>0 DEF Settled
<1>5. Pending'
  <2>1. /\ destroyed = FALSE
        /\ status = "started" <=> Open
    BY <1>0 DEF Settled, Src, Events, TypeOK
  <2>2. UNCHANGED <<stopSignal, closed, destroyed, event>> /\ (Open' <=> Open)
    BY DEF Open
  <2>3. pc'[g] = IF event[g] = "destroy" /\ status = "stoped"
                 THEN "destroy only" ELSE "callback"
    BY DEF TypeOK
  <2>5. event[g] = "start" => ~Open /\ stopSignal < MaxStarts
    BY <1>0, <2>1 DEF Src
  <2>6. event[g] = "stop" => Open
    BY <1>0, <2>1 DEF Src
  <2>7. event[g] = "destroy" => (status = "stoped" <=> ~Open)
    BY <1>0, <2>1 DEF Src
  <2> SUFFICES ASSUME NEW h \in Goroutines, mutex' = h
               PROVE  /\ destroyed' = FALSE
                      /\ status' = Dst(event'[h])
                      /\ event'[h] = "start" =>
                           pc'[h] = "callback" /\ ~Open' /\ stopSignal' < MaxStarts
                      /\ event'[h] = "stop" => pc'[h] = "callback" /\ Open'
                      /\ event'[h] = "destroy" => (pc'[h] = "callback" <=> Open')
    BY DEF Pending, Dst
  <2>8. h = g
    BY <1>0
  <2>9. event' = event /\ destroyed' = destroyed /\ stopSignal' = stopSignal
        /\ status' = Dst(event[g])
    OBVIOUS
  <2>10. /\ destroyed' = FALSE
         /\ status' = Dst(event'[h])
    BY <2>1, <2>8, <2>9
  <2>11. event[g] = "start" => pc'[g] = "callback" /\ ~Open' /\ stopSignal' < MaxStarts
    BY <2>2, <2>3, <2>5, <2>9
  <2>12. event[g] = "stop" => pc'[g] = "callback" /\ Open'
    BY <2>2, <2>3, <2>6
  <2>13. event[g] = "destroy" => (pc'[g] = "callback" <=> Open')
    <3> SUFFICES ASSUME event[g] = "destroy" PROVE pc'[g] = "callback" <=> Open'
      OBVIOUS
    <3>1. CASE status = "stoped"
      <4>1. pc'[g] = "destroy only"
        BY <2>3, <3>1
      <4>2. ~Open'
        BY <2>2, <2>7, <3>1
      <4> QED  BY <4>1, <4>2
    <3>2. CASE status # "stoped"
      BY <2>2, <2>3, <2>7, <3>2 DEF Open
    <3> QED  BY <3>1, <3>2
  <2> QED  BY <2>8, <2>9, <2>10, <2>11, <2>12, <2>13
<1>6. ChannelsMade' /\ Attached'
  BY DEF ChannelsMade, Attached
<1> QED  BY <1>1, <1>2, <1>3, <1>4, <1>5, <1>6

-----------------------------------------------------------------------------
\* Every callback releases the mutex and leaves no goroutine in a callback.
LEMMA ReturnMutex ==
  ASSUME Inv, NEW g \in Goroutines, pc[g] \in InCallback, Return(g)
  PROVE  MutexHeld' /\ mutex = g /\ mutex' = NoOne /\ Pending'
<1>1. mutex = g /\ mutex' = NoOne
  BY DEF Inv, MutexHeld, Return
<1>2. ASSUME NEW h \in Goroutines PROVE pc'[h] \notin InCallback /\ mutex' # h
  <2>1. h # NoOne
    BY NoOneFree
  <2>2. CASE h = g
    BY <1>1, <2>1, <2>2 DEF Return, InCallback, Inv, TypeOK
  <2>3. CASE h # g
    <3>1. pc'[h] = pc[h]
      BY <2>3 DEF Return, Inv, TypeOK
    <3> QED  BY <1>1, <2>1, <2>3, <3>1 DEF Inv, MutexHeld
  <2> QED  BY <2>2, <2>3
<1> QED  BY <1>1, <1>2 DEF MutexHeld, Pending

\* Start's callback: the earlier channel is closed or nil, the new one open.
LEMMA OnStartInv == ASSUME Inv, NEW g \in Goroutines, OnStart(g) PROVE Inv'
<1>1. MutexHeld' /\ mutex = g /\ mutex' = NoOne /\ Pending'
  BY ReturnMutex DEF OnStart, InCallback
<1>2. /\ ~Open /\ stopSignal < MaxStarts /\ destroyed = FALSE /\ status = "started"
      /\ stopSignal \in Nat /\ closed \subseteq 1 .. stopSignal
  <2>1. event[g] = "start" /\ status = Dst(event[g])
        /\ ~Open /\ stopSignal < MaxStarts /\ destroyed = FALSE
    BY <1>1 DEF OnStart, Inv, Pending
  <2>2. status = "started"
    BY <2>1 DEF Dst
  <2>3. stopSignal \in Nat /\ closed \subseteq 1 .. stopSignal
    <3>1. stopSignal \in 0 .. MaxStarts
      BY DEF Inv, TypeOK
    <3> QED  BY <3>1, StartsAssumption DEF Inv, ChannelsMade
  <2> QED  BY <2>1, <2>2, <2>3
<1>3. /\ stopSignal' = stopSignal + 1
      /\ UNCHANGED <<role, status, closed, destroyed, panicked>>
  BY DEF OnStart, Return
<1>4. TypeOK'
  <2>1. stopSignal' \in 0 .. MaxStarts
    BY <1>2, <1>3, StartsAssumption
  <2>2. session' \in [Gens -> {"none", "dialing", "live", "ended"}]
    BY DEF OnStart, Inv, TypeOK
  <2>3. pc' \in [Goroutines -> {"idle", "entry", "callback", "destroy only", "waiting"}]
    BY DEF OnStart, Return, Inv, TypeOK
  <2> QED  BY <1>1, <1>3, <2>1, <2>2, <2>3 DEF OnStart, Return, Inv, TypeOK
<1>5. Settled'
  BY <1>2, <1>3 DEF Settled, Open
<1>6. ChannelsMade'
  <2>1. closed' \subseteq 1 .. stopSignal'
    BY <1>2, <1>3
  <2>2. ASSUME NEW n \in 1 .. stopSignal' - 1 PROVE n \in closed'
    <3>1. CASE n = stopSignal
      BY <1>2, <1>3, <3>1 DEF Open
    <3>2. CASE n # stopSignal
      <4>1. n \in 1 .. stopSignal - 1
        BY <1>2, <1>3, <3>2
      <4> QED  BY <1>3, <4>1 DEF Inv, ChannelsMade
    <3> QED  BY <3>1, <3>2
  <2> QED  BY <2>1, <2>2 DEF ChannelsMade
<1>7. Attached'
  <2> SUFFICES ASSUME NEW s \in Gens
               PROVE  /\ session'[s] # "none" => s <= stopSignal'
                      /\ session'[s] = "live" => sig'[s] \in 1 .. stopSignal'
    BY DEF Attached
  <2>1. /\ session[s] # "none" => s <= stopSignal
        /\ session[s] = "live" => sig[s] \in 1 .. stopSignal
    BY DEF Inv, Attached
  <2>2. /\ sig' = sig
        /\ \/ session'[s] = session[s]
           \/ session'[s] = "dialing" /\ s = stopSignal + 1
    BY DEF OnStart, Return, Inv, TypeOK
  <2>3. s \in Nat
    BY DEF Gens
  <2> QED  BY <1>2, <1>3, <2>1, <2>2, <2>3
<1> QED  BY <1>1, <1>3, <1>4, <1>5, <1>6, <1>7 DEF Inv

\* The callbacks that close: the channel they close is made and still open.
LEMMA OnCloseInv ==
  ASSUME Inv, NEW g \in Goroutines, OnStop(g) \/ OnDestroy(g) PROVE Inv'
<1>0. pc[g] \in InCallback /\ Return(g)
  BY DEF OnStop, OnDestroy, InCallback
<1>1. MutexHeld' /\ mutex = g /\ mutex' = NoOne /\ Pending'
  BY <1>0, ReturnMutex
<1>2. /\ destroyed = FALSE /\ status = Dst(event[g]) /\ event[g] \in {"stop", "destroy"}
      /\ event[g] = "stop" => Open
      /\ event[g] = "destroy" => (pc[g] = "callback" <=> Open)
  BY <1>1 DEF OnStop, OnDestroy, Inv, Pending
<1>3. /\ UNCHANGED <<role, status, stopSignal, event, restarting, session, sig>>
      /\ stopSignal \in 0 .. MaxStarts /\ closed \subseteq 1 .. stopSignal
  BY <1>0 DEF OnStop, OnDestroy, Return, Inv, TypeOK, ChannelsMade
<1>4. /\ panicked' = FALSE
      /\ IF Open THEN closed' = closed \cup {stopSignal} ELSE closed' = closed
      /\ IF event[g] = "destroy" THEN destroyed' = TRUE ELSE destroyed' = FALSE
  <2>1. CASE OnStop(g)
    <3>1. /\ panicked' = (stopSignal \in closed \cup {0})
          /\ closed' = closed \cup {stopSignal} /\ destroyed' = destroyed
      BY <2>1 DEF OnStop, CloseStopSignal
    <3>2. Open /\ event[g] = "stop"
      BY <1>2, <2>1 DEF OnStop
    <3>3. (stopSignal \in closed \cup {0}) = FALSE
      BY <3>2 DEF Open
    <3> QED  BY <1>2, <3>1, <3>2, <3>3
  <2>2. CASE OnDestroy(g)
    <3>1. CASE pc[g] = "callback"
      <4>1. /\ panicked' = (stopSignal \in closed \cup {0})
            /\ closed' = closed \cup {stopSignal} /\ destroyed' = TRUE
        BY <2>2, <3>1 DEF OnDestroy, CloseStopSignal
      <4>2. Open /\ event[g] = "destroy"
        BY <1>2, <2>2, <3>1 DEF OnDestroy
      <4>3. (stopSignal \in closed \cup {0}) = FALSE
        BY <4>2 DEF Open
      <4> QED  BY <4>1, <4>2, <4>3
    <3>2. CASE pc[g] = "destroy only"
      <4>1. panicked' = destroyed /\ closed' = closed /\ destroyed' = TRUE
        BY <2>2, <3>2 DEF OnDestroy
      <4>2. ~Open /\ event[g] = "destroy"
        BY <1>2, <2>2, <3>2 DEF OnDestroy
      <4> QED  BY <1>2, <4>1, <4>2
    <3> QED  BY <2>2, <3>1, <3>2 DEF OnDestroy
  <2> QED  BY <2>1, <2>2
<1>5. ~Open' /\ closed' \subseteq 1 .. stopSignal' /\ closed \subseteq closed'
  <2>1. CASE Open
    <3>1. closed' = closed \cup {stopSignal} /\ stopSignal' = stopSignal
      BY <1>3, <1>4, <2>1
    <3>2. stopSignal \in 1 .. stopSignal
      BY <1>3, <2>1, StartsAssumption DEF Open
    <3> QED  BY <1>3, <3>1, <3>2 DEF Open
  <2>2. CASE ~Open
    BY <1>3, <1>4, <2>2 DEF Open
  <2> QED  BY <2>1, <2>2
<1>6. TypeOK'
  <2>1. pc' \in [Goroutines -> {"idle", "entry", "callback", "destroy only", "waiting"}]
    BY <1>0 DEF Return, Inv, TypeOK
  <2>2. closed' \subseteq 0 .. MaxStarts
    BY <1>3, <1>5, StartsAssumption
  <2>3. destroyed' \in BOOLEAN /\ panicked' \in BOOLEAN
    BY <1>4
  <2> QED  BY <1>1, <1>3, <2>1, <2>2, <2>3 DEF Inv, TypeOK
<1>7. Settled'
  BY <1>2, <1>3, <1>4, <1>5 DEF Settled, Dst
<1>8. ChannelsMade' /\ Attached'
  BY <1>3, <1>5 DEF Inv, ChannelsMade, Attached
<1> QED  BY <1>1, <1>4, <1>6, <1>7, <1>8 DEF Inv

-----------------------------------------------------------------------------
\* The invariant is inductive.
LEMMA NextInv == Inv /\ [Next]_vars => Inv'
<1> SUFFICES ASSUME Inv, [Next]_vars PROVE Inv'
  OBVIOUS
<1>1. CASE \E g \in Callers : Call(g)
  BY <1>1, CallInv
<1>2. CASE \E g \in Goroutines : Fire(g)
  BY <1>2, RefuseElapseInv, TransitInv, OnStartInv, OnCloseInv DEF Fire
<1>3. CASE \E g \in Gens : Session(g)
  BY <1>3, SessionInv
<1>4. CASE UNCHANGED vars
  <2>1. TypeOK' /\ panicked' = FALSE /\ MutexHeld' /\ Settled'
    BY <1>4 DEF vars, Inv, TypeOK, MutexHeld, Settled, Open
  <2>2. Pending' /\ ChannelsMade' /\ Attached'
    BY <1>4 DEF vars, Inv, Open, Pending, ChannelsMade, Attached
  <2> QED  BY <2>1, <2>2 DEF Inv
<1> QED  BY <1>1, <1>2, <1>3, <1>4 DEF Next

LEMMA Invariance == Spec => []Inv
BY InitInv, NextInv, PTL DEF Spec

\* The variables stay in their types (client.go:81-123, proxy.go:78-115).
THEOREM TypeCorrect == Spec => []TypeOK
<1>1. Inv => TypeOK
  BY DEF Inv
<1> QED  BY <1>1, Invariance, PTL

\* No interleaving of the four methods and of the sessions' own restarts
\* closes stopSignal or destroySignal twice, or before it was made.
THEOREM NeverPanics == Spec => []NoPanic
<1>1. Inv => NoPanic
  BY Zenon DEF Inv, NoPanic
<1> QED  BY <1>1, Invariance, PTL

\* Between callbacks the stop channel is open exactly while the endpoint is
\* started, and the destroy channel is closed exactly when it is destroyed.
THEOREM SignalsFollowStatus == Spec => []SignalsMirrorStatus
<1>1. Inv => SignalsMirrorStatus
  BY DEF Inv, TypeOK, Settled, Open, SignalsMirrorStatus
<1> QED  BY <1>1, Invariance, PTL

\* Every live session listens to a channel that is closed or that the next
\* stop or destroy closes, and has been told to end when the endpoint is not
\* started: the channels before the current one are closed, and a late dial
\* takes none but the current one.
THEOREM NoSessionUntold == Spec => []SessionsInReach
<1>1. ASSUME Inv PROVE SessionsInReach
  <2> SUFFICES ASSUME NEW g \in Gens, session[g] = "live"
               PROVE  /\ sig[g] \in closed \cup {stopSignal}
                      /\ mutex = NoOne /\ status # "started" => sig[g] \in closed
    BY DEF SessionsInReach
  <2>1. stopSignal \in Nat /\ sig[g] \in 1 .. stopSignal
    BY <1>1, Made DEF Inv, Attached
  <2>2. sig[g] \in closed \cup {stopSignal}
    <3>1. CASE sig[g] = stopSignal
      BY <3>1
    <3>2. CASE sig[g] # stopSignal
      <4>1. sig[g] \in 1 .. stopSignal - 1
        BY <2>1, <3>2
      <4> QED  BY <1>1, <4>1 DEF Inv, ChannelsMade
    <3> QED  BY <3>1, <3>2
  <2>3. ASSUME mutex = NoOne, status # "started" PROVE stopSignal \in closed
    <3>1. stopSignal \in closed \cup {0}
      BY <1>1, <2>3 DEF Inv, Settled, Open
    <3> QED  BY <2>1, <3>1
  <2> QED  BY <2>2, <2>3
<1>2. Inv => SessionsInReach
  BY <1>1
<1> QED  BY <1>2, Invariance, PTL

\* After destroy there is no other state, no new stop channel and no new
\* session, also when a Restart was between its stop and its start.
THEOREM DestroyedForGood == Spec => DestroyIsFinal
<1> DEFINE Final == status = "destroied" =>
                      /\ status' = "destroied"
                      /\ stopSignal' = stopSignal
                      /\ \A g \in Gens : session[g] = "none" => session'[g] = "none"
<1>1. ASSUME Inv, [Next]_vars PROVE [Final]_vars
  <2> SUFFICES ASSUME Next, status = "destroied" PROVE Final
    BY <1>1
  <2>1. CASE \E g \in Callers : Call(g)
    BY <2>1 DEF Call, Start, Stop, Destroy, Restart, Untouched
  <2>2. ASSUME NEW g \in Goroutines, Fire(g) PROVE Final
    <3>1. CASE Refuse(g) \/ Elapse(g)
      BY <3>1 DEF Refuse, Elapse, Untouched
    <3>2. CASE Transit(g)
      BY <1>1, <3>2 DEF Transit, Src, Inv, TypeOK, Events
    <3>3. CASE OnStart(g)
      <4>1. mutex = g
        BY <1>1, <3>3 DEF OnStart, Inv, MutexHeld, InCallback
      <4> QED  BY <1>1, <3>3, <4>1 DEF OnStart, Inv, Pending, Dst
    <3>4. CASE OnStop(g) \/ OnDestroy(g)
      BY <3>4 DEF OnStop, OnDestroy, Return
    <3> QED  BY <2>2, <3>1, <3>2, <3>3, <3>4 DEF Fire
  <2>3. ASSUME NEW g \in Gens, Session(g) PROVE Final
    <3>1. Untouched /\ session[g] \in {"dialing", "live"}
          /\ \E s : session' = [session EXCEPT ![g] = s]
      BY <2>3 DEF Session, DialFails, Attach, LoseConn, LoseListener, StopSession
    <3> QED  BY <1>1, <3>1 DEF Untouched, Inv, TypeOK
  <2> QED  BY <2>1, <2>2, <2>3 DEF Next
<1> QED  BY <1>1, Invariance, PTL DEF Spec, DestroyIsFinal
=============================================================================
