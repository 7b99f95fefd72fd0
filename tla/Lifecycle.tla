------------------------------ MODULE Lifecycle ------------------------------
(***************************************************************************)
(* The start / stop / restart / destroy life of an endpoint.               *)
(*                                                                         *)
(* endpoint/client/client.go and endpoint/proxy/proxy.go carry the same    *)
(* code: four methods that fire events of a looplab/fsm state machine, and *)
(* callbacks that make and close the channels every goroutine of a session *)
(* listens to.  A stop signal is a channel; the n-th one that the start    *)
(* callback makes is the number n, and 0 is the nil channel of an endpoint *)
(* that was never started.                                                 *)
(*                                                                         *)
(* Goroutines: API callers of the methods, and one session goroutine per   *)
(* start (listenProxy, startListen).  The session reads the field          *)
(* p.stopSignal only after its dial or listen returned, so it may attach   *)
(* to a signal made after it was spawned.                                  *)
(***************************************************************************)
EXTENDS Naturals

CONSTANTS Callers,     \* goroutines that call the endpoint's methods
          MaxStarts,   \* bound: how many start events the model lets succeed
          NoOne        \* the event mutex is free

ASSUME CallersAssumption == Callers \cap Nat = {} /\ NoOne \notin Callers \cup Nat
ASSUME StartsAssumption  == MaxStarts \in Nat

VARIABLES
  role,          \* "client" or "proxy": they differ when a session is lost
  status,        \* fsm.Current()
  stopSignal,    \* p.stopSignal: the number of the current stop channel
  closed,        \* the stop channels that are closed
  destroyed,     \* p.destroySignal is closed
  mutex,         \* fsm.eventMu: who runs the callback of an event
  pc, event,     \* per goroutine: where it is, the event it fires
  restarting,    \* per goroutine: it is inside Restart, before its second event
  session, sig,  \* per start: the session goroutine, the channel it listens to
  panicked       \* a closed (or nil) channel was closed: the process is gone

vars == <<role, status, stopSignal, closed, destroyed, mutex, pc, event, restarting,
          session, sig, panicked>>

Gens       == 1 .. MaxStarts
Goroutines == Callers \cup Gens
Statuses   == {"stoped", "started", "destroied"}
Events     == {"start", "stop", "destroy"}

\* Variants of the transition table: start accepted in a further state, and
\* a stop that leads to a state the table does not know.
SrcRestartable(e) == CASE e = "start"   -> {"stoped", "started"}
                       [] e = "stop"    -> {"started"}
                       [] e = "destroy" -> {"started", "stoped"}
SrcRevivable(e)   == CASE e = "start"   -> {"stoped", "destroied"}
                       [] e = "stop"    -> {"started"}
                       [] e = "destroy" -> {"started", "stoped"}
DstMisspelt(e)    == CASE e = "start"   -> "started"
                       [] e = "stop"    -> "stopped"
                       [] e = "destroy" -> "destroied"

\* The transition table given to fsm.NewFSM.
Src(e) == CASE e = "start"   -> {"stoped"}
            [] e = "stop"    -> {"started"}
            [] e = "destroy" -> {"started", "stoped"}
Dst(e) == CASE e = "start"   -> "started"
            [] e = "stop"    -> "stoped"
            [] e = "destroy" -> "destroied"

Init ==
  /\ role \in {"client", "proxy"}
  /\ status = "stoped" /\ stopSignal = 0 /\ closed = {} /\ destroyed = FALSE
  /\ mutex = NoOne /\ panicked = FALSE
  /\ pc = [g \in Goroutines |-> "idle"]
  /\ event = [g \in Goroutines |-> "start"]
  /\ restarting = [g \in Goroutines |-> FALSE]
  /\ session = [g \in Gens |-> "none"]
  /\ sig = [g \in Gens |-> 0]

-----------------------------------------------------------------------------
\* Enter(g, e, r): goroutine g is about to fire event e; r: from Restart.
Enter(g, e, r) ==
  /\ pc[g] = "idle"
  /\ pc' = [pc EXCEPT ![g] = "entry"]
  /\ event' = [event EXCEPT ![g] = e]
  /\ restarting' = [restarting EXCEPT ![g] = r]

Untouched == UNCHANGED <<role, status, stopSignal, closed, destroyed, mutex, panicked>>

Start(g)   == Enter(g, "start", FALSE)   /\ Untouched /\ UNCHANGED <<session, sig>>
Stop(g)    == Enter(g, "stop", FALSE)    /\ Untouched /\ UNCHANGED <<session, sig>>
Destroy(g) == Enter(g, "destroy", FALSE) /\ Untouched /\ UNCHANGED <<session, sig>>
Restart(g) == Enter(g, "stop", TRUE)     /\ Untouched /\ UNCHANGED <<session, sig>>

\* fsm.Event with no transition from the current state: the error is
\* returned to the caller, and Restart returns it without its second event.
Refuse(g) ==
  /\ pc[g] = "entry" /\ mutex = NoOne
  /\ status \notin Src(event[g])
  /\ pc' = [pc EXCEPT ![g] = "idle"]
  /\ restarting' = [restarting EXCEPT ![g] = FALSE]
  /\ Untouched /\ UNCHANGED <<event, session, sig>>

\* fsm.Event with a transition: the state changes first and is visible to
\* Status(); the callback runs after it, still under the event mutex.
Transit(g) ==
  /\ pc[g] = "entry" /\ mutex = NoOne
  /\ status \in Src(event[g])
  /\ event[g] = "start" => stopSignal < MaxStarts
  /\ status' = Dst(event[g])
  /\ mutex' = g
  /\ pc' = [pc EXCEPT ![g] = IF event[g] = "destroy" /\ status = "stoped"
                             THEN "destroy only" ELSE "callback"]
  /\ UNCHANGED <<role, stopSignal, closed, destroyed, event, restarting, session,
                 sig, panicked>>

\* close(p.stopSignal); panics when the channel is closed or nil.
CloseStopSignal ==
  /\ panicked' = (stopSignal \in closed \cup {0})
  /\ closed' = closed \cup {stopSignal}

\* The callback is over: the mutex is released and the method returns, or
\* Restart goes on to wait.
Return(g) ==
  /\ mutex' = NoOne
  /\ pc' = [pc EXCEPT ![g] = IF restarting[g] THEN "waiting" ELSE "idle"]
  /\ UNCHANGED <<role, status, event, restarting, sig>>

\* Callback of start: a new stop channel, empty maps, and a new session.
OnStart(g) ==
  /\ pc[g] = "callback" /\ event[g] = "start"
  /\ stopSignal' = stopSignal + 1
  /\ session' = [session EXCEPT ![stopSignal + 1] = "dialing"]
  /\ Return(g)
  /\ UNCHANGED <<closed, destroyed, panicked>>

\* Variant: stop forgets to close the channel.
OnStopSilent(g) ==
  /\ pc[g] = "callback" /\ event[g] = "stop"
  /\ Return(g)
  /\ UNCHANGED <<stopSignal, closed, destroyed, session, panicked>>

OnStop(g) ==
  /\ pc[g] = "callback" /\ event[g] = "stop"
  /\ CloseStopSignal
  /\ Return(g)
  /\ UNCHANGED <<stopSignal, destroyed, session>>

\* Variants: destroy closes the stop channel whatever the source state was,
\* or never closes it.
OnDestroyAlways(g) ==
  /\ event[g] = "destroy" /\ pc[g] \in {"callback", "destroy only"}
  /\ CloseStopSignal
  /\ destroyed' = TRUE
  /\ Return(g)
  /\ UNCHANGED <<stopSignal, session>>

OnDestroyNever(g) ==
  /\ event[g] = "destroy" /\ pc[g] \in {"callback", "destroy only"}
  /\ panicked' = destroyed
  /\ destroyed' = TRUE
  /\ Return(g)
  /\ UNCHANGED <<stopSignal, closed, session>>

\* Callback of destroy: the stop channel is closed only when the endpoint
\* comes from the started state; closing p.destroySignal twice would panic.
OnDestroy(g) ==
  /\ event[g] = "destroy"
  /\ \/ pc[g] = "callback" /\ CloseStopSignal
     \/ pc[g] = "destroy only" /\ panicked' = destroyed /\ UNCHANGED closed
  /\ destroyed' = TRUE
  /\ Return(g)
  /\ UNCHANGED <<stopSignal, session>>

\* Variant: Restart returns after its wait without the start event.
ElapseOnly(g) ==
  /\ pc[g] = "waiting"
  /\ pc' = [pc EXCEPT ![g] = "idle"]
  /\ restarting' = [restarting EXCEPT ![g] = FALSE]
  /\ Untouched /\ UNCHANGED <<event, session, sig>>

\* Restart: restart_interval seconds after its stop, the start event.
Elapse(g) ==
  /\ pc[g] = "waiting"
  /\ pc' = [pc EXCEPT ![g] = "entry"]
  /\ event' = [event EXCEPT ![g] = "start"]
  /\ restarting' = [restarting EXCEPT ![g] = FALSE]
  /\ Untouched /\ UNCHANGED <<session, sig>>

-----------------------------------------------------------------------------
\* Variant: the session goroutine gives up silently when its dial fails.
DialGivesUp(g) ==
  /\ session[g] = "dialing"
  /\ session' = [session EXCEPT ![g] = "ended"]
  /\ Untouched /\ UNCHANGED <<pc, event, restarting, sig>>

\* net.Dial or net.Listen failed: the session goroutine calls Restart.
DialFails(g) ==
  /\ session[g] = "dialing"
  /\ Enter(g, "stop", TRUE)
  /\ session' = [session EXCEPT ![g] = "ended"]
  /\ Untouched /\ UNCHANGED sig

\* The dial succeeded: AddCloseTrigger takes the channel now in p.stopSignal.
Attach(g) ==
  /\ session[g] = "dialing"
  /\ session' = [session EXCEPT ![g] = "live"]
  /\ sig' = [sig EXCEPT ![g] = stopSignal]
  /\ Untouched /\ UNCHANGED <<pc, event, restarting>>

\* The client's connection is lost, or its hello is refused or times out: Restart.
LoseConn(g) ==
  /\ role = "client" /\ session[g] = "live"
  /\ Enter(g, "stop", TRUE)
  /\ session' = [session EXCEPT ![g] = "ended"]
  /\ Untouched /\ UNCHANGED sig

\* The proxy's listener fails in Accept: its self handler only logs, so the
\* accept loop ends and the endpoint stays started without a session.
LoseListener(g) ==
  /\ role = "proxy" /\ session[g] = "live"
  /\ session' = [session EXCEPT ![g] = "ended"]
  /\ Untouched /\ UNCHANGED <<pc, event, restarting, sig>>

\* The stop signal's close trigger closes the session's connection.
StopSession(g) ==
  /\ session[g] = "live" /\ sig[g] \in closed
  /\ session' = [session EXCEPT ![g] = "ended"]
  /\ Untouched /\ UNCHANGED <<pc, event, restarting, sig>>

-----------------------------------------------------------------------------
Call(g)    == Start(g) \/ Stop(g) \/ Destroy(g) \/ Restart(g)
Fire(g)    == Refuse(g) \/ Transit(g) \/ OnStart(g) \/ OnStop(g) \/ OnDestroy(g)
                \/ Elapse(g)
Session(g) == DialFails(g) \/ Attach(g) \/ LoseConn(g) \/ LoseListener(g)
                \/ StopSession(g)

Next == /\ ~panicked
        /\ \/ \E g \in Callers : Call(g)
           \/ \E g \in Goroutines : Fire(g)
           \/ \E g \in Gens : Session(g)

Spec == Init /\ [][Next]_vars

\* The Go scheduler runs every runnable goroutine, a dial returns, the timer
\* of Restart fires and eventMu is handed to every waiter.
Fairness ==
  /\ \A g \in Goroutines : SF_vars(Refuse(g) \/ Transit(g))
  /\ \A g \in Goroutines : WF_vars(OnStart(g) \/ OnStop(g) \/ OnDestroy(g) \/ Elapse(g))
  /\ \A g \in Gens : WF_vars(DialFails(g) \/ Attach(g)) /\ WF_vars(StopSession(g))

FairSpec == Spec /\ Fairness

-----------------------------------------------------------------------------
TypeOK ==
  /\ role \in {"client", "proxy"}
  /\ status \in Statuses
  /\ stopSignal \in 0 .. MaxStarts
  /\ closed \subseteq 0 .. MaxStarts
  /\ destroyed \in BOOLEAN /\ panicked \in BOOLEAN
  /\ mutex \in Goroutines \cup {NoOne}
  /\ pc \in [Goroutines -> {"idle", "entry", "callback", "destroy only", "waiting"}]
  /\ event \in [Goroutines -> Events]
  /\ restarting \in [Goroutines -> BOOLEAN]
  /\ session \in [Gens -> {"none", "dialing", "live", "ended"}]
  /\ sig \in [Gens -> 0 .. MaxStarts]

\* No interleaving of callers closes a channel that is nil or already closed:
\* a second close(p.stopSignal) or close(p.destroySignal) would kill the
\* process.
NoPanic == ~panicked

\* Whenever no callback is running, the channels say what the state machine
\* says: the current stop channel is open exactly while the endpoint is
\* started, and the destroy channel is closed exactly when it is destroyed.
SignalsMirrorStatus ==
  mutex = NoOne =>
    /\ status = "started" <=> stopSignal \notin closed \cup {0}
    /\ status = "destroied" <=> destroyed

\* No session is out of the endpoint's reach.  A live session listens to a
\* channel that is closed already or that the next stop or destroy closes,
\* also one whose dial returned after its successor was launched and that so
\* took the successor's channel; and whenever no callback is running and the
\* endpoint is not started, every live session has been told to end.
SessionsInReach ==
  \A g \in Gens : session[g] = "live" =>
    /\ sig[g] \in closed \cup {stopSignal}
    /\ mutex = NoOne /\ status # "started" => sig[g] \in closed

\* Destroy is final: no state change, no new stop channel and no new session
\* after it, whatever Restart was waiting when it came.
DestroyIsFinal ==
  [][status = "destroied" =>
       /\ status' = "destroied"
       /\ stopSignal' = stopSignal
       /\ \A g \in Gens : session[g] = "none" => session'[g] = "none"]_vars

\* A Restart that stopped the endpoint brings it back, unless somebody
\* destroyed it (or the model's bound on starts is reached).
RestartBringsBack ==
  \A g \in Goroutines :
    pc[g] = "waiting" ~> \/ status \in {"started", "destroied"}
                         \/ stopSignal = MaxStarts

\* A started client gets a session on the current stop channel or leaves the
\* started state: a failed dial or a lost connection is never the end of it.
StartedHasSession ==
  role = "client" /\ status = "started"
    ~> status # "started" \/ \E g \in Gens : session[g] = "live" /\ sig[g] = stopSignal

\* Destroy ends every session, also one whose dial was still under way and
\* that attached to the stop channel only afterwards.
DestroyEndsSessions ==
  destroyed ~> [](\A g \in Gens : session[g] \notin {"dialing", "live"})
=============================================================================
