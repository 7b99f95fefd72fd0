----------------------------- MODULE CloseTrigger -----------------------------
(***************************************************************************)
(* AddCloseTrigger of net/conn.go and net/listener.go: the goroutines that *)
(* wait for the first of several close signals of a connection or listener *)
(* and run the handler of the signal that came.                            *)
(*                                                                         *)
(* One goroutine waits for the object's own close signal, one for each     *)
(* outside signal; the channel "over" is to tell the others that one of    *)
(* them has won.  The user of the object (a reader, an accept loop) fails  *)
(* once the socket is closed, or on its own, and gives the own signal.     *)
(***************************************************************************)
EXTENDS Naturals, FiniteSets

CONSTANTS Triggers,   \* the outside signals
          Self        \* the goroutine of the object's own signal

ASSUME SelfAssumption == Self \notin Triggers

VARIABLES
  kind,       \* "conn" or "listener", which close differently
  closers,    \* the outside signals whose handlers close the object themselves
  fired,      \* the outside signals that were given
  isClose,    \* the object's own close signal was given
  shut,       \* the underlying socket is closed
  using,      \* the user of the object is still in its loop
  over,       \* the channel over is closed
  pc,         \* per goroutine
  ran,        \* per goroutine: how often its handler ran
  panicked    \* over was closed twice

object == <<kind, closers>>
vars   == <<object, fired, isClose, shut, using, over, pc, ran, panicked>>

Waiters == Triggers \cup {Self}

Init ==
  /\ kind \in {"conn", "listener"} /\ closers \in SUBSET Triggers
  /\ fired = {} /\ isClose = FALSE /\ shut = FALSE /\ using = TRUE
  /\ over = FALSE /\ pc = [g \in Waiters |-> "select"] /\ ran = [g \in Waiters |-> 0]
  /\ panicked = FALSE

Signalled(g) == IF g = Self THEN isClose ELSE g \in fired

\* Somebody closes an outside signal: a stop, or another object's close.
Signal(t) ==
  /\ t \notin fired
  /\ fired' = fired \cup {t}
  /\ UNCHANGED <<object, isClose, shut, using, over, pc, ran, panicked>>

\* Read, Write or Accept fails: the user gives the own signal and leaves.
UseFails ==
  /\ using
  /\ isClose' = TRUE /\ using' = FALSE
  /\ UNCHANGED <<object, fired, shut, over, pc, ran, panicked>>

\* Close of IPConn always gives the own signal, Close of IPListener only when
\* the socket is closed already.
Close ==
  /\ shut' = TRUE
  /\ isClose' = (isClose \/ kind = "conn" \/ shut)

-----------------------------------------------------------------------------
\* Variant: one signal, once given, lets every waiter go without a handler.
LeaveEarly(g) ==
  /\ pc[g] = "select" /\ (over \/ fired # {} \/ isClose)
  /\ pc' = [pc EXCEPT ![g] = "done"]
  /\ UNCHANGED <<object, fired, isClose, shut, using, over, ran, panicked>>

\* select: over, and somebody else's signal counts.
Leave(g) ==
  /\ pc[g] = "select" /\ over
  /\ pc' = [pc EXCEPT ![g] = "done"]
  /\ UNCHANGED <<object, fired, isClose, shut, using, over, ran, panicked>>

\* select: the own signal of the goroutine, chosen at random if over is ready too.
Win(g) ==
  /\ pc[g] = "select" /\ Signalled(g)
  /\ pc' = [pc EXCEPT ![g] = "check"]
  /\ UNCHANGED <<object, fired, isClose, shut, using, over, ran, panicked>>

\* The inner select: over is found closed, or goes on to be closed.
Check(g) ==
  /\ pc[g] = "check"
  /\ pc' = [pc EXCEPT ![g] = IF over THEN "handle" ELSE "over"]
  /\ UNCHANGED <<object, fired, isClose, shut, using, over, ran, panicked>>

\* Variant: over is never closed.
KeepOver(g) ==
  /\ pc[g] = "over"
  /\ pc' = [pc EXCEPT ![g] = "handle"]
  /\ UNCHANGED <<object, fired, isClose, shut, using, over, ran, panicked>>

CloseOver(g) ==
  /\ pc[g] = "over"
  /\ over' = TRUE /\ panicked' = over
  /\ pc' = [pc EXCEPT ![g] = "handle"]
  /\ UNCHANGED <<object, fired, isClose, shut, using, ran>>

\* Variant: the goroutine waits in a loop and does not return.
HandleAgain(g) ==
  /\ pc[g] = "handle"
  /\ ran' = [ran EXCEPT ![g] = @ + 1]
  /\ pc' = [pc EXCEPT ![g] = "select"]
  /\ IF g \in Triggers THEN Close ELSE UNCHANGED <<shut, isClose>>
  /\ UNCHANGED <<object, fired, using, over, panicked>>

\* The handler, which may close the object; the own signal's goroutine is done
\* after it, the others close the object.
Handle(g) ==
  /\ pc[g] = "handle"
  /\ ran' = [ran EXCEPT ![g] = @ + 1]
  /\ pc' = [pc EXCEPT ![g] = IF g = Self THEN "done" ELSE "close"]
  /\ IF g \in closers THEN Close ELSE UNCHANGED <<shut, isClose>>
  /\ UNCHANGED <<object, fired, using, over, panicked>>

\* Variant: the object is left open after the handler.
CloseAfterNot(g) ==
  /\ pc[g] = "close"
  /\ pc' = [pc EXCEPT ![g] = "done"]
  /\ UNCHANGED <<object, fired, isClose, shut, using, over, ran, panicked>>

CloseAfter(g) ==
  /\ pc[g] = "close"
  /\ Close
  /\ pc' = [pc EXCEPT ![g] = "done"]
  /\ UNCHANGED <<object, fired, using, over, ran, panicked>>

-----------------------------------------------------------------------------
Waiter(g) == Leave(g) \/ Win(g) \/ Check(g) \/ CloseOver(g) \/ Handle(g) \/ CloseAfter(g)

Next == /\ ~panicked
        /\ \/ \E t \in Triggers : Signal(t)
           \/ UseFails
           \/ \E g \in Waiters : Waiter(g)

Spec == Init /\ [][Next]_vars

\* Every goroutine that can run does, and a loop over a closed socket fails.
Fairness == /\ \A g \in Waiters : WF_vars(~panicked /\ Waiter(g))
            /\ WF_vars(~panicked /\ shut /\ UseFails)

FairSpec == Spec /\ Fairness

-----------------------------------------------------------------------------
TypeOK ==
  /\ kind \in {"conn", "listener"} /\ closers \subseteq Triggers
  /\ fired \subseteq Triggers
  /\ isClose \in BOOLEAN /\ shut \in BOOLEAN /\ using \in BOOLEAN
  /\ over \in BOOLEAN /\ panicked \in BOOLEAN
  /\ pc \in [Waiters -> {"select", "check", "over", "handle", "close", "done"}]
  /\ ran \in [Waiters -> 0 .. 1]

\* A goroutine goes away without having run its handler only because another
\* one runs its own: no signal is swallowed by two that wait for each other.
SomeoneHandles ==
  \A g \in Waiters : pc[g] = "done" /\ ran[g] = 0 =>
    \E h \in Waiters : ran[h] = 1 \/ pc[h] = "handle"

\* The inner select is there to close over only once (net/conn.go:89-93,
\* 106-110; net/listener.go:68-72, 85-89).
OverClosedOnce == ~panicked

\* Whatever signal comes, the object's own signal follows and every goroutine
\* that waited ends: nobody who selects on CloseSignal() waits for ever.
AllReleased ==
  (fired # {} \/ isClose) ~>
    panicked \/ (isClose /\ \A g \in Waiters : pc[g] = "done")

\* An outside signal gets the socket closed, whichever goroutine wins and
\* whether or not its handler closes the object: by CloseAfter, unless it is
\* the object's own signal that is handled, which closes nothing.
SocketReleased == fired # {} ~> panicked \/ shut \/ ran[Self] = 1
=============================================================================
