-------------------------- MODULE CloseTriggerProofs --------------------------
(***************************************************************************)
(* Proofs about CloseTrigger, for any number of outside signals: types, no *)
(* handler runs twice, and a signal is never swallowed without a handler.  *)
(***************************************************************************)
EXTENDS CloseTrigger, TLAPS

\* Every step is one of the environment or of a waiting goroutine.
LEMMA Steps ==
  ASSUME [Next]_vars
  PROVE  \/ \E t \in Triggers : Signal(t)
         \/ UseFails
         \/ \E g \in Waiters : \/ Leave(g) \/ Win(g) \/ Check(g) \/ CloseOver(g)
                               \/ Handle(g) \/ CloseAfter(g)
         \/ UNCHANGED vars
  BY DEF Next, Waiter

-----------------------------------------------------------------------------
\* The types of everything but the number of times that handlers ran.
Typed ==
  /\ kind \in {"conn", "listener"} /\ closers \subseteq Triggers
  /\ fired \subseteq Triggers
  /\ isClose \in BOOLEAN /\ shut \in BOOLEAN /\ using \in BOOLEAN
  /\ over \in BOOLEAN /\ panicked \in BOOLEAN
  /\ pc \in [Waiters -> {"select", "check", "over", "handle", "close", "done"}]
  /\ ran \in [Waiters -> Nat]

LEMMA TypedInit == Init => Typed
<1> SUFFICES ASSUME Init PROVE Typed
  OBVIOUS
<1>1. ran \in [Waiters -> Nat]
  BY DEF Init
<1> QED
  BY <1>1 DEF Init, Typed, Waiters

LEMMA TypedStep == Typed /\ [Next]_vars => Typed'
<1> SUFFICES ASSUME Typed, [Next]_vars PROVE Typed'
  OBVIOUS
<1> USE DEF Typed, object, Waiters
<1>1. ASSUME NEW t \in Triggers, Signal(t) PROVE Typed'
  BY <1>1 DEF Signal
<1>2. CASE UseFails
  BY <1>2 DEF UseFails
<1>3. ASSUME NEW g \in Waiters, Leave(g) PROVE Typed'
  BY <1>3 DEF Leave
<1>4. ASSUME NEW g \in Waiters, Win(g) PROVE Typed'
  BY <1>4 DEF Win
<1>5. ASSUME NEW g \in Waiters, Check(g) PROVE Typed'
  BY <1>5 DEF Check
<1>6. ASSUME NEW g \in Waiters, CloseOver(g) PROVE Typed'
  BY <1>6 DEF CloseOver
<1>7. ASSUME NEW g \in Waiters, Handle(g) PROVE Typed'
  <2>1. ran' \in [Waiters -> Nat]
    BY <1>7 DEF Handle
  <2>2. /\ pc' \in [Waiters -> {"select", "check", "over", "handle", "close", "done"}]
        /\ shut' \in BOOLEAN /\ isClose' \in BOOLEAN
    BY <1>7 DEF Handle, Close
  <2> QED
    BY <1>7, <2>1, <2>2 DEF Handle
<1>8. ASSUME NEW g \in Waiters, CloseAfter(g) PROVE Typed'
  BY <1>8 DEF CloseAfter, Close
<1>9. CASE UNCHANGED vars
  BY <1>9 DEF vars
<1> QED
  BY <1>1, <1>2, <1>3, <1>4, <1>5, <1>6, <1>7, <1>8, <1>9, Steps

-----------------------------------------------------------------------------
\* over is closed by a goroutine that goes on to its handler.
OverHandled == over => \E h \in Waiters : ran[h] = 1 \/ pc[h] = "handle"

\* A handler runs on the way from waiting to closing, and there is no way back.
RanPast ==
  \A g \in Waiters :
    /\ pc[g] \in {"select", "check", "over", "handle"} => ran[g] = 0
    /\ pc[g] = "close" => ran[g] = 1
    /\ ran[g] \in 0 .. 1

Inv == Typed /\ OverHandled /\ SomeoneHandles /\ RanPast

LEMMA InvInit == Init => Inv
<1> SUFFICES ASSUME Init PROVE Inv
  OBVIOUS
<1>1. Typed
  BY TypedInit
<1>2. OverHandled /\ SomeoneHandles /\ RanPast
  BY DEF Init, OverHandled, SomeoneHandles, RanPast, Waiters
<1> QED
  BY <1>1, <1>2 DEF Inv

LEMMA InvStep == Inv /\ [Next]_vars => Inv'
<1> SUFFICES ASSUME Inv, [Next]_vars PROVE Inv'
  OBVIOUS
<1>0. Typed /\ Typed'
  BY TypedStep DEF Inv
<1> USE <1>0 DEF Inv, Typed, OverHandled, SomeoneHandles, RanPast, Waiters
<1>1. ASSUME NEW t \in Triggers, Signal(t) PROVE Inv'
  BY <1>1 DEF Signal
<1>2. CASE UseFails
  BY <1>2 DEF UseFails
<1>3. ASSUME NEW g \in Waiters, Leave(g) PROVE Inv'
  BY <1>3 DEF Leave
<1>4. ASSUME NEW g \in Waiters, Win(g) PROVE Inv'
  BY <1>4 DEF Win
<1>5. ASSUME NEW g \in Waiters, Check(g) PROVE Inv'
  <2>1. over => pc'[g] = "handle"
    BY <1>5 DEF Check
  <2> QED
    BY <1>5, <2>1 DEF Check
<1>6. ASSUME NEW g \in Waiters, CloseOver(g) PROVE Inv'
  <2>1. g \in Waiters /\ pc'[g] = "handle"
    BY <1>6 DEF CloseOver
  <2> QED
    BY <1>6, <2>1 DEF CloseOver
<1>7. ASSUME NEW g \in Waiters, Handle(g) PROVE Inv'
  <2>1. ran'[g] = 1 /\ pc'[g] \in {"close", "done"}
    BY <1>7 DEF Handle
  <2>2. \A h \in Waiters : h # g => ran'[h] = ran[h] /\ pc'[h] = pc[h]
    BY <1>7 DEF Handle
  <2>3. OverHandled' /\ SomeoneHandles'
    BY <2>1
  <2>4. RanPast'
    BY <2>1, <2>2
  <2> QED
    BY <2>3, <2>4
<1>8. ASSUME NEW g \in Waiters, CloseAfter(g) PROVE Inv'
  BY <1>8 DEF CloseAfter
<1>9. CASE UNCHANGED vars
  BY <1>9 DEF vars
<1> QED
  BY <1>1, <1>2, <1>3, <1>4, <1>5, <1>6, <1>7, <1>8, <1>9, Steps

LEMMA Invariance == Spec => []Inv
<1>1. QED
  BY InvInit, InvStep, PTL DEF Spec

\* The variables keep their types and no handler runs twice, for any number of
\* outside signals: a goroutine that handled its signal never waits again.
THEOREM TypeCorrect == Spec => []TypeOK
<1>1. Inv => TypeOK
  BY DEF Inv, Typed, RanPast, TypeOK
<1> QED
  BY <1>1, Invariance, PTL

\* A waiting goroutine gives up only in favour of one that runs its handler:
\* no signal is swallowed by two goroutines that leave it to each other.
THEOREM NoSignalSwallowed == Spec => []SomeoneHandles
<1>1. Inv => SomeoneHandles
  BY DEF Inv
<1> QED
  BY <1>1, Invariance, PTL
=============================================================================
