---------------------------- MODULE SerialNoProofs ----------------------------
(***************************************************************************)
(* For any number of callers and any width of the counter: a call that     *)
(* begins after another one ended draws a different number, until the      *)
(* counter first comes round.                                              *)
(***************************************************************************)
EXTENDS SerialNo, TLAPS

\* Before it comes round the counter counts the increments, and a caller that
\* has incremented it will read more than its floor.
Counts ==
  draws < MaxNo =>
    /\ seq = draws /\ last <= seq
    /\ \A g \in Callers : floor[g] <= last
    /\ \A g \in Callers : pc[g] = "read" => floor[g] < seq

Inv == TypeOK /\ Counts /\ Fresh

-----------------------------------------------------------------------------
\* Truncation to 16 bits yields a number, and leaves a small one as it is.
LEMMA Truncate ==
  ASSUME NEW n \in Nat
  PROVE  n % (MaxNo + 1) \in 0 .. MaxNo /\ (n <= MaxNo => n % (MaxNo + 1) = n)
BY MaxAssumption

LEMMA InitInv == Init => Inv
BY MaxAssumption DEF Init, Inv, TypeOK, Counts, Fresh

LEMMA StepInv == ASSUME Inv, NEW g \in Callers, newSerialNo(g) PROVE Inv'
<1> USE DEF Inv
<1>1. CASE Call(g)
  <2>1. TypeOK'
    BY <1>1, MaxAssumption DEF Call, TypeOK
  <2>2. Counts'
    BY <1>1 DEF Call, TypeOK, Counts
  <2>3. Fresh'
    BY <1>1 DEF Call, TypeOK, Fresh
  <2> QED  BY <2>1, <2>2, <2>3
<1>2. CASE Wrap(g)
  <2>1. TypeOK'
    BY <1>2 DEF Wrap, TypeOK
  <2>2. Counts'
    BY <1>2, MaxAssumption DEF Wrap, TypeOK, Counts
  <2>3. Fresh'
    BY <1>2 DEF Wrap, TypeOK, Fresh
  <2> QED  BY <2>1, <2>2, <2>3
<1>3. CASE Add(g)
  <2>1. TypeOK'
    BY <1>3, MaxAssumption DEF Add, TypeOK
  <2>2. Counts'
    BY <1>3, MaxAssumption DEF Add, TypeOK, Counts
  <2>3. Fresh'
    BY <1>3, MaxAssumption DEF Add, TypeOK, Fresh
  <2> QED  BY <2>1, <2>2, <2>3
<1>4. CASE Read(g)
  <2>1. num' = [num EXCEPT ![g] = seq % (MaxNo + 1)]
        /\ num'[g] = seq % (MaxNo + 1) /\ num'[g] \in 0 .. MaxNo
    BY <1>4, Truncate DEF Read, TypeOK
  <2>2. TypeOK'
    BY <1>4, <2>1, MaxAssumption DEF Read, TypeOK
  <2>3. ASSUME draws < MaxNo PROVE num'[g] = seq /\ floor[g] < seq
    <3>1. seq = draws /\ floor[g] < seq /\ seq <= MaxNo
      BY <1>4, <2>3, MaxAssumption DEF Read, TypeOK, Counts
    <3> QED  BY <2>1, <3>1, Truncate DEF TypeOK
  <2>4. last' \in 0 .. MaxNo /\ last' >= last /\ (draws < MaxNo => last' <= seq)
    BY <1>4, <2>1, <2>3, MaxAssumption DEF Read, TypeOK, Counts
  <2>5. Counts'
    <3> SUFFICES ASSUME draws < MaxNo
                 PROVE  /\ seq = draws /\ last' <= seq
                        /\ \A h \in Callers : floor[h] <= last'
                        /\ \A h \in Callers : pc'[h] = "read" => floor[h] < seq
      BY <1>4 DEF Read, Counts
    <3>1. \A h \in Callers : floor[h] <= last'
      BY <2>4 DEF TypeOK, Counts
    <3>2. \A h \in Callers : pc'[h] = "read" => pc[h] = "read"
      BY <1>4 DEF Read, TypeOK
    <3> QED  BY <2>4, <3>1, <3>2 DEF Counts
  <2>6. Fresh'
    <3> SUFFICES ASSUME NEW h \in Callers, draws < MaxNo, num'[h] # -1
                 PROVE  num'[h] > floor[h]
      BY <1>4 DEF Read, Fresh
    <3>1. CASE h = g
      BY <2>3, <3>1 DEF TypeOK
    <3>2. CASE h # g
      <4>1. num'[h] = num[h]
        BY <2>1, <3>2 DEF TypeOK
      <4> QED  BY <4>1 DEF Fresh
    <3> QED  BY <3>1, <3>2
  <2> QED  BY <2>2, <2>5, <2>6
<1> QED  BY <1>1, <1>2, <1>3, <1>4 DEF newSerialNo

LEMMA Invariance == Spec => []Inv
<1>1. Inv /\ [Next]_vars => Inv'
  <2> SUFFICES ASSUME Inv, [Next]_vars PROVE Inv'
    OBVIOUS
  <2>1. CASE Next
    BY <2>1, StepInv DEF Next
  <2>2. CASE UNCHANGED vars
    BY <2>2 DEF vars, Inv, TypeOK, Counts, Fresh
  <2> QED  BY <2>1, <2>2
<1> QED  BY InitInv, <1>1, PTL DEF Spec

\* The counter is 32 bits wide for its callers and what they read of it 16: a
\* number is never 2^16 or more, whoever increments or resets between the two.
THEOREM TypeCorrect == Spec => []TypeOK
<1>1. Inv => TypeOK
  BY DEF Inv
<1> QED  BY Invariance, <1>1, PTL

\* Numbers do not repeat from one call to a later one: the cID of a connection
\* is not that of a connection accepted before, as long as the counter has not
\* come round (proxy.go:499-503, client.go:478-482).
THEOREM FreshNumbers == Spec => []Fresh
<1>1. Inv => Fresh
  BY DEF Inv
<1> QED  BY Invariance, <1>1, PTL
=============================================================================
