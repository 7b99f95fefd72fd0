------------------------------- MODULE SerialNo -------------------------------
(***************************************************************************)
(* newSerialNo of the client and of the proxy: a counter that goroutines   *)
(* share.  The wrap around, the increment and the read of the result are   *)
(* three separate accesses, and the last one is a plain read.              *)
(*                                                                         *)
(* A proxy that serves several ports has an accept loop per port, and each *)
(* draws the number (cID) of a new connection here.                        *)
(***************************************************************************)
EXTENDS Integers

CONSTANTS Callers,    \* goroutines that draw numbers
          MaxNo,      \* math.MaxUint16
          MaxDraws    \* bound: how many increments the model lets happen

ASSUME MaxAssumption == MaxNo \in Nat \ {0} /\ MaxDraws \in Nat

VARIABLES
  seq,     \* p.seq
  pc,      \* per caller: which of the three accesses comes next
  num,     \* per caller: the last number it drew, or -1
  draws,   \* history: the increments so far
  last,    \* history: the largest number handed out so far
  floor    \* history: per caller, last when its call began

vars == <<seq, pc, num, draws, last, floor>>

Init ==
  /\ seq = 0 /\ draws = 0 /\ last = 0
  /\ pc = [g \in Callers |-> "idle"]
  /\ num = [g \in Callers |-> -1]
  /\ floor = [g \in Callers |-> 0]

Call(g) ==
  /\ pc[g] = "idle"
  /\ pc' = [pc EXCEPT ![g] = "cas"]
  /\ num' = [num EXCEPT ![g] = -1]
  /\ floor' = [floor EXCEPT ![g] = last]
  /\ UNCHANGED <<seq, draws, last>>

\* Variant: the counter goes back to 0 half way.
WrapEarly(g) ==
  /\ pc[g] = "cas"
  /\ seq' = IF 2 * seq >= MaxNo THEN 0 ELSE seq
  /\ pc' = [pc EXCEPT ![g] = "add"]
  /\ UNCHANGED <<num, draws, last, floor>>

\* atomic.CompareAndSwapInt32(&p.seq, math.MaxUint16, 0)
Wrap(g) ==
  /\ pc[g] = "cas"
  /\ seq' = IF seq = MaxNo THEN 0 ELSE seq
  /\ pc' = [pc EXCEPT ![g] = "add"]
  /\ UNCHANGED <<num, draws, last, floor>>

\* atomic.AddInt32(&p.seq, 1)
Add(g) ==
  /\ pc[g] = "add" /\ draws < MaxDraws
  /\ seq' = seq + 1 /\ draws' = draws + 1
  /\ pc' = [pc EXCEPT ![g] = "read"]
  /\ UNCHANGED <<num, last, floor>>

\* Variant: the result is not cut to 16 bits.
ReadWide(g) ==
  /\ pc[g] = "read"
  /\ num' = [num EXCEPT ![g] = seq]
  /\ last' = IF seq > last THEN seq ELSE last
  /\ pc' = [pc EXCEPT ![g] = "idle"]
  /\ UNCHANGED <<seq, draws, floor>>

\* return uint16(p.seq)
Read(g) ==
  /\ pc[g] = "read"
  /\ num' = [num EXCEPT ![g] = seq % (MaxNo + 1)]
  /\ last' = IF num'[g] > last THEN num'[g] ELSE last
  /\ pc' = [pc EXCEPT ![g] = "idle"]
  /\ UNCHANGED <<seq, draws, floor>>

newSerialNo(g) == Call(g) \/ Wrap(g) \/ Add(g) \/ Read(g)

Next == \E g \in Callers : newSerialNo(g)

Spec == Init /\ [][Next]_vars

-----------------------------------------------------------------------------
TypeOK ==
  /\ seq \in Nat /\ draws \in 0 .. MaxDraws /\ last \in 0 .. MaxNo
  /\ pc \in [Callers -> {"idle", "cas", "add", "read"}]
  /\ num \in [Callers -> -1 .. MaxNo]
  /\ floor \in [Callers -> 0 .. MaxNo]

\* Until the counter first comes round, a call returns a number that no call
\* that ended before it began has returned.
Fresh ==
  \A g \in Callers : draws < MaxNo /\ num[g] # -1 => num[g] > floor[g]

\* The numbers that two goroutines hold at the same time differ, as the cID
\* "generated" for each browser connection has to (ip.graphml:443).
NoTwins ==
  \A g, h \in Callers : g # h /\ num[g] # -1 => num[g] # num[h]
=============================================================================
