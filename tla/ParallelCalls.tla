---------------------------- MODULE ParallelCalls ----------------------------
(***************************************************************************)
(* What a client of MT::ThreadPool may rely on, with no thread, queue or    *)
(* lock in sight: a call runs its callback once for each index, in any      *)
(* order and with any overlap, and closes (executeParallel returns, or      *)
(* finishedCallback is run) only when all of them have ended.               *)
(***************************************************************************)
EXTENDS Integers

CONSTANTS MaxCalls, MaxCount

Calls == 1..MaxCalls
Indices == 0..(MaxCount - 1)

VARIABLES phase, count, begun, ended

vars == <<phase, count, begun, ended>>

Init ==
  /\ phase = [x \in Calls |-> "unborn"]
  /\ count = [x \in Calls |-> 0]
  /\ begun = [x \in Calls |-> {}]
  /\ ended = [x \in Calls |-> {}]

\* A call is made, to run n indices.
Open(x, n) ==
  /\ phase[x] = "unborn"
  /\ phase' = [phase EXCEPT ![x] = "open"]
  /\ count' = [count EXCEPT ![x] = n]
  /\ UNCHANGED <<begun, ended>>

\* A call of one index is run by its caller; a call of none is over at once.
OpenInline(x) ==
  /\ phase[x] = "unborn"
  /\ phase' = [phase EXCEPT ![x] = "open"]
  /\ count' = [count EXCEPT ![x] = 1]
  /\ begun' = [begun EXCEPT ![x] = {0}]
  /\ UNCHANGED ended

OpenEmpty(x) ==
  /\ phase[x] = "unborn"
  /\ phase' = [phase EXCEPT ![x] = "closed"]
  /\ UNCHANGED <<count, begun, ended>>

Begin(x, i) ==
  /\ phase[x] = "open"
  /\ i < count[x]
  /\ i \notin begun[x]
  /\ begun' = [begun EXCEPT ![x] = @ \union {i}]
  /\ UNCHANGED <<phase, count, ended>>

End(x, i) ==
  /\ phase[x] = "open"
  /\ i \in begun[x] \ ended[x]
  /\ ended' = [ended EXCEPT ![x] = @ \union {i}]
  /\ UNCHANGED <<phase, count, begun>>

AllEnded(x) == ended[x] = 0..(count[x] - 1)

Close(x) ==
  /\ phase[x] = "open"
  /\ AllEnded(x)
  /\ phase' = [phase EXCEPT ![x] = "closed"]
  /\ UNCHANGED <<count, begun, ended>>

\* The end of an inline call.
EndInline(x) ==
  /\ phase[x] = "open"
  /\ count[x] = 1
  /\ begun[x] = {0}
  /\ ended[x] = {}
  /\ ended' = [ended EXCEPT ![x] = {0}]
  /\ phase' = [phase EXCEPT ![x] = "closed"]
  /\ UNCHANGED <<count, begun>>

Next ==
  \E x \in Calls :
    \/ \E n \in 1..MaxCount : Open(x, n)
    \/ OpenInline(x) \/ OpenEmpty(x)
    \/ \E i \in Indices : Begin(x, i) \/ End(x, i)
    \/ Close(x) \/ EndInline(x)

Spec == Init /\ [][Next]_vars
=============================================================================
