---------------------------- MODULE TokenBucket ----------------------------
(***************************************************************************)
(* What the rate limiter promises: one bucket per host that is never       *)
(* forgotten, refilled with every tick up to its capacity.                 *)
(***************************************************************************)
EXTENDS Integers

CONSTANTS Hosts, PerMin, Cap, Minute

VARIABLES
  time,     \* the clock
  level     \* tokens of every host, in units of 1/Minute token

Least(a, b) == IF a <= b THEN a ELSE b

Init == time = 0 /\ level = [h \in Hosts |-> Cap * Minute]

Admit(h) ==
  /\ level[h] >= Minute
  /\ level' = [level EXCEPT ![h] = @ - Minute]
  /\ UNCHANGED time

Tick ==
  /\ time' = time + 1
  /\ level' = [h \in Hosts |-> Least(Cap * Minute, level[h] + PerMin)]

Next == Tick \/ \E h \in Hosts : Admit(h)

vars == <<time, level>>

Spec == Init /\ [][Next]_vars
=============================================================================
