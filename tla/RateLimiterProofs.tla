------------------------- MODULE RateLimiterProofs -------------------------
(***************************************************************************)
(* The rate limiter for every number of hosts, every rate and every burst. *)
(*                                                                         *)
(* The window bound is not inductive: it says nothing of the tokens a host *)
(* has left. Budget adds them: what was admitted in the window plus what   *)
(* the bucket holds is at most the burst plus the refill of the window.    *)
(* A sweep keeps that only if a swept bucket was full, which is where      *)
(* Cap <= 2 * PerMin is needed, and the only place.                        *)
(***************************************************************************)
EXTENDS RateLimiter, TLAPS

\* A hint is the time by which the bucket, if it is still there, has a token.
HintKept(h) ==
  /\ lastSeen[h] <= now /\ winStart[h] <= now
  /\ hint[h] # -1 /\ h \in buckets =>
       /\ lastSeen[h] <= hint[h]
       /\ tokens[h] + (hint[h] - lastSeen[h]) * PerMin >= Minute

HintInv == TypeOK /\ \A h \in Hosts : HintKept(h)

\* The burst is refilled within bucketIdleTTL.
BurstRefills == Cap <= 2 * PerMin

-----------------------------------------------------------------------------
(* Arithmetic.                                                             *)

\* The capacity is positive: NewRateLimiter replaces a burst that is not.
LEMMA CapPositive == Cap \in Nat \ {0} /\ Full \in Nat /\ Full >= Minute
<1>1. Cap \in Nat \ {0}
  BY RateAssumption DEF Cap
<1>2. \A c \in Nat \ {0}, m \in Nat \ {0} : c * m \in Nat /\ c * m >= m
  BY SMT
<1> QED
  BY <1>1, <1>2, RateAssumption DEF Full

\* One tick more refills PerMin units more.
LEMMA OneMore ==
  ASSUME NEW a \in Int, NEW p \in Int
  PROVE  (a + 1) * p = a * p + p
BY SMT

\* A refill over a longer time is no smaller.
LEMMA Monotone ==
  ASSUME NEW a \in Int, NEW b \in Int, NEW p \in Nat, a <= b
  PROVE  a * p <= b * p
<1>1. (b - a) * p >= 0
  BY SMT
<1>2. (b - a) * p = b * p - a * p
  BY SMT
<1> QED
  BY <1>1, <1>2, SMT

\* A refill over no time or more is a natural number.
LEMMA RefillNat ==
  ASSUME NEW a \in Nat, NEW p \in Nat
  PROVE  a * p \in Nat
BY SMT

\* Rounding the wait up is enough for what was missing.
LEMMA RoundedUp ==
  ASSUME NEW missing \in Nat
  PROVE  RetryAfter(missing) \in Nat /\ RetryAfter(missing) * PerMin >= missing
<1>1. \A a \in Nat, b \in Nat \ {0} : a \div b \in Nat /\ (a \div b + 1) * b >= a
  BY SMT
<1> QED
  BY <1>1, RateAssumption DEF RetryAfter

-----------------------------------------------------------------------------
(* The types and the hint, for every burst.                                *)

\* What the bucket of a host holds is between nothing and its capacity.
LEMMA RefillType ==
  ASSUME TypeOK, NEW h \in Hosts, lastSeen[h] <= now
  PROVE  Refill(h) \in 0..Full
<1>1. now - lastSeen[h] \in Nat
  BY DEF TypeOK
<1>2. (now - lastSeen[h]) * PerMin \in Nat
  BY <1>1, RefillNat, RateAssumption
<1> QED
  BY <1>2, CapPositive DEF Refill, Least, TypeOK

\* The tokens stay within the capacity, and a hint keeps its promise.
THEOREM HintInductive == Spec => []HintInv
<1>1. Init => HintInv
  BY CapPositive DEF Init, HintInv, HintKept, TypeOK
<1>2. HintInv /\ [Next]_vars => HintInv'
  <2> SUFFICES ASSUME HintInv, [Next]_vars PROVE HintInv'
    OBVIOUS
  <2>0. \A h \in Hosts : Refill(h) \in 0..Full
    BY RefillType DEF HintInv, HintKept
  <2>1. ASSUME NEW k \in Hosts, Admit(k) PROVE HintInv'
    <3>1. Refill(k) - Minute \in 0..Full
      BY <2>0, <2>1, RateAssumption, CapPositive DEF Admit
    <3>2. TypeOK'
      BY <2>1, <3>1 DEF Admit, Touch, HintInv, TypeOK
    <3>3. ASSUME NEW h \in Hosts PROVE HintKept(h)'
      BY <2>1 DEF Admit, Touch, HintInv, HintKept, TypeOK
    <3> QED
      BY <3>2, <3>3 DEF HintInv
  <2>2. ASSUME NEW k \in Hosts, Refuse(k) PROVE HintInv'
    <3> DEFINE missing == Minute - Refill(k)
    <3>1. missing \in Nat /\ Refill(k) \in Int
      BY <2>0, <2>2, RateAssumption, CapPositive DEF Refuse
    <3>2. RetryAfter(missing) \in Nat /\ RetryAfter(missing) * PerMin >= missing
      BY <3>1, RoundedUp
    <3>3. TypeOK'
      BY <2>0, <2>2, <3>2 DEF Refuse, Touch, HintInv, TypeOK
    <3>4. HintKept(k)'
      <4>1. hint'[k] = now + RetryAfter(missing) /\ lastSeen'[k] = now
            /\ tokens'[k] = Refill(k) /\ now' = now /\ winStart' = winStart
        BY <2>2 DEF Refuse, Touch, HintInv, TypeOK
      <4>2. now + RetryAfter(missing) - now = RetryAfter(missing) /\ now \in Nat
        BY <3>2 DEF HintInv, TypeOK
      <4>3. (hint'[k] - lastSeen'[k]) * PerMin = RetryAfter(missing) * PerMin
        <5>1. hint'[k] - lastSeen'[k] = RetryAfter(missing)
          BY <3>2, <4>1, <4>2, SMT
        <5> QED
          BY <5>1, Zenon
      <4>4. RetryAfter(missing) * PerMin \in Int
        BY <3>2, RateAssumption, RefillNat
      <4>5. tokens'[k] + (hint'[k] - lastSeen'[k]) * PerMin >= Minute
        <5> HIDE DEF missing
        <5>1. missing + Refill(k) = Minute /\ missing \in Nat
          BY <3>1, RateAssumption DEF missing
        <5> QED
          BY <5>1, <4>1, <4>3, <4>4, <3>1, <3>2, RateAssumption
      <4> QED
        BY <4>1, <4>2, <4>5, <3>2 DEF HintInv, HintKept
    <3>5. ASSUME NEW h \in Hosts, h # k PROVE HintKept(h)'
      BY <2>2, <3>5 DEF Refuse, Touch, HintInv, HintKept, TypeOK
    <3> QED
      BY <3>3, <3>4, <3>5 DEF HintInv
  <2>3. ASSUME NEW k \in Hosts, OpenWindow(k) PROVE HintInv'
    BY <2>3 DEF OpenWindow, HintInv, HintKept, TypeOK
  <2>4. ASSUME Sweep PROVE HintInv'
    BY <2>4 DEF Sweep, HintInv, HintKept, TypeOK
  <2>5. ASSUME Tick PROVE HintInv'
    BY <2>5 DEF Tick, HintInv, HintKept, TypeOK
  <2>6. ASSUME UNCHANGED vars PROVE HintInv'
    BY <2>6 DEF vars, HintInv, HintKept, TypeOK
  <2> QED
    BY <2>1, <2>2, <2>3, <2>4, <2>5, <2>6 DEF Next
<1> QED
  BY <1>1, <1>2, PTL DEF Spec

\* A host that waits for as long as the 429 told it is admitted, for every
\* rate, burst and resolution of the clock.
THEOREM NeverEarly == Spec => []HintSuffices
<1>1. HintInv => HintSuffices
  <2> SUFFICES ASSUME HintInv, NEW h \in Hosts, hint[h] # -1, now >= hint[h]
               PROVE  Refill(h) >= Minute
    BY DEF HintSuffices
  <2>1. CASE h \notin buckets
    BY <2>1, CapPositive DEF Refill
  <2>2. CASE h \in buckets
    <3>1. hint[h] \in Int /\ lastSeen[h] \in Int /\ now \in Int /\ tokens[h] \in Int
      BY CapPositive DEF HintInv, TypeOK
    <3>2. hint[h] - lastSeen[h] <= now - lastSeen[h]
      BY <3>1
    <3>3. (hint[h] - lastSeen[h]) * PerMin <= (now - lastSeen[h]) * PerMin
      BY <3>1, <3>2, Monotone, RateAssumption
    <3>4. tokens[h] + (hint[h] - lastSeen[h]) * PerMin >= Minute
      BY <2>2 DEF HintInv, HintKept
    <3> DEFINE x == (hint[h] - lastSeen[h]) * PerMin
               y == (now - lastSeen[h]) * PerMin
    <3>5. x \in Int /\ y \in Int
      BY <3>1, RateAssumption
    <3> HIDE DEF x, y
    <3>6. tokens[h] + y >= Minute
      BY <3>1, <3>3, <3>4, <3>5, RateAssumption DEF x, y
    <3> QED
      BY <2>2, <3>6, CapPositive DEF Refill, Least, y
  <2> QED
    BY <2>1, <2>2
<1> QED
  BY <1>1, HintInductive, PTL

-----------------------------------------------------------------------------
(* The bound and the refinement, for a burst that the TTL refills.         *)

\* A bucket that is idle for longer than bucketIdleTTL is full.
LEMMA IdleIsFull ==
  ASSUME HintInv, BurstRefills, NEW h \in Hosts, now - lastSeen[h] > BucketIdleTTL
  PROVE  Refill(h) = Full
<1>1. now - lastSeen[h] \in Int /\ tokens[h] \in Nat /\ 2 * Minute <= now - lastSeen[h]
  BY RateAssumption, CapPositive DEF HintInv, TypeOK, BucketIdleTTL
<1>2. (2 * Minute) * PerMin <= (now - lastSeen[h]) * PerMin
  BY <1>1, Monotone, RateAssumption
<1>3. Cap * Minute <= (2 * PerMin) * Minute
  BY Monotone, CapPositive, RateAssumption DEF BurstRefills
<1>4. (2 * PerMin) * Minute = (2 * Minute) * PerMin
  BY RateAssumption
<1> DEFINE x == (now - lastSeen[h]) * PerMin
           y == (2 * Minute) * PerMin
<1>5. x \in Int /\ y \in Int
  BY <1>1, RateAssumption
<1> HIDE DEF x, y
<1>6. Full <= y
  BY <1>3, <1>4 DEF Full, y
<1>7. tokens[h] + x >= Full
  BY <1>1, <1>2, <1>5, <1>6, CapPositive DEF x, y
<1> QED
  BY <1>1, <1>5, <1>7, CapPositive DEF Refill, Least, x

\* A sweep changes nothing that any request can see.
LEMMA SweepInvisible ==
  ASSUME HintInv, BurstRefills, Sweep, NEW h \in Hosts
  PROVE  Refill(h)' = Refill(h)
<1>1. CASE h \in buckets /\ now - lastSeen[h] > BucketIdleTTL
  BY <1>1, IdleIsFull DEF Sweep, Refill, Full
<1>2. CASE ~(h \in buckets /\ now - lastSeen[h] > BucketIdleTTL)
  <2>1. h \in buckets' <=> h \in buckets
    BY <1>2, RateAssumption DEF Sweep, HintInv, TypeOK, BucketIdleTTL
  <2> QED
    BY <2>1 DEF Sweep, Refill, Full
<1> QED
  BY <1>1, <1>2

\* A bucket that was touched just now holds what the touch left in it.
LEMMA TouchSets ==
  ASSUME HintInv, NEW h \in Hosts, NEW left \in 0..Full, Touch(h, left), now' = now
  PROVE  Refill(h)' = left
<1>1. h \in buckets' /\ tokens'[h] = left /\ lastSeen'[h] = now /\ now \in Nat
  BY DEF Touch, HintInv, TypeOK
<1>2. (now' - lastSeen'[h]) * PerMin = 0
  BY <1>1, RateAssumption
<1> QED
  BY <1>1, <1>2, CapPositive DEF Refill, Least, Full

\* The bucket of one host is nothing to the others.
LEMMA TouchLeavesOthers ==
  ASSUME HintInv, NEW k \in Hosts, NEW left, Touch(k, left), now' = now,
         NEW h \in Hosts, h # k
  PROVE  Refill(h)' = Refill(h)
BY DEF Touch, HintInv, TypeOK, Refill, Full

\* A tick refills every bucket by PerMin units, up to its capacity.
LEMMA TickRefills ==
  ASSUME HintInv, Tick, NEW h \in Hosts
  PROVE  Refill(h)' = Least(Full, Refill(h) + PerMin)
<1>1. CASE h \notin buckets
  BY <1>1, CapPositive, RateAssumption DEF Tick, Refill, Least, Full
<1>2. CASE h \in buckets
  <2> DEFINE x == (now - lastSeen[h]) * PerMin
             y == (now' - lastSeen[h]) * PerMin
  <2>1. now - lastSeen[h] \in Int /\ now' - lastSeen[h] = (now - lastSeen[h]) + 1
    BY DEF Tick, HintInv, TypeOK
  <2>2. y = x + PerMin /\ x \in Int
    BY <2>1, OneMore, RateAssumption
  <2>3. Refill(h) = Least(Full, tokens[h] + x)
    BY <1>2 DEF Refill
  <2>4. Refill(h)' = Least(Full, tokens[h] + y)
    BY <1>2 DEF Refill, Least, Full, Tick
  <2>5. tokens[h] \in Int
    BY CapPositive DEF HintInv, TypeOK
  <2> HIDE DEF x, y
  <2> QED
    BY <2>2, <2>3, <2>4, <2>5, CapPositive, RateAssumption DEF Least
<1> QED
  BY <1>1, <1>2

\* Whatever window an observer chooses, a host is admitted at most its burst
\* plus the refill of the window, for every number of hosts and every burst of
\* at most two minutes' rate.
THEOREM WindowBounded ==
  ASSUME BurstRefills
  PROVE  Spec => []WindowBound
<1>1. Init => \A h \in Hosts : Budget(h)
  <2> SUFFICES ASSUME Init, NEW h \in Hosts PROVE Budget(h)
    OBVIOUS
  <2>1. winCount[h] * Minute = 0 /\ (now - winStart[h]) * PerMin = 0
    BY RateAssumption DEF Init
  <2> QED
    BY <2>1, CapPositive DEF Init, Budget, Refill
<1>2. HintInv /\ HintInv' /\ (\A h \in Hosts : Budget(h)) /\ [Next]_vars
        => (\A h \in Hosts : Budget(h))'
  <2> SUFFICES ASSUME HintInv, HintInv', \A h \in Hosts : Budget(h), [Next]_vars,
                      NEW h \in Hosts
               PROVE  Budget(h)'
    OBVIOUS
  <2> DEFINE spent == winCount[h] * Minute
             grown == (now - winStart[h]) * PerMin
  <2>0. /\ Refill(h) \in 0..Full /\ spent \in Int /\ grown \in Nat
        /\ spent + Refill(h) <= Full + grown
        /\ winCount[h] \in Nat /\ winStart[h] \in Nat /\ now \in Nat /\ lastSeen[h] \in Nat
        /\ lastSeen[h] <= now /\ winStart[h] <= now
    <3>1. winCount[h] \in Nat /\ winStart[h] \in Nat /\ now \in Nat /\ lastSeen[h] \in Nat
      BY DEF HintInv, TypeOK
    <3>2. lastSeen[h] <= now /\ winStart[h] <= now /\ spent + Refill(h) <= Full + grown
      BY DEF Budget
    <3>3. now - winStart[h] \in Nat
      BY <3>1, <3>2
    <3>4. spent \in Int /\ grown \in Nat
      BY <3>1, <3>3, RefillNat, RateAssumption
    <3>5. Refill(h) \in 0..Full
      BY <3>2, RefillType DEF HintInv
    <3> QED
      BY <3>1, <3>2, <3>4, <3>5
  <2>0a. lastSeen'[h] <= now' /\ winStart'[h] <= now'
    BY DEF HintInv, HintKept
  <2>1. ASSUME NEW k \in Hosts, Admit(k) PROVE Budget(h)'
    <3>1. CASE h = k
      <4>1. Refill(h) - Minute \in 0..Full
        BY <2>0, <2>1, <3>1, RateAssumption, CapPositive DEF Admit
      <4>2. Refill(h)' = Refill(h) - Minute
        BY <2>1, <3>1, <4>1, TouchSets DEF Admit
      <4>3. winCount'[h] = winCount[h] + 1 /\ now' = now /\ winStart' = winStart
        BY <2>1, <3>1 DEF Admit, HintInv, TypeOK
      <4>4. winCount'[h] * Minute = spent + Minute
        BY <2>0, <4>3, OneMore, RateAssumption
      <4>5. (now' - winStart'[h]) * PerMin = grown
        BY <4>3
      <4> HIDE DEF spent, grown
      <4>6. winCount'[h] * Minute + Refill(h)' <= Full + grown
        BY <2>0, <4>2, <4>4, RateAssumption, CapPositive
      <4> QED
        BY <2>0a, <4>5, <4>6 DEF Budget, Full
    <3>2. CASE h # k
      <4>1. Refill(h)' = Refill(h)
        BY <2>1, <3>2, TouchLeavesOthers DEF Admit
      <4>2. winCount'[h] = winCount[h] /\ now' = now /\ winStart' = winStart
        BY <2>1, <3>2 DEF Admit, HintInv, TypeOK
      <4> QED
        BY <2>0, <2>0a, <4>1, <4>2 DEF Budget, Full
    <3> QED
      BY <3>1, <3>2
  <2>2. ASSUME NEW k \in Hosts, Refuse(k) PROVE Budget(h)'
    <3>1. Refill(h)' = Refill(h)
      <4>1. CASE h = k
        BY <2>0, <2>2, <4>1, TouchSets DEF Refuse
      <4>2. CASE h # k
        BY <2>2, <4>2, TouchLeavesOthers DEF Refuse
      <4> QED
        BY <4>1, <4>2
    <3>2. winCount' = winCount /\ now' = now /\ winStart' = winStart
      BY <2>2 DEF Refuse
    <3> QED
      BY <2>0, <2>0a, <3>1, <3>2 DEF Budget, Full
  <2>3. ASSUME NEW k \in Hosts, OpenWindow(k) PROVE Budget(h)'
    <3>1. Refill(h)' = Refill(h)
      BY <2>3 DEF OpenWindow, Refill, Full
    <3>2. CASE h = k
      <4>1. winCount'[h] = 0 /\ winStart'[h] = now /\ now' = now
        BY <2>3, <3>2 DEF OpenWindow, HintInv, TypeOK
      <4>2. winCount'[h] * Minute = 0 /\ (now' - winStart'[h]) * PerMin = 0
        BY <2>0, <4>1, RateAssumption
      <4> QED
        BY <2>0, <2>0a, <3>1, <4>2, CapPositive DEF Budget, Full
    <3>3. CASE h # k
      <4>1. winCount'[h] = winCount[h] /\ winStart'[h] = winStart[h] /\ now' = now
        BY <2>3, <3>3 DEF OpenWindow, HintInv, TypeOK
      <4> QED
        BY <2>0, <2>0a, <3>1, <4>1 DEF Budget, Full
    <3> QED
      BY <3>2, <3>3
  <2>4. ASSUME Sweep PROVE Budget(h)'
    <3>1. Refill(h)' = Refill(h)
      BY <2>4, SweepInvisible
    <3>2. winCount' = winCount /\ now' = now /\ winStart' = winStart
      BY <2>4 DEF Sweep
    <3> QED
      BY <2>0, <2>0a, <3>1, <3>2 DEF Budget, Full
  <2>5. ASSUME Tick PROVE Budget(h)'
    <3>1. Refill(h)' <= Refill(h) + PerMin /\ Refill(h)' \in Int
      BY <2>0, <2>5, TickRefills, RateAssumption, CapPositive DEF Least
    <3>2. winCount' = winCount /\ winStart' = winStart
          /\ now' - winStart'[h] = (now - winStart[h]) + 1
      BY <2>0, <2>5 DEF Tick
    <3>3. (now' - winStart'[h]) * PerMin = grown + PerMin
      BY <2>0, <3>2, OneMore, RateAssumption
    <3>4. winCount'[h] * Minute = spent
      BY <3>2
    <3> HIDE DEF spent, grown
    <3>5. spent + Refill(h)' <= Full + (grown + PerMin)
      BY <2>0, <3>1, RateAssumption, CapPositive
    <3> QED
      BY <2>0a, <3>3, <3>4, <3>5 DEF Budget, Full
  <2>6. ASSUME UNCHANGED vars PROVE Budget(h)'
    BY <2>0, <2>6 DEF vars, Budget, Refill, Full
  <2> QED
    BY <2>1, <2>2, <2>3, <2>4, <2>5, <2>6 DEF Next
<1>3. HintInv /\ (\A h \in Hosts : Budget(h)) => WindowBound
  <2> SUFFICES ASSUME HintInv, NEW h \in Hosts, Budget(h)
               PROVE  winCount[h] * Minute <= Full + (now - winStart[h]) * PerMin
    BY DEF WindowBound
  <2> DEFINE spent == winCount[h] * Minute
             grown == (now - winStart[h]) * PerMin
  <2>1. winCount[h] \in Int /\ winStart[h] \in Int /\ now \in Int
    BY DEF HintInv, TypeOK
  <2>2. spent \in Int /\ grown \in Int
    BY <2>1, RateAssumption
  <2>3. Refill(h) \in 0..Full
    BY RefillType DEF HintInv, Budget
  <2>4. spent + Refill(h) <= Full + grown
    BY DEF Budget
  <2> HIDE DEF spent, grown
  <2>5. spent <= Full + grown
    BY <2>2, <2>3, <2>4, CapPositive
  <2> QED
    BY <2>5 DEF spent, grown
<1> QED
  BY <1>1, <1>2, <1>3, HintInductive, PTL DEF Spec

\* bucketIdleTTL's comment holds for every burst of at most two minutes' rate:
\* the limiter with its sweep is a limiter that never forgets a bucket.
THEOREM SweepHarmless ==
  ASSUME BurstRefills
  PROVE  Spec => SweepLosesNothing
<1>1. Init => Bucket!Init
  BY DEF Init, Bucket!Init, Refill, Full
<1>2. HintInv /\ [Next]_vars => [Bucket!Next]_(Bucket!vars)
  <2> DEFINE level == [h \in Hosts |-> Refill(h)]
  <2> SUFFICES ASSUME HintInv, [Next]_vars PROVE [Bucket!Next]_(Bucket!vars)
    OBVIOUS
  <2>0. \A h \in Hosts : Refill(h) \in 0..Full
    BY RefillType DEF HintInv, HintKept
  <2>1. ASSUME NEW k \in Hosts, Admit(k) PROVE Bucket!Admit(k)
    <3>1. Refill(k) - Minute \in 0..Full
      BY <2>0, <2>1, RateAssumption, CapPositive DEF Admit
    <3>2. Refill(k)' = Refill(k) - Minute
      BY <2>1, <3>1, TouchSets DEF Admit
    <3>3. \A h \in Hosts \ {k} : Refill(h)' = Refill(h)
      BY <2>1, TouchLeavesOthers DEF Admit
    <3>4. level' = [level EXCEPT ![k] = @ - Minute]
      BY <3>2, <3>3
    <3> QED
      BY <2>1, <3>4 DEF Admit, Bucket!Admit
  <2>2. ASSUME NEW k \in Hosts, Refuse(k) PROVE UNCHANGED Bucket!vars
    <3>1. Refill(k)' = Refill(k)
      BY <2>0, <2>2, TouchSets DEF Refuse
    <3>2. \A h \in Hosts \ {k} : Refill(h)' = Refill(h)
      BY <2>2, TouchLeavesOthers DEF Refuse
    <3> QED
      BY <2>2, <3>1, <3>2 DEF Refuse, Bucket!vars
  <2>3. ASSUME NEW k \in Hosts, OpenWindow(k) PROVE UNCHANGED Bucket!vars
    BY <2>3 DEF OpenWindow, Bucket!vars, Refill, Full
  <2>4. ASSUME Sweep PROVE UNCHANGED Bucket!vars
    <3>1. \A h \in Hosts : Refill(h)' = Refill(h)
      BY <2>4, SweepInvisible
    <3> QED
      BY <2>4, <3>1 DEF Sweep, Bucket!vars
  <2>5. ASSUME Tick PROVE Bucket!Tick
    <3>1. \A h \in Hosts : Refill(h)' = Least(Full, Refill(h) + PerMin)
      BY <2>5, TickRefills
    <3> QED
      BY <2>5, <3>1 DEF Tick, Bucket!Tick, Bucket!Least, Least, Full
  <2>6. ASSUME UNCHANGED vars PROVE UNCHANGED Bucket!vars
    BY <2>6 DEF vars, Bucket!vars, Refill, Full
  <2> QED
    BY <2>1, <2>2, <2>3, <2>4, <2>5, <2>6 DEF Next, Bucket!Next
<1> QED
  BY <1>1, <1>2, HintInductive, PTL DEF Spec, SweepLosesNothing, Bucket!Spec
=============================================================================
