---------------------------- MODULE RateLimiter ----------------------------
(***************************************************************************)
(* The per-host rate limit (middleware.go): a token bucket that is created *)
(* full at the first request, refilled lazily from the time of the last    *)
(* one, and dropped by a sweep once it was idle for bucketIdleTTL.         *)
(*                                                                         *)
(* A tick is the resolution of the retry hint, Minute of them make a       *)
(* minute. Tokens are counted in units of 1/Minute, so that the refill of  *)
(* one tick is PerMin units; the code's float64 is taken to be exact.      *)
(* Every step is one critical section of rl.mu.                            *)
(***************************************************************************)
EXTENDS Integers

CONSTANTS
  Hosts,     \* client hosts
  PerMin,    \* SHELL_API_RATE_LIMIT
  Burst,     \* SHELL_API_RATE_BURST; not positive: PerMin
  Minute,    \* ticks per minute
  MaxTime    \* bound: the clock stops here

ASSUME RateAssumption ==
  /\ PerMin \in Nat \ {0} /\ Burst \in Int
  /\ Minute \in Nat \ {0} /\ MaxTime \in Nat

VARIABLES
  now,       \* the clock
  buckets,   \* hosts with a bucket
  tokens,    \* bucket.tokens
  lastSeen,  \* bucket.lastSeen
  hint,      \* when the last refusal told the host to retry; -1: not refused since
  winStart,  \* an observer's window: its start ...
  winCount   \* ... and the requests of the host admitted in it

vars == <<now, buckets, tokens, lastSeen, hint, winStart, winCount>>

\* NewRateLimiter: the capacity, in tokens.
Cap == IF Burst <= 0 THEN PerMin ELSE Burst

Full == Cap * Minute

\* Mutant: a TTL of one minute.
BucketIdleTTLShort == Minute

BucketIdleTTL == 2 * Minute

Least(a, b) == IF a <= b THEN a ELSE b

TypeOK ==
  /\ now \in Nat
  /\ buckets \subseteq Hosts
  /\ tokens \in [Hosts -> 0..Full]
  /\ lastSeen \in [Hosts -> Nat]
  /\ hint \in [Hosts -> Nat \cup {-1}]
  /\ winStart \in [Hosts -> Nat]
  /\ winCount \in [Hosts -> Nat]

Init ==
  /\ now = 0 /\ buckets = {}
  /\ tokens = [h \in Hosts |-> 0]
  /\ lastSeen = [h \in Hosts |-> 0]
  /\ hint = [h \in Hosts |-> -1]
  /\ winStart = [h \in Hosts |-> 0]
  /\ winCount = [h \in Hosts |-> 0]

\* refill: what the bucket of h holds now.
Refill(h) ==
  IF h \notin buckets THEN Full
  ELSE Least(Full, tokens[h] + (now - lastSeen[h]) * PerMin)

\* Mutant: lastSeen is set when the bucket is created only.
TouchKeepsLastSeen(h, left) ==
  /\ buckets' = buckets \cup {h}
  /\ tokens' = [tokens EXCEPT ![h] = left]
  /\ lastSeen' = IF h \in buckets THEN lastSeen ELSE [lastSeen EXCEPT ![h] = now]

\* The refill and the new lastSeen belong to every take, admitted or not.
Touch(h, left) ==
  /\ buckets' = buckets \cup {h}
  /\ tokens' = [tokens EXCEPT ![h] = left]
  /\ lastSeen' = [lastSeen EXCEPT ![h] = now]

Admit(h) ==
  /\ Refill(h) >= Minute
  /\ Touch(h, Refill(h) - Minute)
  /\ hint' = [hint EXCEPT ![h] = -1]
  /\ winCount' = [winCount EXCEPT ![h] = @ + 1]
  /\ UNCHANGED <<now, winStart>>

\* Mutant: rounded down.
RetryAfterEarly(missing) == missing \div PerMin

\* retry_after_ms: the time to a whole token, in ticks, rounded up.
RetryAfter(missing) == missing \div PerMin + 1

\* Status 429, with the hint.
Refuse(h) ==
  /\ Refill(h) < Minute
  /\ Touch(h, Refill(h))
  /\ hint' = [hint EXCEPT ![h] = now + RetryAfter(Minute - Refill(h))]
  /\ UNCHANGED <<now, winStart, winCount>>

\* sweep: the ticker may fire at any time relative to the requests.
Sweep ==
  /\ buckets' = {h \in buckets : now - lastSeen[h] <= BucketIdleTTL}
  /\ UNCHANGED <<now, tokens, lastSeen, hint, winStart, winCount>>

Tick ==
  /\ now < MaxTime
  /\ now' = now + 1
  /\ UNCHANGED <<buckets, tokens, lastSeen, hint, winStart, winCount>>

\* The observer starts a new window.
OpenWindow(h) ==
  /\ winStart' = [winStart EXCEPT ![h] = now]
  /\ winCount' = [winCount EXCEPT ![h] = 0]
  /\ UNCHANGED <<now, buckets, tokens, lastSeen, hint>>

Next ==
  \/ \E h \in Hosts : Admit(h) \/ Refuse(h) \/ OpenWindow(h)
  \/ Sweep
  \/ Tick

Spec == Init /\ [][Next]_vars

-----------------------------------------------------------------------------
(* Properties.                                                             *)

\* Over any window, whenever it starts and whatever is swept in it, a host is
\* admitted at most its burst plus the refill of the window.
WindowBound ==
  \A h \in Hosts : winCount[h] * Minute <= Full + (now - winStart[h]) * PerMin

\* RateLimitMiddleware's "round up: never early": a host that was refused and
\* waits for as long as it was told last is admitted, even if its bucket was
\* swept and however the refill is rounded.
HintSuffices ==
  \A h \in Hosts : hint[h] # -1 /\ now >= hint[h] => Refill(h) >= Minute

\* The inductive strengthening of the bound.
Budget(h) ==
  /\ lastSeen[h] <= now /\ winStart[h] <= now
  /\ winCount[h] * Minute + Refill(h) <= Full + (now - winStart[h]) * PerMin

Bucket == INSTANCE TokenBucket WITH time <- now, level <- [h \in Hosts |-> Refill(h)]

\* bucketIdleTTL's comment: "a bucket untouched this long has refilled to
\* capacity anyway, so dropping it loses nothing": the limiter is a limiter
\* that never drops a bucket.
SweepLosesNothing == Bucket!Spec
=============================================================================
