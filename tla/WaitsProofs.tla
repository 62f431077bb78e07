----------------------------- MODULE WaitsProofs ----------------------------
(***************************************************************************)
(* Proofs about remote_wait_for and the readers of a log that others       *)
(* write.                                                                  *)
(*   - Watchers (module Waits), for any number of waits and any limits.    *)
(*     The limit on running watchers is checked by Start against the map,  *)
(*     so it holds only because a running watcher is never pruned: the two *)
(*     parts of RunningBounded need each other. Started ties the map, the  *)
(*     watcher and what clients were told to one another.                  *)
(*   - The probes of remote_wait_for (module LogProbe) miss nothing,       *)
(*     whatever the log's writers do between two steps of a check:         *)
(*     log_regex passes over no match, file_contains skips no changed file.*)
(*   - remote_tail_log (module TailLog) gives a client all of the file it  *)
(*     reads, once: pages of bytes and lines join, tail mode and the       *)
(*     filter answer with the newest lines.                                *)
(***************************************************************************)
EXTENDS Waits, LogProbe, TailLog, Counting, SequenceTheorems

-----------------------------------------------------------------------------
(* Watchers.                                                               *)

\* A prune forgets resolved waits only.
LEMMA PruneKeepsRunning ==
  /\ PruneLocked \subseteq waits
  /\ \A w \in waits : ~Resolved(w) => w \in PruneLocked
BY DEF PruneLocked, Young

\* What Start counts are the running watchers.
LEMMA ActiveIsRunning == IInv => Active = Running
<1> SUFFICES ASSUME IInv PROVE Active = Running
  OBVIOUS
<1>1. ASSUME NEW w \in Active PROVE w \in Running
  BY PruneKeepsRunning DEF Active, Running, Resolved, IInv, TypeOK, Started
<1>2. ASSUME NEW w \in Running PROVE w \in Active
  BY PruneKeepsRunning DEF Active, Running, Resolved, IInv, RunningBounded
<1> QED
  BY <1>1, <1>2

\* A step that starts no watcher and prunes at most keeps the bound.
LEMMA BoundKept ==
  ASSUME IInv, Running' \subseteq Running, Running' \subseteq waits'
  PROVE  RunningBounded' /\ IsFiniteSet(Running)'
<1>1. IsFiniteSet(Running') /\ Cardinality(Running') <= Cardinality(Running)
  BY FS_Subset DEF IInv
<1>2. Cardinality(Running) \in Nat /\ Cardinality(Running') \in Nat
  BY <1>1, FS_CardinalityType DEF IInv
<1> QED
  BY <1>1, <1>2, WaitsAssumption DEF IInv, RunningBounded

\* The limit, the map, the watchers and the answers stay in step: no call, prune,
\* cancel or probe breaks IInv.
THEOREM WaitsInductive == Spec => []IInv
<1>1. Init => IInv
  <2> SUFFICES ASSUME Init PROVE IInv
    OBVIOUS
  <2>1. Running = {}
    BY DEF Init, Running
  <2>2. RunningBounded /\ IsFiniteSet(Running)
    BY <2>1, FS_EmptySet, WaitsAssumption DEF RunningBounded
  <2> QED
    BY <2>2 DEF Init, IInv, TypeOK, Started, Outcomes
<1>2. IInv /\ [Next]_vars => IInv'
  <2> SUFFICES ASSUME IInv, [Next]_vars PROVE IInv'
    OBVIOUS
  <2> USE DEF TypeOK, Started, Outcomes, runVars, waitVars
  <2>0. TypeOK /\ Running \subseteq waits /\ \A w \in WaitIds : Started(w)
    BY DEF IInv, RunningBounded
  <2>a. ASSUME TypeOK', Running' \subseteq Running, Running' \subseteq waits',
               \A v \in WaitIds : Started(v)'
        PROVE  IInv'
    BY <2>a, BoundKept DEF IInv
  <2>1. ASSUME NEW w \in WaitIds, CallStep(w) PROVE IInv'
    <3>1. CASE PlanFails(w)
      BY <2>0, <2>a, <3>1 DEF PlanFails, Running
    <3>2. CASE StartRefused(w)
      <4>1. Running' = Running /\ Running \subseteq PruneLocked
        BY <2>0, <3>2, PruneKeepsRunning DEF StartRefused, Running, Resolved
      <4> QED
        BY <2>0, <2>a, <3>2, <4>1, PruneKeepsRunning DEF StartRefused
    <3>3. CASE Start(w)
      <4>1. loop[w] = "none" /\ w \notin Running
        BY <2>0, <3>3 DEF Start, Running
      <4>2. Running' = Running \cup {w}
        BY <2>0, <3>3 DEF Start, Running
      <4>3. Cardinality(Running) < MaxActiveWaits /\ IsFiniteSet(Running)
        BY <3>3, ActiveIsRunning DEF Start, IInv
      <4>4. IsFiniteSet(Running') /\ Cardinality(Running') = Cardinality(Running) + 1
        BY <4>1, <4>2, <4>3, FS_AddElement
      <4>5. Cardinality(Running) \in Nat
        BY <4>3, FS_CardinalityType
      <4>6. Running' \subseteq waits'
        BY <2>0, <3>3, <4>2, PruneKeepsRunning DEF Start, Running, Resolved
      <4>7. RunningBounded' /\ IsFiniteSet(Running)'
        BY <4>3, <4>4, <4>5, <4>6, WaitsAssumption DEF RunningBounded
      <4>8. TypeOK' /\ \A v \in WaitIds : Started(v)'
        BY <2>0, <3>3, PruneKeepsRunning DEF Start
      <4> QED
        BY <4>7, <4>8 DEF IInv
    <3>4. CASE Answer(w)
      BY <2>0, <2>a, <3>4 DEF Answer, Running, Snapshot
    <3>5. CASE Resume(w)
      <4>1. Running' = Running /\ Running \subseteq PruneLocked
        BY <2>0, <3>5, PruneKeepsRunning DEF Resume, Running, Resolved
      <4> QED
        BY <2>0, <2>a, <3>5, <4>1, PruneKeepsRunning DEF Resume
    <3>6. CASE CancelWait(w)
      BY <2>0, <2>a, <3>6 DEF CancelWait, Running, Ends
    <3> QED
      BY <2>1, <3>1, <3>2, <3>3, <3>4, <3>5, <3>6 DEF CallStep
  <2>2. ASSUME NEW w \in WaitIds, WatchStep(w) PROVE IInv'
    <3>1. CASE DeadlinePasses(w)
      BY <2>0, <2>a, <3>1 DEF DeadlinePasses, Running
    <3>2. CASE Check(w)
      BY <2>0, <2>a, <3>2 DEF Check, Running
    <3>3. CASE NextCheck(w)
      BY <2>0, <2>a, <3>3 DEF NextCheck, Running
    <3>4. CASE CtxDone(w)
      BY <2>0, <2>a, <3>4 DEF CtxDone, CtxVerdict, Running
    <3>5. CASE Publish(w)
      BY <2>0, <2>a, <3>5 DEF Publish, Running
    <3>6. CASE CloseDone(w)
      BY <2>0, <2>a, <3>6 DEF CloseDone, Running
    <3> QED
      BY <2>2, <3>1, <3>2, <3>3, <3>4, <3>5, <3>6 DEF WatchStep
  <2>3. ASSUME CancelAll PROVE IInv'
    BY <2>0, <2>a, <2>3 DEF CancelAll, Running, Ends
  <2>4. ASSUME Tick PROVE IInv'
    BY <2>0, <2>a, <2>4 DEF Tick, Running
  <2>5. ASSUME UNCHANGED vars PROVE IInv'
    BY <2>0, <2>a, <2>5 DEF vars, Running
  <2> QED
    BY <2>1, <2>2, <2>3, <2>4, <2>5 DEF Next
<1> QED
  BY <1>1, <1>2, PTL DEF Spec

\* Never more than MaxActiveWaits watchers run, and each is in the map.
THEOREM Bounded == Spec => []RunningBounded
BY WaitsInductive, PTL DEF IInv

\* cancelled and timed_out are told for their cause.
THEOREM CauseNamed == Spec => []OutcomeNamesCause
<1>1. IInv => OutcomeNamesCause
  BY DEF IInv, TypeOK, Started, OutcomeNamesCause, Outcomes
<1> QED
  BY <1>1, WaitsInductive, PTL

\* No later answer takes back or replaces an outcome.
THEOREM NeverRegress == Spec => AnswersNeverRegress
<1> DEFINE Keeps == \A w \in WaitIds :
              /\ answer[w] \in Outcomes => answer'[w] \in {answer[w], "lost"}
              /\ answer[w] = "lost" => answer'[w] = "lost"
<1>1. IInv /\ [Next]_vars => [Keeps]_vars
  <2> SUFFICES ASSUME IInv, Next PROVE Keeps
    BY DEF vars
  <2>1. CASE answer' = answer
    BY <2>1
  <2>2. ASSUME NEW w \in WaitIds, Answer(w) PROVE Keeps
    BY <2>2 DEF Answer, Snapshot, IInv, TypeOK, Started, Outcomes
  <2>3. ASSUME NEW w \in WaitIds, Resume(w) PROVE Keeps
    BY <2>3 DEF Resume, IInv, TypeOK
  <2> QED
    BY <2>1, <2>2, <2>3 DEF Next, CallStep, WatchStep, PlanFails, StartRefused, Start,
      CancelWait, CancelAll, DeadlinePasses, Check, NextCheck, CtxDone, Publish, CloseDone, Tick
<1> QED
  BY <1>1, WaitsInductive, PTL DEF Spec, AnswersNeverRegress

\* The map is finite at every moment: Start adds one wait at a time.
LEMMA MapFinite == Spec => []IsFiniteSet(waits)
<1>1. Init => IsFiniteSet(waits)
  BY FS_EmptySet DEF Init
<1>2. IsFiniteSet(waits) /\ [Next]_vars => IsFiniteSet(waits)'
  <2> SUFFICES ASSUME IsFiniteSet(waits), [Next]_vars PROVE IsFiniteSet(waits')
    OBVIOUS
  <2>1. CASE waits' = waits
    BY <2>1
  <2>2. IsFiniteSet(PruneLocked)
    BY PruneKeepsRunning, FS_Subset
  <2>3. ASSUME NEW w \in WaitIds, StartRefused(w) \/ Start(w) \/ Resume(w)
        PROVE  IsFiniteSet(waits')
    BY <2>2, <2>3, FS_AddElement DEF StartRefused, Start, Resume
  <2> QED
    BY <2>1, <2>3 DEF Next, vars, CallStep, WatchStep, PlanFails, Answer, CancelWait,
      CancelAll, DeadlinePasses, Check, NextCheck, CtxDone, Publish, CloseDone, Tick
<1> QED
  BY <1>1, <1>2, PTL DEF Spec

\* A wait is forgotten only once its outcome can be read, for its age or for
\* MaxKeptWaits resolved waits that started after it.
THEOREM ForCause == Spec => ForgottenForCause
<1> DEFINE Caused(w) ==
      /\ final[w] # "none" /\ loop[w] = "closed"
      /\ \/ now - endedAt[w] > WaitRetention
         \/ \E S \in SUBSET (waits \ {w}) :
              /\ Cardinality(S) = MaxKeptWaits
              /\ \A v \in S : final[v] # "none" /\ startedAt[v] > startedAt[w]
<1>1. IInv /\ IsFiniteSet(waits) /\ [Next]_vars => [\A w \in waits \ waits' : Caused(w)]_vars
  <2> SUFFICES ASSUME IInv, IsFiniteSet(waits), Next, NEW w \in waits \ waits' PROVE Caused(w)
    BY DEF vars
  <2>1. w \notin PruneLocked
    BY DEF Next, CallStep, WatchStep, PlanFails, StartRefused, Start, Answer, Resume, CancelWait,
      CancelAll, DeadlinePasses, Check, NextCheck, CtxDone, Publish, CloseDone, Tick
  <2>2. Resolved(w)
    BY <2>1, PruneKeepsRunning
  <2>3. \A v \in waits : Resolved(v) => final[v] # "none"
    BY DEF Resolved, IInv, TypeOK, Started
  <2>4. CASE w \in Young
    <3>1. Newer(w) \in SUBSET waits
      BY DEF Newer, Young
    <3>2. IsFiniteSet(Newer(w)) /\ Cardinality(Newer(w)) \in Nat
      BY <3>1, FS_Subset, FS_CardinalityType
    <3>3. Cardinality(Newer(w)) >= MaxKeptWaits
      BY <2>1, <2>4, <3>2, WaitsAssumption DEF PruneLocked
    <3>4. PICK S \in SUBSET Newer(w) : Cardinality(S) = MaxKeptWaits
      BY <3>2, <3>3, SubsetOfSize, WaitsAssumption
    <3>5. \A v \in S : v \in waits /\ Resolved(v) /\ startedAt[v] > startedAt[w]
      BY <3>1 DEF Newer
    <3>6. S \in SUBSET (waits \ {w})
      BY <3>5 DEF IInv, TypeOK
    <3> QED
      BY <2>2, <2>3, <3>4, <3>5, <3>6 DEF Resolved
  <2>5. CASE w \notin Young
    <3>1. now \in Nat /\ endedAt[w] \in Nat /\ w \in waits
      BY DEF IInv, TypeOK
    <3>2. now - endedAt[w] > WaitRetention
      BY <2>5, <3>1, WaitsAssumption DEF Young
    <3> QED
      BY <2>2, <2>3, <3>1, <3>2 DEF Resolved
  <2> QED
    BY <2>4, <2>5
<1> QED
  BY <1>1, MapFinite, WaitsInductive, PTL DEF Spec, ForgottenForCause

\* What a client was told of a wait stays true, and the wait stays in the map
\* until its age or newer waits push it out.
THEOREM KeptAndTold == Spec => ToldForGood
BY NeverRegress, ForCause DEF ToldForGood

-----------------------------------------------------------------------------
(* One scan.                                                               *)

\* A window is a stretch of the file.
LEMMA WindowIs ==
  ASSUME NEW b \in Seq(Bytes), NEW off \in Nat
  PROVE  LET w == Window(b, off)
         IN  /\ w \in Seq(Bytes) /\ Len(w) <= MaxScan
             /\ off <= Len(b) => off + Len(w) <= Len(b)
             /\ off > Len(b) => Len(w) = 0
             /\ \A i \in 1..Len(w) : w[i] = b[off + i]
<1> DEFINE end == IF off + MaxScan < Len(b) THEN off + MaxScan ELSE Len(b)
           w == SubSeq(b, off + 1, end)
<1>1. Len(b) \in Nat /\ end \in Nat /\ end <= Len(b) /\ end <= off + MaxScan /\ (off <= Len(b) => off <= end)
  BY LenProperties, LogProbeAssumption
<1> HIDE DEF end
<1>2. /\ w \in Seq(Bytes)
      /\ Len(w) = IF off + 1 <= end THEN end - (off + 1) + 1 ELSE 0
      /\ \A i \in 1..(end - (off + 1) + 1) : w[i] = b[off + 1 + i - 1]
  <2>1. \A i \in (off + 1)..end : b[i] \in Bytes
    BY <1>1, ElementOfSeq
  <2>2. off + 1 \in Int /\ end \in Int
    BY <1>1
  <2> QED
    BY <2>1, <2>2, SubSeqProperties
<1> HIDE DEF w
<1>3. Len(w) = IF off < end THEN end - off ELSE 0
  BY <1>1, <1>2
<1>4. ASSUME NEW i \in 1..Len(w) PROVE w[i] = b[off + i]
  <2>1. i \in 1..(end - (off + 1) + 1) /\ off + 1 + i - 1 = off + i
    BY <1>1, <1>3
  <2> QED
    BY <1>2, <2>1
<1>5. Len(w) <= MaxScan /\ (off <= Len(b) => off + Len(w) <= Len(b)) /\ (off > Len(b) => Len(w) = 0)
  BY <1>1, <1>3, LogProbeAssumption
<1>6. Window(b, off) = w
  BY DEF Window, w, end
<1> QED
  BY <1>2, <1>4, <1>5, <1>6

\* LastNewline is the place of the last newline of the window, 0 without one.
LEMMA LastNewlineIs ==
  ASSUME NEW w \in Seq(Bytes)
  PROVE  LET n == LastNewline(w)
         IN  /\ n \in 0..Len(w) /\ (n # 0 => w[n] = Newline)
             /\ \A i \in 1..Len(w) : w[i] = Newline => i <= n
<1> DEFINE T == Newlines(w) \cup {0}
           n == Max(T)
<1>1. Len(w) \in Nat
  BY LenProperties
<1>2. T \in SUBSET (0..Len(w)) /\ T # {}
  BY <1>1 DEF Newlines
<1>3. n \in T /\ \A y \in T : n >= y
  <2> HIDE DEF T
  <2>1. \E x \in T : \A y \in T : x >= y
    BY <1>1, <1>2, GreatestNat
  <2> QED
    BY <2>1, Zenon DEF Max
<1> HIDE DEF n
<1>4. n \in 0..Len(w) /\ (n # 0 => w[n] = Newline)
  BY <1>2, <1>3 DEF Newlines
<1>5. \A i \in 1..Len(w) : w[i] = Newline => i <= n
  BY <1>1, <1>3, <1>4 DEF Newlines
<1> QED
  BY <1>4, <1>5, Zenon DEF LastNewline, n

\* What a scan without a match counts as read: up to the end of a line, or a
\* full window of one line.
LEMMA ConsumedIs ==
  ASSUME NEW b \in Seq(Bytes), NEW off \in Nat
  PROVE  LET n == Consumed(b, off)
         IN  /\ n \in 0..Len(Window(b, off))
             /\ \/ n = 0
                \/ b[off + n] = Newline
                \/ n = MaxScan /\ \A i \in 1..n : b[off + i] # Newline
<1> DEFINE w == Window(b, off)
           n == Consumed(b, off)
<1>1. w \in Seq(Bytes) /\ Len(w) \in Nat /\ \A i \in 1..Len(w) : w[i] = b[off + i]
  BY WindowIs, LenProperties
<1>2. n = IF Newlines(w) = {} /\ Len(w) = MaxScan THEN Len(w) ELSE LastNewline(w)
  BY Zenon DEF Consumed
<1> SUFFICES n \in 0..Len(w) /\ (n = 0 \/ b[off + n] = Newline \/ (n = MaxScan /\ \A i \in 1..n : b[off + i] # Newline))
  OBVIOUS
<1> HIDE DEF w, n
<1>3. CASE Newlines(w) = {} /\ Len(w) = MaxScan
  <2>1. n = Len(w) /\ n = MaxScan
    BY <1>2, <1>3
  <2>2. \A i \in 1..n : b[off + i] # Newline
    BY <1>1, <1>3, <2>1 DEF Newlines
  <2> QED
    BY <1>1, <2>1, <2>2
<1>4. CASE ~(Newlines(w) = {} /\ Len(w) = MaxScan)
  <2>1. n = LastNewline(w)
    BY <1>2, <1>4
  <2>2. n \in 0..Len(w) /\ (n # 0 => w[n] = Newline)
    BY <1>1, <2>1, LastNewlineIs, Zenon
  <2>3. n # 0 => b[off + n] = Newline
    BY <1>1, <2>2
  <2> QED
    BY <2>2, <2>3
<1> QED
  BY <1>3, <1>4

\* A line that matches within a window was found.
LEMMA FoundInWindow ==
  ASSUME NEW b \in Seq(Bytes), NEW off \in Nat, NEW i \in Nat, i > off,
         i = off + 1 \/ b[i - 1] = Newline,
         NEW j \in Nat, i <= j, j + 1 < i + MaxLineHead, j + 1 <= off + Len(Window(b, off)),
         Hit(b, j), \A k \in i..j : b[k] # Newline
  PROVE  Found(b, off)
<1> DEFINE w == Window(b, off)
           s == i - off
           h == j - off
<1>1. Len(w) \in Nat /\ \A k \in 1..Len(w) : w[k] = b[off + k]
  BY WindowIs, LenProperties
<1>2. j + 1 <= off + Len(w)
  OBVIOUS
<1> SUFFICES Found(b, off)
  OBVIOUS
<1> HIDE DEF w
<1>3. s \in 1..Len(w) /\ h \in s..(Len(w) - 1) /\ h + 1 < s + MaxLineHead /\ h \in 1..Len(w) /\ h + 1 \in 1..Len(w)
  BY <1>1, <1>2, LogProbeAssumption
<1>4. off + s = i /\ off + h = j /\ off + (h + 1) = j + 1
  OBVIOUS
<1>5. s \in LineStarts(w)
  <2>1. CASE i = off + 1
    BY <1>3, <2>1 DEF LineStarts
  <2>2. CASE i # off + 1
    <3>1. s - 1 \in 1..Len(w) /\ off + (s - 1) = i - 1 /\ b[i - 1] = Newline
      BY <1>1, <1>3, <2>2
    <3>2. w[s - 1] = Newline
      BY <1>1, <3>1
    <3> QED
      BY <1>3, <3>2 DEF LineStarts
  <2> QED
    BY <2>1, <2>2
<1>6. Hit(w, h)
  <2>1. w[h] = b[j] /\ w[h + 1] = b[j + 1]
    BY <1>1, <1>3, <1>4
  <2> QED
    BY <2>1 DEF Hit
<1>7. ASSUME NEW k \in s..h PROVE w[k] # Newline
  <2>1. k \in 1..Len(w) /\ off + k \in i..j
    <3>1. k \in Int /\ s <= k /\ k <= h /\ s \in Int /\ h \in Int /\ s >= 1 /\ h <= Len(w)
      BY <1>1, <1>3
    <3>2. s = i - off /\ h = j - off
      OBVIOUS
    <3> HIDE DEF s, h
    <3> QED
      BY <1>1, <3>1, <3>2
  <2>2. w[k] = b[off + k]
    BY <1>1, <2>1
  <2>3. b[off + k] # Newline
    <3> HIDE DEF s, h
    <3> QED
      BY <2>1
  <2> QED
    BY <2>2, <2>3
<1>8. MatchesFrom(w, s)
  <2> HIDE DEF s, h
  <2> QED
    BY <1>3, <1>6, <1>7 DEF MatchesFrom
<1> QED
  BY <1>5, <1>8 DEF Found, w

\* A scan that finds nothing passes over nothing: every line it counts as read
\* was in its window, or all of the line's head was.
LEMMA PassedOn ==
  ASSUME NEW b \in Seq(Bytes), NEW base \in Nat, NEW off \in Nat, Passed(b, base, off), ~Found(b, off)
  PROVE  Passed(b, base, off + Consumed(b, off))
<1> DEFINE w == Window(b, off)
           n == Consumed(b, off)
           to == off + n
<1>1. Len(b) \in Nat /\ Len(w) \in Nat /\ off + Len(w) <= Len(b) /\ base <= off /\ off <= Len(b)
  BY WindowIs, LenProperties DEF Passed
<1>2. /\ n \in 0..Len(w)
      /\ n = 0 \/ b[off + n] = Newline \/ (n = MaxScan /\ \A i \in 1..n : b[off + i] # Newline)
  BY ConsumedIs
<1> SUFFICES Passed(b, base, to)
  OBVIOUS
<1>3. to \in Nat /\ off <= to /\ base <= to /\ to <= Len(b) /\ to <= off + Len(w)
  BY <1>1, <1>2
<1>4. ASSUME NEW i \in (base + 1)..to, i = base + 1 \/ b[i - 1] = Newline
      PROVE  /\ ~MatchesFrom(b, i)
             /\ (\E e \in i..to : b[e] = Newline) \/ i + MaxLineHead - 1 <= to
  <2> HIDE DEF w, n, to
  <2>1. CASE i <= off
    <3>1. /\ ~MatchesFrom(b, i)
          /\ (\E e \in i..off : b[e] = Newline) \/ i + MaxLineHead - 1 <= off
      BY <1>4, <2>1 DEF Passed
    <3>2. i..off \subseteq i..to
      BY <1>3
    <3> QED
      BY <1>3, <3>1, <3>2, LogProbeAssumption
  <2>2. CASE i > off
    <3>1. i \in Nat /\ n # 0 /\ (i = off + 1 \/ b[i - 1] = Newline)
      <4>1. i = base + 1 => i = off + 1
        BY <1>1, <2>2
      <4>2. n # 0
        BY <1>1, <1>2, <2>2 DEF to
      <4> QED
        BY <1>4, <4>1, <4>2
    <3>2. ASSUME NEW j \in Nat, i <= j, j + 1 < i + MaxLineHead, Hit(b, j), \A k \in i..j : b[k] # Newline,
                 j + 1 <= to
          PROVE  FALSE
      <4>1. j + 1 <= off + Len(Window(b, off))
        BY <1>1, <1>3, <3>2 DEF w
      <4> QED
        BY <2>2, <3>1, <3>2, <4>1, FoundInWindow
    <3>3. CASE b[to] = Newline
      <4>1. to \in i..to
        BY <1>3
      <4>2. ASSUME MatchesFrom(b, i) PROVE FALSE
        <5>1. PICK j \in i..(Len(b) - 1) :
                j + 1 < i + MaxLineHead /\ Hit(b, j) /\ \A k \in i..j : b[k] # Newline
          BY <4>2 DEF MatchesFrom
        <5>2. j \in Nat /\ i <= j
          BY <1>1, <3>1
        <5>3. j < to
          <6>1. to \notin i..j
            BY <3>3, <5>1
          <6> QED
            BY <1>3, <4>1, <5>2, <6>1
        <5>4. j + 1 <= to
          BY <1>3, <5>2, <5>3
        <5> QED
          BY <3>2, <5>1, <5>2, <5>4
      <4> QED
        BY <3>3, <4>1, <4>2
    <3>4. CASE n = MaxScan /\ \A k \in 1..n : b[off + k] # Newline
      <4>1. i = off + 1
        <5>1. SUFFICES ASSUME i # off + 1 PROVE FALSE
          OBVIOUS
        <5>2. i - 1 - off \in 1..n /\ off + (i - 1 - off) = i - 1
          BY <1>1, <1>2, <2>2, <5>1 DEF to
        <5>3. b[off + (i - 1 - off)] # Newline
          BY <3>4, <5>2
        <5> QED
          BY <3>1, <5>1, <5>2, <5>3
      <4>2. i + MaxLineHead - 1 <= to
        BY <3>4, <4>1, LogProbeAssumption DEF to
      <4>3. ASSUME MatchesFrom(b, i) PROVE FALSE
        <5>1. PICK j \in i..(Len(b) - 1) :
                j + 1 < i + MaxLineHead /\ Hit(b, j) /\ \A k \in i..j : b[k] # Newline
          BY <4>3 DEF MatchesFrom
        <5>2. j \in Nat /\ i <= j /\ j + 1 <= to
          BY <1>1, <1>3, <3>1, <4>2, <5>1, LogProbeAssumption
        <5> QED
          BY <3>2, <5>1, <5>2
      <4> QED
        BY <4>2, <4>3
    <3> QED
      BY <1>2, <3>1, <3>3, <3>4 DEF to
  <2> QED
    BY <1>1, <1>3, <2>1, <2>2
<1> QED
  BY <1>3, <1>4 DEF Passed

\* What has been passed over does not match later, however the log grows.
LEMMA PassedGrows ==
  ASSUME NEW b \in Seq(Bytes), NEW base \in Nat, NEW off \in Nat, Passed(b, base, off), NEW x \in Bytes
  PROVE  Passed(Append(b, x), base, off)
<1> DEFINE c == Append(b, x)
<1>1. Len(b) \in Nat /\ base <= off /\ off <= Len(b)
  BY LenProperties DEF Passed
<1>2. Len(c) = Len(b) + 1 /\ \A i \in 1..Len(b) : c[i] = b[i]
  OBVIOUS
<1> SUFFICES Passed(c, base, off)
  OBVIOUS
<1> HIDE DEF c
<1>3. ASSUME NEW i \in (base + 1)..off, i = base + 1 \/ c[i - 1] = Newline
      PROVE  /\ ~MatchesFrom(c, i)
             /\ (\E e \in i..off : c[e] = Newline) \/ i + MaxLineHead - 1 <= off
  <2>1. i \in 1..Len(b) /\ (i # base + 1 => i - 1 \in 1..Len(b))
    BY <1>1
  <2>2. i = base + 1 \/ b[i - 1] = Newline
    BY <1>2, <1>3, <2>1
  <2>3. ~MatchesFrom(b, i) /\ ((\E e \in i..off : b[e] = Newline) \/ i + MaxLineHead - 1 <= off)
    BY <2>2 DEF Passed
  <2>4. \A e \in i..off : e \in 1..Len(b) /\ c[e] = b[e]
    BY <1>1, <1>2, <2>1
  <2>5. ASSUME MatchesFrom(c, i) PROVE FALSE
    <3>1. PICK j \in i..(Len(c) - 1) :
            j + 1 < i + MaxLineHead /\ Hit(c, j) /\ \A k \in i..j : c[k] # Newline
      BY <2>5 DEF MatchesFrom
    <3>2. j < off
      <4>1. CASE \E e \in i..off : b[e] = Newline
        <5>1. PICK e \in i..off : c[e] = Newline
          BY <2>4, <4>1
        <5>2. e \notin i..j
          BY <3>1, <5>1
        <5> QED
          BY <1>1, <5>2
      <4>2. CASE i + MaxLineHead - 1 <= off
        BY <1>1, <3>1, <4>2, LogProbeAssumption
      <4> QED
        BY <2>3, <4>1, <4>2
    <3>3. j \in i..(Len(b) - 1) /\ j \in 1..Len(b) /\ j + 1 \in 1..Len(b) /\ \A k \in i..j : k \in 1..Len(b)
      BY <1>1, <2>1, <3>2
    <3>4. Hit(b, j) /\ \A k \in i..j : b[k] # Newline
      BY <1>2, <3>1, <3>3 DEF Hit
    <3>5. MatchesFrom(b, i)
      BY <3>1, <3>3, <3>4 DEF MatchesFrom
    <3> QED
      BY <2>3, <3>5
  <2> QED
    BY <2>3, <2>4, <2>5
<1>4. off <= Len(c)
  BY <1>1, <1>2
<1> QED
  BY <1>1, <1>3, <1>4 DEF Passed

\* At the place the counting begins nothing has been passed over.
LEMMA PassedNothing ==
  ASSUME NEW b \in Seq(Bytes), NEW base \in Nat, base <= Len(b)
  PROVE  Passed(b, base, base)
<1>1. (base + 1)..base = {}
  OBVIOUS
<1> QED
  BY <1>1 DEF Passed

\* In the words of the property: a line of what counts.
LEMMA PassedMeans ==
  ASSUME NEW b \in Seq(Bytes), NEW base \in Nat, NEW off \in Nat, Passed(b, base, off)
  PROVE  LET c == SubSeq(b, base + 1, Len(b))
         IN  \A s \in LineStarts(c), e \in Newlines(c) :
               MatchesFrom(c, s) /\ s <= e => e + Len(b) - Len(c) > off
<1> DEFINE c == SubSeq(b, base + 1, Len(b))
<1>1. Len(b) \in Nat /\ base <= off /\ off <= Len(b)
  BY LenProperties DEF Passed
<1>2. /\ c \in Seq(Bytes) /\ Len(c) = IF base + 1 <= Len(b) THEN Len(b) - (base + 1) + 1 ELSE 0
      /\ \A i \in 1..(Len(b) - (base + 1) + 1) : c[i] = b[base + 1 + i - 1]
  <2>1. \A i \in (base + 1)..Len(b) : b[i] \in Bytes
    BY <1>1, ElementOfSeq
  <2>2. base + 1 \in Int /\ Len(b) \in Int
    BY <1>1
  <2> QED
    BY <2>1, <2>2, SubSeqProperties
<1> HIDE DEF c
<1>3. Len(c) = Len(b) - base /\ Len(c) \in Nat
  BY <1>1, <1>2
<1>4. \A i \in 1..Len(c) : c[i] = b[base + i]
  <2>1. \A i \in 1..Len(c) : i \in 1..(Len(b) - (base + 1) + 1) /\ base + 1 + i - 1 = base + i
    BY <1>1, <1>3
  <2> QED
    BY <1>2, <2>1
<1>5. ASSUME NEW s \in LineStarts(c), NEW e \in Newlines(c), MatchesFrom(c, s), s <= e
      PROVE  e + Len(b) - Len(c) > off
  <2> DEFINE i == base + s
  <2>1. s \in 1..Len(c) /\ e \in 1..Len(c) /\ (s = 1 \/ c[s - 1] = Newline)
    BY DEF LineStarts, Newlines
  <2>2. SUFFICES ASSUME e + base <= off PROVE FALSE
    BY <1>1, <1>3, <2>1
  <2>3. i \in (base + 1)..off
    BY <1>1, <1>3, <1>5, <2>1, <2>2
  <2>4. i = base + 1 \/ b[i - 1] = Newline
    <3>1. s # 1 => s - 1 \in 1..Len(c) /\ base + (s - 1) = i - 1
      BY <1>3, <2>1
    <3>2. s = 1 => i = base + 1
      BY <2>1
    <3> QED
      BY <1>4, <2>1, <3>1, <3>2
  <2>5. PICK j \in s..(Len(c) - 1) :
          j + 1 < s + MaxLineHead /\ Hit(c, j) /\ \A k \in s..j : c[k] # Newline
    BY <1>5 DEF MatchesFrom
  <2> DEFINE h == base + j
  <2>6. h \in i..(Len(b) - 1) /\ h + 1 < i + MaxLineHead
    BY <1>1, <1>3, <2>1, <2>5, LogProbeAssumption
  <2>7. Hit(b, h)
    <3>1. j \in 1..Len(c) /\ j + 1 \in 1..Len(c) /\ base + (j + 1) = h + 1
      BY <1>3, <2>1
    <3>2. c[j] = b[h] /\ c[j + 1] = b[h + 1]
      BY <1>4, <3>1
    <3> QED
      BY <2>5, <3>2 DEF Hit
  <2>8. ASSUME NEW k \in i..h PROVE b[k] # Newline
    <3>1. k - base \in s..j /\ k - base \in 1..Len(c) /\ base + (k - base) = k
      BY <1>3, <2>1
    <3>2. c[k - base] = b[base + (k - base)]
      BY <1>4, <3>1
    <3> QED
      BY <2>5, <3>1, <3>2
  <2>9. MatchesFrom(b, i)
    <3> HIDE DEF i, h
    <3> QED
      BY <2>6, <2>7, <2>8 DEF MatchesFrom
  <2> HIDE DEF i
  <2> QED
    BY <2>3, <2>4, <2>9 DEF Passed
<1> QED
  BY <1>5 DEF c

-----------------------------------------------------------------------------
(* The writers.                                                            *)

\* An mtime is no older than the grain of the file system.
LEMMA MtimeIs ==
  ASSUME NEW c \in Nat
  PROVE  c - (c % MtimeGrain) \in 0..c /\ c - (c % MtimeGrain) > c - MtimeGrain
<1>1. c % MtimeGrain \in 0..(MtimeGrain - 1) /\ c % MtimeGrain <= c
  BY LogFileAssumption
<1> DEFINE r == c % MtimeGrain
<1> HIDE DEF r
<1>2. r \in 0..(MtimeGrain - 1) /\ r <= c
  BY <1>1 DEF r
<1>3. c - r \in 0..c /\ c - r > c - MtimeGrain
  BY <1>2, LogFileAssumption
<1> QED
  BY <1>3 DEF r

\* What a step of the environment does to the file: it keeps its generation and
\* grows, or is overwritten in place, or it is another one, or gone. Its mtime
\* is that of the step.
Written == file'.mtime = Mtime /\ clock' = clock
Grown == /\ Present /\ Size < MaxLen /\ Written /\ gens' = gens
         /\ \E b \in Bytes : file' = [file EXCEPT !.bytes = Append(@, b), !.mtime = Mtime]
Renewed == /\ gens' = gens + 1 /\ gens < MaxGens /\ Written
           /\ file'.gen = gens + 1 /\ file'.bytes = <<>>
           /\ file'.ino = gens + 1 \/ (Present /\ file'.ino = file.ino)
           /\ file' \in [ino : 0..MaxGens, gen : 0..MaxGens, bytes : Seq(Bytes), mtime : 0..MaxClock]
Gone == file' = [ino |-> 0, gen |-> 0, bytes |-> <<>>, mtime |-> 0] /\ gens' = gens /\ clock' = clock
Patched == /\ cond = "file_contains" /\ Written /\ gens' = gens
           /\ file'.ino = file.ino /\ file'.gen = file.gen /\ Len(file'.bytes) = Size
           /\ file' \in [ino : 0..MaxGens, gen : 0..MaxGens, bytes : Seq(Bytes), mtime : 0..MaxClock]
Ticked == clock < MaxClock /\ clock' = clock + 1 /\ file' = file /\ gens' = gens

\* Whoever writes the log lets it grow, starts it anew, removes it, patches it in
\* place, or lets time pass.
LEMMA EnvSteps ==
  ASSUME LogTypeOK, ProbeEnv
  PROVE  Grown \/ Renewed \/ Gone \/ Patched \/ Ticked
<1>1. /\ file \in [ino : 0..MaxGens, gen : 0..MaxGens, bytes : Seq(Bytes), mtime : 0..MaxClock]
      /\ clock \in Nat /\ clock <= MaxClock /\ gens \in Nat /\ MaxGens \in Nat /\ MaxClock \in Nat
  BY LogFileAssumption DEF LogTypeOK
<1>2. Mtime \in 0..MaxClock
  <2>1. Mtime \in 0..clock
    BY <1>1, MtimeIs DEF Mtime
  <2> QED
    BY <1>1, <2>1
<1>3. <<>> \in Seq(Bytes)
  OBVIOUS
<1>4. CASE CreateFile
  <2>1. gens + 1 \in 0..MaxGens
    BY <1>1, <1>4 DEF CreateFile
  <2>2. file' \in [ino : 0..MaxGens, gen : 0..MaxGens, bytes : Seq(Bytes), mtime : 0..MaxClock]
    <3>1. file' = [ino |-> gens + 1, gen |-> gens + 1, bytes |-> <<>>, mtime |-> Mtime]
      BY <1>4 DEF CreateFile
    <3> QED
      BY <1>2, <1>3, <2>1, <3>1
  <2>3. Renewed
    BY <1>4, <2>2 DEF CreateFile, Renewed, Written
  <2> QED
    BY <2>3
<1>5. CASE TruncateFile
  <2>1. gens + 1 \in 0..MaxGens
    BY <1>1, <1>5 DEF TruncateFile
  <2>2. file' = [file EXCEPT !.gen = gens + 1, !.bytes = <<>>, !.mtime = Mtime]
    BY <1>5 DEF TruncateFile
  <2>3. /\ file' \in [ino : 0..MaxGens, gen : 0..MaxGens, bytes : Seq(Bytes), mtime : 0..MaxClock]
        /\ file'.gen = gens + 1 /\ file'.bytes = <<>> /\ file'.mtime = Mtime /\ file'.ino = file.ino
    BY <1>1, <1>2, <1>3, <2>1, <2>2
  <2>4. Renewed
    BY <1>5, <2>3 DEF TruncateFile, Renewed, Written
  <2> QED
    BY <2>4
<1>6. CASE RemoveFile
  BY <1>6 DEF RemoveFile, Gone
<1>7. CASE \E b \in Bytes : AppendByte(b)
  <2>1. PICK b \in Bytes : AppendByte(b)
    BY <1>7
  <2>2. file'.mtime = Mtime
    BY <1>1, <2>1 DEF AppendByte
  <2>3. Grown
    BY <2>1, <2>2 DEF AppendByte, Grown, Written
  <2> QED
    BY <2>3
<1>8. CASE cond = "file_contains" /\ ClockTick
  BY <1>8 DEF ClockTick, Ticked
<1>9. CASE cond = "file_contains" /\ \E i \in 1..Size : \E b \in Bytes : Overwrite(i, b)
  <2>1. PICK i \in 1..Size, b \in Bytes : Overwrite(i, b)
    BY <1>9
  <2> DEFINE c == [file.bytes EXCEPT ![i] = b]
  <2>2. c \in Seq(Bytes) /\ Len(c) = Size
    <3>1. file.bytes \in Seq(Bytes) /\ i \in 1..Len(file.bytes)
      BY <1>1 DEF Size
    <3> QED
      BY <3>1, ExceptSeq DEF Size
  <2>3. file' = [file EXCEPT !.bytes = c, !.mtime = Mtime]
    BY <2>1 DEF Overwrite
  <2> HIDE DEF c
  <2>4. /\ file' \in [ino : 0..MaxGens, gen : 0..MaxGens, bytes : Seq(Bytes), mtime : 0..MaxClock]
        /\ file'.ino = file.ino /\ file'.gen = file.gen /\ file'.bytes = c /\ file'.mtime = Mtime
    BY <1>1, <1>2, <2>2, <2>3
  <2>5. gens' = gens /\ clock' = clock
    BY <2>1 DEF Overwrite
  <2>6. Patched
    BY <1>9, <2>2, <2>4, <2>5 DEF Patched, Written
  <2> QED
    BY <2>6
<1> QED
  BY <1>4, <1>5, <1>6, <1>7, <1>8, <1>9 DEF ProbeEnv, LogStep

\* What the parts of the invariant say of the types.
LEMMA Typed ==
  ASSUME ProbeInv
  PROVE  /\ file \in [ino : 0..MaxGens, gen : 0..MaxGens, bytes : Seq(Bytes), mtime : 0..MaxClock]
         /\ file.bytes \in Seq(Bytes) /\ Len(file.bytes) \in Nat /\ Len(file.bytes) <= MaxLen
         /\ file.ino \in Nat /\ file.gen \in Nat /\ file.mtime \in Nat /\ gens \in 0..MaxGens /\ gens \in Nat
         /\ clock \in 0..MaxClock /\ clock \in Nat
         /\ offset \in Nat /\ offset <= MaxLen /\ seen \in Nat /\ at \in Nat /\ scannedAt \in Nat
         /\ ghost.start \in Nat /\ ghost.base \in Nat /\ ghost.gen \in Nat
         /\ ghost.changed \in BOOLEAN /\ ghost.stale \in BOOLEAN /\ Base \in Nat
<1>1. LogTypeOK /\ ProbeTypeOK /\ GhostTypeOK
  BY DEF ProbeInv
<1>2. file \in [ino : 0..MaxGens, gen : 0..MaxGens, bytes : Seq(Bytes), mtime : 0..MaxClock]
  BY <1>1 DEF LogTypeOK
<1>3. Len(file.bytes) \in Nat /\ Len(file.bytes) <= MaxLen
  <2>1. file.bytes \in Seq(Bytes)
    BY <1>2
  <2> QED
    BY <1>1, <2>1, LenProperties DEF LogTypeOK, Size
<1>4. gens \in 0..MaxGens /\ gens \in Nat /\ clock \in 0..MaxClock /\ clock \in Nat
  BY <1>1, LogFileAssumption DEF LogTypeOK
<1>5. /\ ghost.start \in Nat /\ ghost.base \in Nat /\ ghost.gen \in Nat
      /\ ghost.changed \in BOOLEAN /\ ghost.stale \in BOOLEAN
  BY <1>1, LogFileAssumption DEF GhostTypeOK
<1>6. offset \in Nat /\ offset <= MaxLen /\ seen \in Nat /\ at \in Nat /\ scannedAt \in Nat
  BY <1>1, LogFileAssumption DEF ProbeTypeOK
<1>7. Base \in Nat
  BY <1>5 DEF Base
<1>8. file.bytes \in Seq(Bytes) /\ file.ino \in Nat /\ file.gen \in Nat /\ file.mtime \in Nat
  BY <1>2, LogFileAssumption
<1> QED
  BY <1>2, <1>3, <1>4, <1>5, <1>6, <1>7, <1>8

\* Whatever the writers do, the invariant stays.
LEMMA EnvKeeps ==
  ASSUME ProbeInv, ProbeEnv
  PROVE  ProbeInv'
<1>0. /\ gens \in Nat /\ ghost.start \in Nat /\ ghost.gen \in Nat /\ seen \in Nat /\ file.ino \in Nat /\ file.gen \in Nat
      /\ clock \in Nat /\ scannedAt \in Nat /\ at \in Nat
  BY Typed
<1>1. UNCHANGED <<cond, step, fi, at, offset, seen, scanned, scannedAt>>
  BY DEF ProbeEnv
<1>2. /\ ghost'.start = ghost.start /\ ghost'.base = ghost.base /\ ghost'.gen = ghost.gen /\ ghost'.stale = ghost.stale
      /\ ghost'.changed => ghost.changed \/ file' # file
      /\ ghost' \in [start : 0..MaxGens, base : 0..MaxLen, gen : 0..MaxGens, changed : BOOLEAN, stale : BOOLEAN]
  <2> DEFINE x == cond = "file_contains" /\ (ghost.changed \/ file' # file)
  <2>1. ghost' = [ghost EXCEPT !.changed = x] /\ x \in BOOLEAN /\ (x => ghost.changed \/ file' # file)
    BY DEF ProbeEnv
  <2> HIDE DEF x
  <2> QED
    BY <2>1 DEF ProbeInv, GhostTypeOK
<1>3. GhostTypeOK' /\ SkipIsSound'
  BY <1>2 DEF GhostTypeOK, SkipIsSound, ProbeInv
<1>4. ProbeTypeOK'
  BY <1>1 DEF ProbeInv, ProbeTypeOK, Infos
<1>5. /\ file.ino <= gens /\ file.gen <= gens /\ seen <= gens /\ ghost.gen <= gens /\ ghost.start <= gens
      /\ Present => file.gen > 0
      /\ cond = "log_regex" /\ seen = 0 => offset = 0 /\ step # "scan"
      /\ cond = "log_regex" /\ Present /\ file.gen = ghost.start => file.gen = file.ino /\ seen = file.ino
  BY DEF ProbeInv, GenerationsInv
<1>6. /\ scannedAt <= clock /\ at <= clock /\ (step = "at" => cond = "file_contains")
      /\ ghost.changed /\ Present => file.mtime > scannedAt - MtimeGrain
  BY DEF ProbeInv, SettledInv
<1>7. PassedInv
  BY DEF ProbeInv
<1>8. Written => file'.mtime > scannedAt - MtimeGrain /\ SettledInv'
  <2> SUFFICES ASSUME Written PROVE file'.mtime > scannedAt - MtimeGrain /\ SettledInv'
    OBVIOUS
  <2>1. Mtime \in Nat /\ Mtime > clock - MtimeGrain
    BY Typed, MtimeIs DEF Mtime
  <2>2. file'.mtime > scannedAt - MtimeGrain
    BY <1>6, <2>1, Typed, LogFileAssumption DEF Written
  <2> QED
    BY <1>1, <1>6, <2>2 DEF Written, SettledInv
<1>9. CASE Grown
  <2>1. PICK b \in Bytes : file' = [file EXCEPT !.bytes = Append(file.bytes, b), !.mtime = Mtime]
    BY <1>9 DEF Grown
  <2> DEFINE c == Append(file.bytes, b)
  <2>2. c \in Seq(Bytes) /\ Len(c) = Size + 1 /\ Size + 1 <= MaxLen
    BY <1>9, Typed, LogFileAssumption DEF Grown, Size
  <2>3. Mtime \in 0..MaxClock
    <3>1. Mtime \in 0..clock
      BY Typed, MtimeIs DEF Mtime
    <3> QED
      BY <3>1, Typed, LogFileAssumption
  <2> HIDE DEF c
  <2>4. /\ file' \in [ino : 0..MaxGens, gen : 0..MaxGens, bytes : Seq(Bytes), mtime : 0..MaxClock]
        /\ file'.ino = file.ino /\ file'.gen = file.gen /\ file'.bytes = c
    BY <2>1, <2>2, <2>3, Typed DEF c
  <2>5. gens' = gens /\ clock' = clock /\ Present /\ Written
    BY <1>9 DEF Grown, Written
  <2>6. LogTypeOK'
    BY <2>2, <2>4, <2>5, Typed DEF LogTypeOK, Size
  <2>7. GenerationsInv'
    BY <1>1, <1>2, <1>5, <2>4, <2>5 DEF GenerationsInv, Present
  <2>8. PassedInv'
    <3> SUFFICES ASSUME cond = "log_regex", seen = file.ino, Noticed PROVE Passed(c, Base, offset)
      BY <1>1, <1>2, <2>4 DEF PassedInv, Present, Noticed, Base
    <3>1. Passed(file.bytes, Base, offset)
      BY <1>7, <2>5 DEF PassedInv
    <3> QED
      BY <3>1, Typed, PassedGrows DEF c
  <2>9. SettledInv'
    BY <1>8, <2>5
  <2> QED
    BY <1>3, <1>4, <2>6, <2>7, <2>8, <2>9 DEF ProbeInv
<1>10. CASE Renewed
  <2>1. /\ gens' = gens + 1 /\ gens < MaxGens /\ Written /\ clock' = clock
        /\ file'.gen = gens + 1 /\ file'.bytes = <<>>
        /\ file'.ino = gens + 1 \/ (Present /\ file'.ino = file.ino)
        /\ file' \in [ino : 0..MaxGens, gen : 0..MaxGens, bytes : Seq(Bytes), mtime : 0..MaxClock]
    BY <1>10 DEF Renewed, Written
  <2>2. LogTypeOK'
    BY <2>1, Typed, LogFileAssumption DEF LogTypeOK, Size
  <2>3. GenerationsInv'
    <3>1. file'.gen # ghost'.start /\ file'.gen > 0
      BY <1>0, <1>2, <1>5, <2>1
    <3>2. /\ file'.ino <= gens' /\ file'.gen <= gens' /\ seen' <= gens' /\ ghost'.gen <= gens' /\ ghost'.start <= gens'
      BY <1>0, <1>1, <1>2, <1>5, <2>1
    <3> QED
      BY <1>1, <1>5, <3>1, <3>2 DEF GenerationsInv
  <2>4. PassedInv'
    <3>1. file'.gen # ghost'.gen
      BY <1>0, <1>2, <1>5, <2>1
    <3>2. file'.gen = file'.ino => seen' # file'.ino
      BY <1>0, <1>1, <1>5, <2>1
    <3> QED
      BY <3>1, <3>2 DEF PassedInv, Noticed
  <2>5. SettledInv'
    BY <1>8, <2>1
  <2> QED
    BY <1>3, <1>4, <2>2, <2>3, <2>4, <2>5 DEF ProbeInv
<1>11. CASE Gone
  <2>1. file'.ino = 0 /\ file'.gen = 0 /\ file'.bytes = <<>> /\ file'.mtime = 0 /\ gens' = gens /\ clock' = clock
    BY <1>11 DEF Gone
  <2>2. LogTypeOK'
    BY <1>11, Typed, LogFileAssumption DEF LogTypeOK, Size, Gone
  <2>3. GenerationsInv'
    BY <1>1, <1>2, <1>5, <2>1, Typed DEF GenerationsInv, Present
  <2>4. PassedInv' /\ SettledInv'
    BY <1>1, <1>6, <2>1 DEF PassedInv, SettledInv, Present
  <2> QED
    BY <1>3, <1>4, <2>2, <2>3, <2>4 DEF ProbeInv
<1>12. CASE Patched
  <2>1. /\ cond = "file_contains" /\ Written /\ gens' = gens /\ clock' = clock
        /\ file'.ino = file.ino /\ file'.gen = file.gen /\ Len(file'.bytes) = Size
        /\ file' \in [ino : 0..MaxGens, gen : 0..MaxGens, bytes : Seq(Bytes), mtime : 0..MaxClock]
    BY <1>12 DEF Patched, Written
  <2>2. LogTypeOK'
    BY <2>1, Typed DEF LogTypeOK, Size
  <2>3. GenerationsInv' /\ PassedInv'
    BY <1>1, <1>2, <1>5, <2>1 DEF GenerationsInv, PassedInv, Present
  <2>4. SettledInv'
    BY <1>8, <2>1
  <2> QED
    BY <1>3, <1>4, <2>2, <2>3, <2>4 DEF ProbeInv
<1>13. CASE Ticked
  <2>1. clock < MaxClock /\ clock' = clock + 1 /\ file' = file /\ gens' = gens
    BY <1>13 DEF Ticked
  <2>2. clock' \in 0..MaxClock /\ scannedAt <= clock' /\ at <= clock'
    BY <1>0, <1>6, <2>1, LogFileAssumption
  <2>3. LogTypeOK'
    BY <2>1, <2>2 DEF LogTypeOK, Size, ProbeInv
  <2>4. GenerationsInv'
    BY <1>1, <1>2, <1>5, <2>1 DEF GenerationsInv, Present
  <2>5. PassedInv'
    BY <1>1, <1>2, <1>7, <2>1 DEF PassedInv, Present, Noticed, Base
  <2>6. SettledInv'
    BY <1>1, <1>2, <1>6, <2>1, <2>2 DEF SettledInv, Present
  <2> QED
    BY <1>3, <1>4, <2>3, <2>4, <2>5, <2>6 DEF ProbeInv
<1>14. LogTypeOK
  BY DEF ProbeInv
<1> QED
  BY <1>9, <1>10, <1>11, <1>12, <1>13, <1>14, EnvSteps

-----------------------------------------------------------------------------
(* The steps of a check.                                                   *)

\* What an unchanged file keeps.
LEMMA SameFile ==
  ASSUME ProbeInv, UNCHANGED logVars
  PROVE  LogTypeOK' /\ file' = file /\ gens' = gens /\ clock' = clock
BY DEF ProbeInv, LogTypeOK, Size, logVars

\* The stat of log_regex: a file that shrank or is another one is read from its head.
LEMMA StatLogKeeps ==
  ASSUME ProbeInv, StatLog
  PROVE  ProbeInv'
<1> DEFINE off == IF Restart THEN 0 ELSE offset
<1>1. /\ cond = "log_regex" /\ Present /\ offset' = off /\ seen' = file.ino /\ step' = "scan" /\ step = "stat"
      /\ ghost' = IF off = 0 THEN [ghost EXCEPT !.gen = file.gen] ELSE ghost
      /\ UNCHANGED <<logVars, cond, fi, at, scanned, scannedAt>>
  BY DEF StatLog
<1>2. LogTypeOK' /\ file' = file /\ gens' = gens /\ clock' = clock
  BY <1>1, SameFile
<1>3. /\ ghost'.start = ghost.start /\ ghost'.base = ghost.base /\ ghost'.stale = ghost.stale /\ ghost'.changed = ghost.changed
      /\ ghost'.gen = IF off = 0 THEN file.gen ELSE ghost.gen
      /\ ghost' \in [start : 0..MaxGens, base : 0..MaxLen, gen : 0..MaxGens, changed : BOOLEAN, stale : BOOLEAN]
  <2>1. ghost \in [start : 0..MaxGens, base : 0..MaxLen, gen : 0..MaxGens, changed : BOOLEAN, stale : BOOLEAN]
    BY DEF ProbeInv, GhostTypeOK
  <2>2. file.gen \in 0..MaxGens
    BY Typed
  <2> HIDE DEF off
  <2> QED
    BY <1>1, <2>1, <2>2
<1>4. off \in 0..MaxLen /\ file.ino \in 0..MaxGens /\ (off = 0 \/ off = offset)
  BY Typed, LogFileAssumption
<1>5. ProbeTypeOK' /\ GhostTypeOK' /\ SkipIsSound'
  BY <1>1, <1>3, <1>4 DEF ProbeInv, ProbeTypeOK, GhostTypeOK, SkipIsSound, Infos
<1>6. /\ file.ino <= gens /\ file.gen <= gens /\ seen <= gens /\ ghost.gen <= gens /\ ghost.start <= gens
      /\ file.gen > 0 /\ (seen = 0 => offset = 0)
      /\ file.gen = ghost.start => file.gen = file.ino /\ seen = file.ino
  BY <1>1 DEF ProbeInv, GenerationsInv
<1>7. GenerationsInv'
  <2>1. file'.ino # 0
    BY <1>1, <1>2 DEF Present
  <2> HIDE DEF off
  <2> QED
    BY <1>1, <1>2, <1>3, <1>6, <2>1 DEF GenerationsInv, Present
<1>8. SettledInv'
  BY <1>1, <1>2, <1>3 DEF ProbeInv, SettledInv, Present
<1>9. PassedInv'
  <2> SUFFICES ASSUME Noticed' PROVE Passed(file.bytes, Base, off)
    <3>1. Base' = Base
      BY <1>2, <1>3 DEF Base
    <3> HIDE DEF off
    <3> QED
      BY <1>1, <1>2, <3>1 DEF PassedInv
  <2>1. CASE file.gen = ghost.start
    <3>1. seen = file.ino /\ Noticed
      BY <1>6, <2>1 DEF Noticed
    <3>2. Passed(file.bytes, Base, offset)
      BY <1>1, <3>1 DEF ProbeInv, PassedInv
    <3>3. ~Restart
      BY <3>1, <3>2, Typed DEF Passed, Restart, Size
    <3> QED
      BY <3>2, <3>3
  <2>2. CASE file.gen # ghost.start
    <3>1. Base = 0
      BY <2>2 DEF Base
    <3>2. CASE off = 0
      BY <3>1, <3>2, Typed, PassedNothing
    <3>3. CASE off # 0
      <4>1. ~Restart /\ off = offset /\ ghost'.gen = ghost.gen
        BY <1>3, <3>3
      <4>2. seen = file.ino
        BY <1>6, <3>3, <4>1 DEF Restart
      <4>3. Noticed
        BY <1>2, <4>1 DEF Noticed
      <4> QED
        BY <1>1, <4>1, <4>2, <4>3 DEF ProbeInv, PassedInv
    <3> QED
      BY <3>2, <3>3
  <2> QED
    BY <2>1, <2>2
<1> QED
  BY <1>2, <1>5, <1>7, <1>8, <1>9 DEF ProbeInv

\* The scan of log_regex: what it puts below the offset it has searched.
LEMMA ScanLogKeeps ==
  ASSUME ProbeInv, ScanLog
  PROVE  ProbeInv'
<1>1. /\ cond = "log_regex" /\ step = "scan" /\ step' \in {"satisfied", "stat"}
      /\ UNCHANGED <<logVars, cond, fi, at, seen, scanned, scannedAt, ghost>>
      /\ \/ offset' = offset
         \/ Present /\ ~Found(file.bytes, offset) /\ offset' = offset + Consumed(file.bytes, offset)
  BY DEF ScanLog
<1>2. LogTypeOK' /\ file' = file /\ gens' = gens /\ clock' = clock
  BY <1>1, SameFile
<1>3. offset' \in 0..MaxLen
  <2>1. CASE offset' = offset
    BY <2>1, Typed, LogFileAssumption
  <2>2. CASE offset' = offset + Consumed(file.bytes, offset)
    <3> DEFINE n == Consumed(file.bytes, offset)
               l == Len(Window(file.bytes, offset))
    <3>1. n \in 0..l
      BY Typed, ConsumedIs
    <3>2. /\ l \in Nat /\ (offset <= Len(file.bytes) => offset + l <= Len(file.bytes))
          /\ (offset > Len(file.bytes) => l = 0)
      BY Typed, WindowIs, LenProperties
    <3> HIDE DEF n, l
    <3>3. offset + n \in 0..MaxLen
      <4>1. offset \in Nat /\ offset <= MaxLen /\ Len(file.bytes) \in Nat /\ Len(file.bytes) <= MaxLen
        BY Typed
      <4> QED
        BY <3>1, <3>2, <4>1, LogFileAssumption
    <3> QED
      BY <2>2, <3>3 DEF n
  <2> QED
    BY <1>1, <2>1, <2>2
<1>4. ProbeTypeOK' /\ GhostTypeOK' /\ SkipIsSound'
  BY <1>1, <1>3 DEF ProbeInv, ProbeTypeOK, GhostTypeOK, SkipIsSound, Infos
<1>5. GenerationsInv'
  <2>1. seen # 0
    BY <1>1 DEF ProbeInv, GenerationsInv
  <2> QED
    BY <1>1, <1>2, <2>1 DEF ProbeInv, GenerationsInv, Present
<1>6. SettledInv'
  BY <1>1, <1>2 DEF ProbeInv, SettledInv, Present
<1>7. PassedInv'
  <2> SUFFICES ASSUME Present, seen = file.ino, Noticed PROVE Passed(file.bytes, Base, offset')
    BY <1>1, <1>2 DEF PassedInv, Present, Noticed, Base
  <2>1. Passed(file.bytes, Base, offset)
    BY <1>1 DEF ProbeInv, PassedInv
  <2> QED
    BY <1>1, <2>1, Typed, PassedOn
<1> QED
  BY <1>2, <1>4, <1>5, <1>6, <1>7 DEF ProbeInv

\* A check that skips the scan has met no write since the last one: such a
\* write would have left a newer mtime.
LEMMA StatContainsKeeps ==
  ASSUME ProbeInv, StatContains
  PROVE  ProbeInv'
<1> DEFINE stale == Unchanged /\ ghost.changed
<1>1. /\ cond = "file_contains" /\ Present /\ fi' = Stat /\ step' \in {"stat", "at"}
      /\ ghost' = [ghost EXCEPT !.stale = stale]
      /\ UNCHANGED <<logVars, cond, at, offset, seen, scanned, scannedAt>>
  BY DEF StatContains
<1>2. LogTypeOK' /\ file' = file /\ gens' = gens /\ clock' = clock
  BY <1>1, SameFile
<1>3. stale = FALSE
  <2>1. SUFFICES ASSUME Unchanged, ghost.changed PROVE FALSE
    OBVIOUS
  <2>2. file.mtime > scannedAt - MtimeGrain
    BY <1>1, <2>1 DEF ProbeInv, SettledInv
  <2>3. scannedAt - file.mtime > SettleTime
    BY <2>1 DEF Unchanged
  <2>4. file.mtime \in Nat /\ scannedAt \in Nat
    BY Typed
  <2> QED
    BY <2>2, <2>3, <2>4, LogFileAssumption, LogProbeAssumption
<1> HIDE DEF stale
<1>4. /\ ghost'.changed = ghost.changed /\ ~ghost'.stale /\ ghost'.start = ghost.start /\ ghost'.gen = ghost.gen
      /\ ghost' \in [start : 0..MaxGens, base : 0..MaxLen, gen : 0..MaxGens, changed : BOOLEAN, stale : BOOLEAN]
  BY <1>1, <1>3 DEF ProbeInv, GhostTypeOK
<1>5. fi' \in Infos
  <2>1. file.ino \in 0..MaxGens /\ Size \in 0..MaxLen /\ file.mtime \in 0..MaxClock
    BY Typed, LogFileAssumption DEF Size
  <2> QED
    BY <1>1, <2>1 DEF Stat, Infos
<1>6. ProbeTypeOK' /\ GhostTypeOK' /\ SkipIsSound'
  BY <1>1, <1>4, <1>5 DEF ProbeInv, ProbeTypeOK, GhostTypeOK, SkipIsSound, Infos
<1>7. GenerationsInv' /\ PassedInv' /\ SettledInv'
  BY <1>1, <1>2, <1>4 DEF ProbeInv, GenerationsInv, PassedInv, SettledInv, Present
<1> QED
  BY <1>2, <1>6, <1>7 DEF ProbeInv

\* file_contains takes the time of its scan before it reads.
LEMMA TakeAtKeeps ==
  ASSUME ProbeInv, TakeAt
  PROVE  ProbeInv'
<1>1. /\ step = "at" /\ at' = clock /\ step' = "scan"
      /\ UNCHANGED <<logVars, cond, fi, offset, seen, scanned, scannedAt, ghost>>
  BY DEF TakeAt
<1>2. LogTypeOK' /\ file' = file /\ gens' = gens /\ clock' = clock
  BY <1>1, SameFile
<1>3. cond = "file_contains" /\ clock \in 0..MaxClock /\ clock <= clock
  BY <1>1, Typed DEF ProbeInv, SettledInv
<1>4. ProbeTypeOK' /\ GhostTypeOK' /\ SkipIsSound'
  BY <1>1, <1>3 DEF ProbeInv, ProbeTypeOK, GhostTypeOK, SkipIsSound, Infos
<1>5. GenerationsInv' /\ PassedInv' /\ SettledInv'
  BY <1>1, <1>2, <1>3 DEF ProbeInv, GenerationsInv, PassedInv, SettledInv, Present
<1> QED
  BY <1>2, <1>4, <1>5 DEF ProbeInv

\* The scan of file_contains: without a match it remembers the stat and the time
\* taken before it.
LEMMA ScanContainsKeeps ==
  ASSUME ProbeInv, ScanContains
  PROVE  ProbeInv'
<1>1. /\ cond = "file_contains" /\ step' \in {"satisfied", "stat"}
      /\ UNCHANGED <<logVars, cond, fi, at, offset, seen>>
      /\ \/ UNCHANGED <<scanned, scannedAt, ghost>>
         \/ scanned' = fi /\ scannedAt' = at /\ ghost' = [ghost EXCEPT !.changed = FALSE]
  BY DEF ScanContains
<1>2. LogTypeOK' /\ file' = file /\ gens' = gens /\ clock' = clock
  BY <1>1, SameFile
<1>3. CASE UNCHANGED <<scanned, scannedAt, ghost>>
  <2>1. ProbeTypeOK' /\ GhostTypeOK' /\ SkipIsSound'
    BY <1>1, <1>3 DEF ProbeInv, ProbeTypeOK, GhostTypeOK, SkipIsSound, Infos
  <2>2. GenerationsInv' /\ PassedInv' /\ SettledInv'
    BY <1>1, <1>2, <1>3 DEF ProbeInv, GenerationsInv, PassedInv, SettledInv, Present
  <2> QED
    BY <1>2, <2>1, <2>2 DEF ProbeInv
<1>4. CASE scanned' = fi /\ scannedAt' = at /\ ghost' = [ghost EXCEPT !.changed = FALSE]
  <2>1. /\ ~ghost'.changed /\ ghost'.stale = ghost.stale /\ ghost'.start = ghost.start /\ ghost'.gen = ghost.gen
        /\ ghost' \in [start : 0..MaxGens, base : 0..MaxLen, gen : 0..MaxGens, changed : BOOLEAN, stale : BOOLEAN]
    BY <1>4 DEF ProbeInv, GhostTypeOK
  <2>2. ProbeTypeOK' /\ GhostTypeOK' /\ SkipIsSound'
    BY <1>1, <1>4, <2>1 DEF ProbeInv, ProbeTypeOK, GhostTypeOK, SkipIsSound, Infos
  <2>3. GenerationsInv' /\ PassedInv' /\ SettledInv'
    BY <1>1, <1>2, <1>4, <2>1 DEF ProbeInv, GenerationsInv, PassedInv, SettledInv, Present
  <2> QED
    BY <1>2, <2>2, <2>3 DEF ProbeInv
<1> QED
  BY <1>1, <1>3, <1>4

\* file_exists, and a missing file, change nothing that ProbeInv speaks of.
LEMMA FileExistsKeeps ==
  ASSUME ProbeInv, FileExists \/ NotPresent \/ UNCHANGED <<logVars, probeVars>>
  PROVE  ProbeInv'
<1>1. /\ UNCHANGED <<logVars, cond, fi, at, offset, seen, scanned, scannedAt, ghost>>
      /\ step' = step \/ step' = "satisfied"
  BY DEF FileExists, NotPresent, probeVars
<1>2. LogTypeOK' /\ file' = file /\ gens' = gens /\ clock' = clock
  BY <1>1, SameFile
<1>3. ProbeTypeOK' /\ GhostTypeOK' /\ SkipIsSound'
  BY <1>1 DEF ProbeInv, ProbeTypeOK, GhostTypeOK, SkipIsSound, Infos
<1>4. GenerationsInv' /\ SettledInv'
  BY <1>1, <1>2 DEF ProbeInv, GenerationsInv, SettledInv, Present
<1>5. PassedInv'
  BY <1>1, <1>2 DEF ProbeInv, PassedInv, Present, Noticed, Base
<1> QED
  BY <1>2, <1>3, <1>4, <1>5 DEF ProbeInv

\* A wait starts at the end of the log it finds (log_regex), or has scanned nothing.
LEMMA ProbeStartsRight ==
  ASSUME NEW contents, \A b \in contents : b \in Seq(Bytes) /\ Len(b) <= MaxLen,
         LogStarts(contents), NEW c \in Conditions, ProbeStarts(c)
  PROVE  ProbeInv
<1>1. PICK b \in contents, i \in 0..1 :
        file = [ino |-> i, gen |-> i, bytes |-> IF i = 0 THEN <<>> ELSE b, mtime |-> 0]
  BY DEF LogStarts
<1>2. clock = 0 /\ gens = file.ino
  BY DEF LogStarts
<1> DEFINE d == IF i = 0 THEN <<>> ELSE b
<1>3. d \in Seq(Bytes) /\ Len(d) \in 0..MaxLen /\ (i = 0 => Len(d) = 0)
  <2>1. b \in Seq(Bytes) /\ Len(b) <= MaxLen /\ Len(b) \in Nat
    BY LenProperties
  <2> QED
    BY <2>1, LogFileAssumption
<1> HIDE DEF d
<1>4. file.ino = i /\ file.gen = i /\ file.bytes = d /\ file.mtime = 0 /\ i \in 0..MaxGens /\ i \in Nat
  BY <1>1, LogFileAssumption DEF d
<1>5. file \in [ino : 0..MaxGens, gen : 0..MaxGens, bytes : Seq(Bytes), mtime : 0..MaxClock]
  BY <1>1, <1>3, <1>4, LogFileAssumption DEF d
<1>6. LogTypeOK
  BY <1>2, <1>3, <1>4, <1>5, LogFileAssumption DEF LogTypeOK, Size
<1>7. /\ cond = c /\ step = "stat" /\ at = 0 /\ scannedAt = 0 /\ fi = NoInfo /\ scanned = NoInfo
      /\ offset = (IF c = "log_regex" THEN Len(d) ELSE 0) /\ seen = (IF c = "log_regex" THEN i ELSE 0)
      /\ ghost = [start |-> i, base |-> offset, gen |-> i, changed |-> FALSE, stale |-> FALSE]
  BY <1>4 DEF ProbeStarts, Size
<1>8. offset \in 0..MaxLen /\ seen \in 0..MaxGens
  BY <1>3, <1>4, <1>7, LogFileAssumption
<1>9. NoInfo \in Infos
  BY LogFileAssumption DEF NoInfo, Infos
<1>10. ProbeTypeOK
  BY <1>7, <1>8, <1>9, LogFileAssumption DEF ProbeTypeOK
<1>11. GhostTypeOK /\ SkipIsSound /\ ~ghost.changed /\ ghost.start = i /\ ghost.gen = i /\ ghost.base = offset
  BY <1>4, <1>7, <1>8 DEF GhostTypeOK, SkipIsSound
<1>12. GenerationsInv
  BY <1>2, <1>3, <1>4, <1>7, <1>11 DEF GenerationsInv, Present
<1>13. SettledInv
  BY <1>2, <1>7, <1>11 DEF SettledInv
<1>14. PassedInv
  <2> SUFFICES ASSUME cond = "log_regex" PROVE Passed(d, Len(d), Len(d))
    BY <1>4, <1>7, <1>11 DEF PassedInv, Base
  <2>1. Len(d) \in Nat /\ Len(d) <= Len(d)
    BY <1>3
  <2> QED
    BY <1>3, <2>1, PassedNothing
<1> QED
  BY <1>6, <1>10, <1>11, <1>12, <1>13, <1>14 DEF ProbeInv

-----------------------------------------------------------------------------
(* The theorems about the probes.                                          *)

\* The invariant of the probes: what lies below the offset of log_regex has no
\* match and will have none, generations of the file only grow, and a write after
\* the last scan of file_contains has left an mtime too new for a skip.
THEOREM ProbeInductive ==
  ASSUME NEW contents, \A b \in contents : b \in Seq(Bytes) /\ Len(b) <= MaxLen
  PROVE  ProbeSpec(contents) => []ProbeInv
<1>1. LogStarts(contents) /\ (\E c \in Conditions : ProbeStarts(c)) => ProbeInv
  BY ProbeStartsRight
<1>2. ASSUME ProbeInv, [ProbeNext]_<<logVars, probeVars>> PROVE ProbeInv'
  <2> USE <1>2
  <2>1. CASE StatLog
    BY <2>1, StatLogKeeps
  <2>2. CASE ScanLog
    BY <2>2, ScanLogKeeps
  <2>3. CASE StatContains
    BY <2>3, StatContainsKeeps
  <2>4. CASE TakeAt
    BY <2>4, TakeAtKeeps
  <2>5. CASE ScanContains
    BY <2>5, ScanContainsKeeps
  <2>6. CASE FileExists \/ NotPresent \/ UNCHANGED <<logVars, probeVars>>
    BY <2>6, FileExistsKeeps
  <2>7. CASE ProbeEnv
    BY <2>7, EnvKeeps
  <2> QED
    BY <2>1, <2>2, <2>3, <2>4, <2>5, <2>6, <2>7 DEF ProbeNext, Probe
<1> QED
  BY <1>1, <1>2, PTL DEF ProbeSpec

\* A wait on a file misses nothing, for every size of a scan, of a line's head and
\* of the clock's grain, and every content, rotation and truncation: log_regex
\* passes over no complete line that counts and matches, file_contains skips no
\* file that was written since its last scan (buildProbe, scanFileForMatch).
THEOREM NothingMissed ==
  ASSUME NEW contents, \A b \in contents : b \in Seq(Bytes) /\ Len(b) <= MaxLen
  PROVE  ProbeSpec(contents) => []ProbeMissesNothing
<1>1. ASSUME ProbeInv PROVE LogPassesNoMatch
  <2> SUFFICES ASSUME cond = "log_regex", Present, seen = file.ino, Noticed,
                      NEW s \in LineStarts(Counted), NEW e \in Newlines(Counted), MatchesFrom(Counted, s), s <= e
               PROVE  e + Size - Len(Counted) > offset
    BY DEF LogPassesNoMatch
  <2>1. Passed(file.bytes, Base, offset)
    BY <1>1 DEF ProbeInv, PassedInv
  <2>2. Counted = SubSeq(file.bytes, Base + 1, Len(file.bytes)) /\ Size = Len(file.bytes)
    BY DEF Counted, Base, Size
  <2>3. file.bytes \in Seq(Bytes) /\ Base \in Nat /\ offset \in Nat
    BY <1>1, Typed
  <2> QED
    BY <2>1, <2>2, <2>3, PassedMeans
<1>2. ProbeInv => ProbeMissesNothing
  BY <1>1 DEF ProbeInv, ProbeMissesNothing
<1>3. ProbeSpec(contents) => []ProbeInv
  BY ProbeInductive
<1> QED
  BY <1>2, <1>3, PTL

-----------------------------------------------------------------------------
(* Numbers in order.                                                       *)

\* How many of S come no later than x.
Rank(S, x) == Cardinality({y \in S : y <= x})

\* A smaller number of a finite set has a smaller rank.
LEMMA RankOrder ==
  ASSUME NEW S \in SUBSET Nat, IsFiniteSet(S), NEW x \in S, NEW y \in S
  PROVE  /\ Rank(S, x) \in 1..Cardinality(S)
         /\ x < y => Rank(S, x) < Rank(S, y)
<1> DEFINE X == {z \in S : z <= x}
           Y == {z \in S : z <= y}
<1>1. X \subseteq S /\ Y \subseteq S /\ x \in X /\ y \in Y
  OBVIOUS
<1>2. ASSUME x < y PROVE X \subseteq Y \ {y}
  <2> SUFFICES ASSUME NEW z \in X PROVE z \in Y \ {y}
    OBVIOUS
  <2>1. z \in S /\ z <= x /\ x \in Nat /\ y \in Nat /\ z \in Nat
    OBVIOUS
  <2>2. z <= y /\ z # y
    BY <1>2, <2>1
  <2> QED
    BY <2>1, <2>2
<1> HIDE DEF X, Y
<1>3. IsFiniteSet(X) /\ IsFiniteSet(Y) /\ IsFiniteSet(Y \ {y}) /\ Cardinality(X) \in Nat /\ Cardinality(Y) \in Nat /\ Cardinality(S) \in Nat
  BY <1>1, FS_Subset, FS_CardinalityType
<1>4. Cardinality(Y \ {y}) = Cardinality(Y) - 1
  BY <1>1, <1>3, FS_RemoveElement
<1>5. Cardinality(X) <= Cardinality(S) /\ Cardinality(X) # 0
  BY <1>1, <1>3, FS_Subset, FS_EmptySet
<1>6. x < y => Cardinality(X) <= Cardinality(Y \ {y})
  BY <1>2, <1>3, FS_Subset
<1>7. Rank(S, x) = Cardinality(X) /\ Rank(S, y) = Cardinality(Y)
  BY DEF Rank, X, Y
<1> QED
  BY <1>3, <1>4, <1>5, <1>6, <1>7

\* The number of rank i is the i-th.
LEMMA NthThe ==
  ASSUME NEW S \in SUBSET Nat, IsFiniteSet(S), NEW x \in S
  PROVE  Nth(S, Rank(S, x)) = x
<1>1. ASSUME NEW y \in S, Rank(S, y) = Rank(S, x) PROVE y = x
  <2>1. x \in Nat /\ y \in Nat /\ Rank(S, x) \in Nat
    BY RankOrder
  <2>2. ~(x < y) /\ ~(y < x)
    BY <1>1, <2>1, RankOrder
  <2> QED
    BY <2>1, <2>2
<1> DEFINE i == Rank(S, x)
<1>2. \A y \in S : Rank(S, y) = i => y = x
  BY <1>1
<1>3. Nth(S, i) = CHOOSE y \in S : Rank(S, y) = i
  BY DEF Nth, Rank
<1>4. Rank(S, x) = i
  OBVIOUS
<1> HIDE DEF i
<1> QED
  BY <1>2, <1>3, <1>4

\* There is one for every place.
LEMMA NthIs ==
  ASSUME NEW S \in SUBSET Nat, IsFiniteSet(S), NEW i \in 1..Cardinality(S)
  PROVE  Nth(S, i) \in S /\ Rank(S, Nth(S, i)) = i
<1> DEFINE n == Cardinality(S)
           P == {k \in 0..n : k = 0 \/ \E x \in S : Rank(S, x) = k}
<1>1. n \in Nat
  BY FS_CardinalityType
<1>2. ASSUME NEW k \in 1..n, k - 1 \in P PROVE k \in P
  <2>1. PICK L \in SUBSET S : Cardinality(L) = k - 1 /\ \A y \in L, z \in S \ L : y < z
    <3>1. CASE k = 1
      <4>1. {} \in SUBSET S /\ Cardinality({}) = k - 1
        BY <3>1, FS_EmptySet
      <4> QED
        BY <4>1
    <3>2. CASE k # 1
      <4>1. PICK x \in S : Rank(S, x) = k - 1
        BY <1>2, <3>2
      <4> DEFINE L == {y \in S : y <= x}
      <4>2. Cardinality(L) = k - 1
        BY <4>1 DEF Rank
      <4>3. \A y \in L, z \in S \ L : y < z
        OBVIOUS
      <4> QED
        BY <4>2, <4>3
    <3> QED
      BY <3>1, <3>2
  <2> DEFINE T == S \ L
  <2>2. T \in SUBSET Nat /\ T # {} /\ IsFiniteSet(L)
    <3>1. L # S
      BY <1>1, <2>1
    <3>2. IsFiniteSet(L)
      BY FS_Subset
    <3> QED
      BY <3>1, <3>2
  <2>3. PICK m \in T : \A y \in T : m <= y
    <3> HIDE DEF T
    <3> QED
      BY <2>2, LeastNat
  <2>4. {y \in S : y <= m} = L \cup {m}
    <3>1. ASSUME NEW y \in S, y <= m PROVE y \in L \cup {m}
      <4>1. CASE y \in T
        <5>1. m <= y /\ m \in Nat /\ y \in Nat
          BY <2>3, <4>1
        <5> QED
          BY <3>1, <5>1
      <4> QED
        BY <4>1
    <3>2. ASSUME NEW y \in L \cup {m} PROVE y \in S /\ y <= m
      <4>1. CASE y \in L
        BY <2>1, <4>1
      <4>2. CASE y = m
        BY <4>2
      <4> QED
        BY <4>1, <4>2
    <3> QED
      BY <3>1, <3>2
  <2>5. Rank(S, m) = k
    <3>1. m \notin L
      OBVIOUS
    <3>2. Cardinality(L \cup {m}) = k - 1 + 1
      BY <2>1, <2>2, <3>1, FS_AddElement
    <3> QED
      BY <2>4, <3>2 DEF Rank
  <2>6. m \in S
    OBVIOUS
  <2> QED
    BY <2>5, <2>6
<1>3. P = 0..n
  <2>1. P \in SUBSET (0..n) /\ 0 \in P
    BY <1>1
  <2>2. \A k \in 1..n : k - 1 \in P => k \in P
    BY <1>2
  <2> HIDE DEF P
  <2> QED
    BY <1>1, <2>1, <2>2, UpTo
<1>4. PICK x \in S : Rank(S, x) = i
  <2>1. i \in P /\ i # 0
    <3>1. i \in 0..n /\ i # 0
      OBVIOUS
    <3> HIDE DEF P, n
    <3> QED
      BY <1>3, <3>1
  <2> QED
    BY <2>1
<1>5. Nth(S, i) = x
  BY <1>4, NthThe
<1> QED
  BY <1>4, <1>5

\* Numbers that follow those of a set follow them in order.
LEMMA NthOfBoth ==
  ASSUME NEW S \in SUBSET Nat, IsFiniteSet(S), NEW T \in SUBSET Nat, IsFiniteSet(T), \A x \in S, y \in T : x < y
  PROVE  /\ IsFiniteSet(S \cup T) /\ Cardinality(S \cup T) = Cardinality(S) + Cardinality(T)
         /\ \A i \in 1..Cardinality(S) : Nth(S \cup T, i) = Nth(S, i)
         /\ \A i \in 1..Cardinality(T) : Nth(S \cup T, Cardinality(S) + i) = Nth(T, i)
<1> DEFINE U == S \cup T
<1>1. S \cap T = {}
  <2>1. \A x \in S, y \in T : x # y
    <3> TAKE x \in S, y \in T
    <3>1. x < y /\ x \in Nat /\ y \in Nat
      OBVIOUS
    <3> QED
      BY <3>1
  <2> QED
    BY <2>1
<1>2. IsFiniteSet(U) /\ Cardinality(U) = Cardinality(S) + Cardinality(T) /\ U \in SUBSET Nat
      /\ Cardinality(S) \in Nat /\ Cardinality(T) \in Nat
  <2>1. IsFiniteSet(S \cap T) /\ Cardinality(S \cap T) = 0 /\ Cardinality(S) \in Nat /\ Cardinality(T) \in Nat
    BY <1>1, FS_EmptySet, FS_CardinalityType
  <2>2. IsFiniteSet(U) /\ Cardinality(U) = Cardinality(S) + Cardinality(T) - Cardinality(S \cap T)
    BY FS_Union
  <2> QED
    BY <2>1, <2>2
<1>3. ASSUME NEW i \in 1..Cardinality(S) PROVE Nth(U, i) = Nth(S, i)
  <2> DEFINE x == Nth(S, i)
  <2>1. x \in S /\ Rank(S, x) = i
    BY NthIs
  <2> HIDE DEF x
  <2>2. {y \in U : y <= x} = {y \in S : y <= x}
    <3>1. \A y \in T : ~(y <= x)
      <4> TAKE y \in T
      <4>1. x < y /\ x \in Nat /\ y \in Nat
        BY <2>1
      <4> QED
        BY <4>1
    <3> QED
      BY <3>1
  <2>3. Rank(U, x) = i
    BY <2>1, <2>2 DEF Rank
  <2>4. x \in U
    BY <2>1
  <2> HIDE DEF U
  <2>5. Nth(U, i) = x
    BY <1>2, <2>3, <2>4, NthThe
  <2> QED
    BY <2>5 DEF x
<1>4. ASSUME NEW i \in 1..Cardinality(T) PROVE Nth(U, Cardinality(S) + i) = Nth(T, i)
  <2> DEFINE x == Nth(T, i)
             low == {y \in T : y <= x}
  <2>1. x \in T /\ Rank(T, x) = i
    BY NthIs
  <2> HIDE DEF x
  <2>2. {y \in U : y <= x} = S \cup low
    <3>1. \A y \in S : y <= x
      <4> TAKE y \in S
      <4>1. y < x /\ x \in Nat /\ y \in Nat
        BY <2>1
      <4> QED
        BY <4>1
    <3> QED
      BY <3>1
  <2>3. Cardinality(S \cup low) = Cardinality(S) + i
    <3>1. low \subseteq T /\ S \cap low = {} /\ Cardinality(low) = i
      BY <1>1, <2>1 DEF Rank
    <3> HIDE DEF low
    <3>2. IsFiniteSet(low) /\ Cardinality(S \cap low) = 0
      BY <3>1, FS_Subset, FS_EmptySet
    <3>3. Cardinality(S \cup low) = Cardinality(S) + Cardinality(low) - Cardinality(S \cap low)
      BY <3>2, FS_Union
    <3> QED
      BY <1>2, <3>1, <3>2, <3>3
  <2>4. Rank(U, x) = Cardinality(S) + i
    BY <2>2, <2>3 DEF Rank
  <2>5. x \in U
    BY <2>1
  <2> HIDE DEF U
  <2>6. Nth(U, Cardinality(S) + i) = x
    BY <1>2, <2>4, <2>5, NthThe
  <2> QED
    BY <2>6 DEF x
<1> QED
  BY <1>2, <1>3, <1>4

-----------------------------------------------------------------------------
(* Stretches of a sequence.                                                *)

\* Places a + 1 to e of a sequence.
LEMMA StretchIs ==
  ASSUME NEW S, NEW s \in Seq(S), NEW a \in Nat, NEW e \in Nat, e <= Len(s)
  PROVE  /\ SubSeq(s, a + 1, e) \in Seq(S)
         /\ Len(SubSeq(s, a + 1, e)) = IF a <= e THEN e - a ELSE 0
         /\ \A i \in 1..Len(SubSeq(s, a + 1, e)) : SubSeq(s, a + 1, e)[i] = s[a + i]
<1> DEFINE t == SubSeq(s, a + 1, e)
           m == a + 1
<1>1. Len(s) \in Nat /\ m \in Int /\ e \in Int
  BY LenProperties
<1>2. \A i \in m..e : s[i] \in S
  BY <1>1, ElementOfSeq
<1>3. /\ SubSeq(s, m, e) \in Seq(S)
      /\ Len(SubSeq(s, m, e)) = IF m <= e THEN e - m + 1 ELSE 0
      /\ \A i \in 1..(e - m + 1) : SubSeq(s, m, e)[i] = s[m + i - 1]
  <2> HIDE DEF m
  <2> QED
    BY <1>1, <1>2, SubSeqProperties
<1>4. t \in Seq(S) /\ (\A i \in 1..(e - m + 1) : t[i] = s[m + i - 1]) /\ Len(t) = (IF m <= e THEN e - m + 1 ELSE 0)
  BY <1>3
<1> HIDE DEF t
<1>5. Len(t) = IF a <= e THEN e - a ELSE 0
  BY <1>4
<1>6. ASSUME NEW i \in 1..Len(t) PROVE t[i] = s[a + i]
  <2>1. i \in 1..(e - m + 1) /\ m + i - 1 = a + i
    BY <1>5
  <2> QED
    BY <1>4, <2>1
<1> QED
  BY <1>4, <1>5, <1>6 DEF t

\* Two stretches that meet join.
LEMMA StretchJoin ==
  ASSUME NEW S, NEW s \in Seq(S), NEW a \in Nat, NEW m \in Nat, NEW e \in Nat, a <= m, m <= e, e <= Len(s)
  PROVE  SubSeq(s, a + 1, m) \o SubSeq(s, m + 1, e) = SubSeq(s, a + 1, e)
<1> DEFINE p == SubSeq(s, a + 1, m)
           q == SubSeq(s, m + 1, e)
           r == SubSeq(s, a + 1, e)
<1>1. Len(s) \in Nat /\ m <= Len(s)
  BY LenProperties
<1>2. p \in Seq(S) /\ Len(p) = m - a /\ \A i \in 1..Len(p) : p[i] = s[a + i]
  BY <1>1, StretchIs
<1>3. q \in Seq(S) /\ Len(q) = e - m /\ \A i \in 1..Len(q) : q[i] = s[m + i]
  BY <1>1, StretchIs
<1>4. r \in Seq(S) /\ Len(r) = e - a /\ \A i \in 1..Len(r) : r[i] = s[a + i]
  <2>1. a <= e
    OBVIOUS
  <2> QED
    BY <2>1, StretchIs
<1> HIDE DEF p, q, r
<1>5. p \o q \in Seq(S) /\ Len(p \o q) = Len(p) + Len(q)
      /\ \A i \in 1..(Len(p) + Len(q)) : (p \o q)[i] = IF i <= Len(p) THEN p[i] ELSE q[i - Len(p)]
  BY <1>2, <1>3, ConcatProperties
<1>6. Len(p \o q) = Len(r)
  BY <1>2, <1>3, <1>4, <1>5
<1>7. ASSUME NEW i \in 1..Len(r) PROVE (p \o q)[i] = r[i]
  <2>1. i \in 1..(Len(p) + Len(q))
    BY <1>2, <1>3, <1>4
  <2>2. CASE i <= Len(p)
    <3>1. i \in 1..Len(p) /\ (p \o q)[i] = p[i]
      BY <1>2, <1>5, <2>1, <2>2
    <3> QED
      BY <1>2, <1>4, <3>1
  <2>3. CASE ~(i <= Len(p))
    <3>1. i - Len(p) \in 1..Len(q) /\ m + (i - Len(p)) = a + i
      <4>1. Len(p) = m - a /\ Len(q) = e - m /\ Len(p) \in Nat /\ Len(q) \in Nat /\ a \in Nat /\ m \in Nat
        BY <1>2, <1>3
      <4>2. i \in Nat /\ i > Len(p) /\ i <= Len(p) + Len(q)
        BY <2>1, <2>3, <4>1
      <4> QED
        BY <4>1, <4>2
    <3>2. (p \o q)[i] = q[i - Len(p)]
      BY <1>5, <2>1, <2>3
    <3> QED
      BY <1>3, <1>4, <3>1, <3>2
  <2> QED
    BY <2>2, <2>3
<1>8. p \o q = r
  BY <1>4, <1>5, <1>6, <1>7, SeqEqual
<1> QED
  BY <1>8 DEF p, q, r

\* A stretch of a stretch is one.
LEMMA StretchOfStretch ==
  ASSUME NEW S, NEW s \in Seq(S), NEW a \in Nat, NEW e \in Nat, a <= e, e <= Len(s),
         NEW c \in Nat, NEW k \in Nat, c <= k, k <= e - a
  PROVE  SubSeq(SubSeq(s, a + 1, e), c + 1, k) = SubSeq(s, (a + c) + 1, a + k)
<1> DEFINE t == SubSeq(s, a + 1, e)
           p == SubSeq(t, c + 1, k)
           x == a + c
           y == a + k
           r == SubSeq(s, x + 1, y)
<1>1. t \in Seq(S) /\ Len(t) = e - a /\ \A i \in 1..Len(t) : t[i] = s[a + i]
  BY StretchIs
<1>2. p \in Seq(S) /\ Len(p) = k - c /\ \A i \in 1..Len(p) : p[i] = t[c + i]
  <2> HIDE DEF t
  <2>1. k <= Len(t)
    BY <1>1
  <2> QED
    BY <1>1, <2>1, StretchIs
<1>3. r \in Seq(S) /\ Len(r) = k - c /\ \A i \in 1..Len(r) : r[i] = s[x + i]
  <2>1. x \in Nat /\ y \in Nat /\ y <= Len(s) /\ x <= y /\ y - x = k - c
    BY LenProperties
  <2> HIDE DEF x, y
  <2> QED
    BY <2>1, StretchIs
<1> HIDE DEF t, p, r
<1>4. ASSUME NEW i \in 1..Len(p) PROVE p[i] = r[i]
  <2>1. c + i \in 1..Len(t) /\ i \in 1..Len(r) /\ a + (c + i) = x + i
    BY <1>1, <1>2, <1>3
  <2> QED
    BY <1>1, <1>2, <1>3, <2>1
<1>5. p = r
  BY <1>2, <1>3, <1>4, SeqEqual
<1> QED
  BY <1>5 DEF p, r, t

\* Sequences that agree up to e have the same stretches up to e.
LEMMA StretchSame ==
  ASSUME NEW S, NEW s \in Seq(S), NEW t \in Seq(S), NEW a \in Nat, NEW e \in Nat, e <= Len(s), e <= Len(t),
         \A i \in 1..e : s[i] = t[i]
  PROVE  SubSeq(s, a + 1, e) = SubSeq(t, a + 1, e)
<1> DEFINE p == SubSeq(s, a + 1, e)
           q == SubSeq(t, a + 1, e)
<1>1. p \in Seq(S) /\ Len(p) = (IF a <= e THEN e - a ELSE 0) /\ \A i \in 1..Len(p) : p[i] = s[a + i]
  BY StretchIs
<1>2. q \in Seq(S) /\ Len(q) = (IF a <= e THEN e - a ELSE 0) /\ \A i \in 1..Len(q) : q[i] = t[a + i]
  BY StretchIs
<1> HIDE DEF p, q
<1>3. ASSUME NEW i \in 1..Len(p) PROVE p[i] = q[i]
  <2>1. a + i \in 1..e /\ i \in 1..Len(q)
    BY <1>1, <1>2
  <2> QED
    BY <1>1, <1>2, <2>1
<1>4. p = q
  BY <1>1, <1>2, <1>3, SeqEqual
<1> QED
  BY <1>4 DEF p, q

-----------------------------------------------------------------------------
(* Lines.                                                                  *)

\* The newlines of a text are finitely many of its places.
LEMMA NewlinesAre ==
  ASSUME NEW b \in Seq(Bytes)
  PROVE  /\ Len(b) \in Nat /\ Newlines(b) \in SUBSET (1..Len(b)) /\ Newlines(b) \in SUBSET Nat
         /\ IsFiniteSet(Newlines(b)) /\ Cardinality(Newlines(b)) \in 0..Len(b)
<1> DEFINE N == Newlines(b)
<1>1. Len(b) \in Nat
  BY LenProperties
<1>2. N \in SUBSET (1..Len(b)) /\ N \in SUBSET Nat
  BY <1>1 DEF Newlines
<1> HIDE DEF N
<1>3. IsFiniteSet(1..Len(b)) /\ Cardinality(1..Len(b)) = Len(b)
  <2>1. 1 \in Int /\ Len(b) \in Int
    BY <1>1
  <2>2. Cardinality(1..Len(b)) = IF 1 > Len(b) THEN 0 ELSE Len(b) - 1 + 1
    BY <2>1, FS_Interval
  <2>3. IsFiniteSet(1..Len(b))
    BY <2>1, FS_Interval
  <2> QED
    BY <1>1, <2>2, <2>3
<1>4. IsFiniteSet(N) /\ Cardinality(N) \in Nat /\ Cardinality(N) <= Len(b)
  BY <1>2, <1>3, FS_Subset, FS_CardinalityType
<1> QED
  BY <1>1, <1>2, <1>4 DEF N

\* NewlineSeq lists them in order.
LEMMA NewlineSeqIs ==
  ASSUME NEW b \in Seq(Bytes)
  PROVE  /\ Len(NewlineSeq(b)) = Cardinality(Newlines(b))
         /\ \A i \in 1..Len(NewlineSeq(b)) :
              /\ NewlineSeq(b)[i] \in Newlines(b) /\ NewlineSeq(b)[i] \in 1..Len(b)
              /\ Rank(Newlines(b), NewlineSeq(b)[i]) = i
<1> DEFINE N == Newlines(b)
           n == Cardinality(N)
           nl == [i \in 1..n |-> Nth(N, i)]
<1>1. N \in SUBSET Nat /\ N \in SUBSET (1..Len(b)) /\ IsFiniteSet(N) /\ n \in Nat
  BY NewlinesAre
<1>2. Len(nl) = n
  <2> HIDE DEF n
  <2> QED
    BY <1>1
<1>3. ASSUME NEW i \in 1..n PROVE nl[i] = Nth(N, i) /\ nl[i] \in N /\ Rank(N, nl[i]) = i
  <2>1. nl[i] = Nth(N, i)
    OBVIOUS
  <2> HIDE DEF nl
  <2>2. Nth(N, i) \in N /\ Rank(N, Nth(N, i)) = i
    <3> HIDE DEF N
    <3> QED
      BY <1>1, NthIs
  <2> QED
    BY <2>1, <2>2
<1>4. NewlineSeq(b) = nl
  BY DEF NewlineSeq
<1> HIDE DEF N, n, nl
<1>5. \A i \in 1..Len(nl) : nl[i] \in N /\ nl[i] \in 1..Len(b) /\ Rank(N, nl[i]) = i
  BY <1>1, <1>2, <1>3
<1> QED
  BY <1>2, <1>4, <1>5 DEF N, n

\* The place before the i-th line.
LineHead(b, i) == IF i = 1 THEN 0 ELSE NewlineSeq(b)[i - 1]

\* A line is the stretch between two newlines.
LEMMA LinesAre ==
  ASSUME NEW b \in Seq(Bytes)
  PROVE  /\ Lines(b) \in Seq(Seq(Bytes)) /\ Len(Lines(b)) = Cardinality(Newlines(b)) /\ Len(Lines(b)) \in 0..Len(b)
         /\ \A i \in 1..Len(Lines(b)) :
              /\ LineHead(b, i) \in Nat /\ NewlineSeq(b)[i] \in 1..Len(b)
              /\ Lines(b)[i] = SubSeq(b, LineHead(b, i) + 1, NewlineSeq(b)[i] - 1)
<1> DEFINE nl == NewlineSeq(b)
           n == Len(nl)
           line(i) == SubSeq(b, IF i = 1 THEN 1 ELSE nl[i - 1] + 1, nl[i] - 1)
           ls == [i \in 1..n |-> line(i)]
<1>1. n = Cardinality(Newlines(b)) /\ n \in Nat /\ n \in 0..Len(b) /\ Len(b) \in Nat
  BY NewlinesAre, NewlineSeqIs
<1>2. \A i \in 1..n : nl[i] \in 1..Len(b)
  BY NewlineSeqIs
<1>3. Lines(b) = ls
  BY DEF Lines
<1> HIDE DEF nl, n
<1>4. ASSUME NEW i \in 1..n
      PROVE  LineHead(b, i) \in Nat /\ line(i) = SubSeq(b, LineHead(b, i) + 1, nl[i] - 1) /\ line(i) \in Seq(Bytes)
  <2>1. LineHead(b, i) = IF i = 1 THEN 0 ELSE nl[i - 1]
    BY DEF LineHead, nl
  <2>2. i # 1 => i - 1 \in 1..n
    BY <1>1
  <2>3. LineHead(b, i) \in Nat /\ nl[i] - 1 \in Nat /\ nl[i] - 1 <= Len(b)
    BY <1>1, <1>2, <2>1, <2>2
  <2>4. line(i) = SubSeq(b, LineHead(b, i) + 1, nl[i] - 1)
    <3>1. (IF i = 1 THEN 1 ELSE nl[i - 1] + 1) = LineHead(b, i) + 1
      BY <2>1
    <3> QED
      BY <3>1
  <2> HIDE DEF line
  <2>5. SubSeq(b, LineHead(b, i) + 1, nl[i] - 1) \in Seq(Bytes)
    <3> DEFINE h == LineHead(b, i)
               e == nl[i] - 1
    <3>1. h \in Nat /\ e \in Nat /\ e <= Len(b)
      BY <2>3
    <3> HIDE DEF h, e
    <3>2. SubSeq(b, h + 1, e) \in Seq(Bytes)
      BY <3>1, StretchIs
    <3> QED
      BY <3>2 DEF h, e
  <2> QED
    BY <2>3, <2>4, <2>5
<1>5. ls \in [1..n -> Seq(Bytes)]
  <2> HIDE DEF line
  <2> QED
    BY <1>4
<1>6. ls \in Seq(Seq(Bytes)) /\ Len(ls) = n
  <2> HIDE DEF ls
  <2> QED
    BY <1>1, <1>5, SeqDef, LenProperties
<1>7. \A i \in 1..n : ls[i] = line(i)
  <2> HIDE DEF line
  <2> QED
    OBVIOUS
<1> HIDE DEF ls, line
<1> QED
  BY <1>1, <1>2, <1>3, <1>4, <1>6, <1>7 DEF nl

\* A byte appended leaves the lines there are and adds at most one.
LEMMA LinesGrow ==
  ASSUME NEW b \in Seq(Bytes), NEW c \in Bytes
  PROVE  /\ Len(Lines(b)) <= Len(Lines(Append(b, c)))
         /\ \A i \in 1..Len(Lines(b)) : Lines(Append(b, c))[i] = Lines(b)[i]
<1> DEFINE d == Append(b, c)
           T == IF c = Newline THEN {Len(b) + 1} ELSE {}
           N == Newlines(b)
<1>1. d \in Seq(Bytes) /\ Len(d) = Len(b) + 1 /\ (\A i \in 1..Len(b) : d[i] = b[i]) /\ d[Len(b) + 1] = c /\ Len(b) \in Nat
  BY AppendProperties, LenProperties
<1> HIDE DEF d
<1>2. Newlines(d) = N \cup T
  BY <1>1 DEF Newlines
<1>3. N \in SUBSET (1..Len(b)) /\ N \in SUBSET Nat /\ IsFiniteSet(N) /\ Cardinality(N) \in Nat
  BY NewlinesAre
<1>4. T \in SUBSET Nat /\ IsFiniteSet(T) /\ Cardinality(T) \in Nat /\ \A x \in N, y \in T : x < y
  <2>1. IsFiniteSet(T) /\ T \in SUBSET Nat
    <3>1. CASE c = Newline
      <4>1. T = {Len(b) + 1} /\ Len(b) + 1 \in Nat
        BY <1>1, <3>1
      <4> HIDE DEF T
      <4> QED
        BY <4>1, FS_Singleton
    <3>2. CASE c # Newline
      <4>1. T = {}
        BY <3>2
      <4> HIDE DEF T
      <4> QED
        BY <4>1, FS_EmptySet
    <3> QED
      BY <3>1, <3>2
  <2>2. \A x \in N, y \in T : x < y
    <3> TAKE x \in N, y \in T
    <3>1. x \in 1..Len(b) /\ y = Len(b) + 1
      BY <1>3
    <3> QED
      BY <1>1, <3>1
  <2> HIDE DEF T
  <2> QED
    BY <2>1, <2>2, FS_CardinalityType
<1> HIDE DEF T, N
<1>5. Cardinality(N \cup T) = Cardinality(N) + Cardinality(T) /\ \A i \in 1..Cardinality(N) : Nth(N \cup T, i) = Nth(N, i)
  BY <1>3, <1>4, NthOfBoth
<1> DEFINE n == Cardinality(N)
           m == Cardinality(Newlines(d))
<1>6. n \in Nat /\ m \in Nat /\ n <= m
  BY <1>2, <1>3, <1>4, <1>5
<1>7. /\ Len(NewlineSeq(b)) = n /\ \A i \in 1..n : NewlineSeq(b)[i] = Nth(N, i)
      /\ Len(NewlineSeq(d)) = m /\ \A i \in 1..m : NewlineSeq(d)[i] = Nth(Newlines(d), i)
  BY <1>1, <1>6, NewlineSeqIs DEF NewlineSeq, N
<1>8. \A i \in 1..n : NewlineSeq(d)[i] = NewlineSeq(b)[i]
  <2> TAKE i \in 1..n
  <2>1. i \in 1..m
    BY <1>6
  <2> QED
    BY <1>2, <1>5, <1>7, <2>1
<1>9. Len(Lines(b)) = n /\ Len(Lines(d)) = m
  BY <1>1, LinesAre DEF N
<1>10. ASSUME NEW i \in 1..n PROVE Lines(d)[i] = Lines(b)[i]
  <2>1. i \in 1..m /\ (i # 1 => i - 1 \in 1..n)
    BY <1>6
  <2>2. LineHead(d, i) = LineHead(b, i)
    BY <1>8, <2>1 DEF LineHead
  <2> DEFINE h == LineHead(b, i)
             e == NewlineSeq(b)[i] - 1
  <2>3. h \in Nat /\ e \in Nat /\ e <= Len(b) /\ Lines(b)[i] = SubSeq(b, h + 1, e)
    <3>1. h \in Nat /\ NewlineSeq(b)[i] \in 1..Len(b) /\ Lines(b)[i] = SubSeq(b, h + 1, e)
      BY <1>9, LinesAre
    <3> QED
      BY <1>1, <3>1
  <2>4. Lines(d)[i] = SubSeq(d, h + 1, e)
    BY <1>1, <1>8, <1>9, <2>1, <2>2, LinesAre
  <2> HIDE DEF h, e
  <2>5. e <= Len(d) /\ \A k \in 1..e : b[k] = d[k]
    BY <1>1, <2>3
  <2>6. SubSeq(b, h + 1, e) = SubSeq(d, h + 1, e)
    BY <1>1, <2>3, <2>5, StretchSame
  <2> QED
    BY <2>3, <2>4, <2>6
<1> QED
  BY <1>6, <1>9, <1>10 DEF d

-----------------------------------------------------------------------------
(* Matches.                                                                *)

\* The smaller and the greater of two numbers.
LEMMA OfTwo ==
  ASSUME NEW m \in Int, NEW n \in Int
  PROVE  Min({m, n}) = (IF m <= n THEN m ELSE n) /\ Max({m, n}) = (IF m >= n THEN m ELSE n)
<1>1. PICK x \in {m, n} : (\A y \in {m, n} : x <= y) /\ x = IF m <= n THEN m ELSE n
  OBVIOUS
<1>2. PICK z \in {m, n} : (\A y \in {m, n} : z >= y) /\ z = IF m >= n THEN m ELSE n
  OBVIOUS
<1>3. \A w \in {m, n} : (\A y \in {m, n} : w <= y) => w = x
  BY <1>1
<1>4. \A w \in {m, n} : (\A y \in {m, n} : w >= y) => w = z
  BY <1>2
<1>5. Min({m, n}) = x
  BY <1>1, <1>3 DEF Min
<1>6. Max({m, n}) = z
  BY <1>2, <1>4 DEF Max
<1> QED
  BY <1>1, <1>2, <1>5, <1>6

\* A set of numbers has a minimum.
LEMMA MinIs ==
  ASSUME NEW T \in SUBSET Nat, T # {}
  PROVE  Min(T) \in T /\ \A y \in T : Min(T) <= y
<1>1. \E x \in T : \A y \in T : x <= y
  BY LeastNat
<1> QED
  BY <1>1, Zenon DEF Min

\* Matches begin in a finite part of the text.
LEMMA HitsAre ==
  ASSUME NEW b \in Seq(Bytes), NEW A \in SUBSET (1..Len(b))
  PROVE  LET H == {s \in A : LineMatches(b, s)}
         IN  /\ H \in SUBSET Nat /\ IsFiniteSet(H) /\ Cardinality(H) \in Nat
             /\ Matching(b, A) \in Seq(Nat) /\ Len(Matching(b, A)) = Cardinality(H)
             /\ \A i \in 1..Cardinality(H) : Matching(b, A)[i] = Nth(H, Cardinality(H) + 1 - i)
<1> DEFINE H == {s \in A : LineMatches(b, s)}
           n == Cardinality(H)
           M == [i \in 1..n |-> Nth(H, n + 1 - i)]
<1>1. H \subseteq 1..Len(b) /\ Len(b) \in Nat
  BY LenProperties
<1>2. Matching(b, A) = M
  BY DEF Matching
<1> HIDE DEF H
<1>3. H \in SUBSET Nat /\ IsFiniteSet(H) /\ n \in Nat
  <2>1. 1 \in Int /\ Len(b) \in Int
    BY <1>1
  <2>2. IsFiniteSet(1..Len(b))
    BY <2>1, FS_Interval
  <2>3. IsFiniteSet(H)
    BY <1>1, <2>2, FS_Subset
  <2> QED
    BY <1>1, <2>3, FS_CardinalityType
<1>4. M \in [1..n -> Nat]
  <2>1. ASSUME NEW i \in 1..n PROVE Nth(H, n + 1 - i) \in Nat
    <3> DEFINE k == n + 1 - i
    <3>1. k \in 1..n
      BY <1>3
    <3> HIDE DEF k
    <3>2. Nth(H, k) \in H
      BY <1>3, <3>1, NthIs
    <3> QED
      BY <1>3, <3>2 DEF k
  <2> QED
    BY <2>1
<1>5. \A i \in 1..n : M[i] = Nth(H, n + 1 - i)
  OBVIOUS
<1> HIDE DEF n, M
<1>6. M \in Seq(Nat) /\ Len(M) = n
  BY <1>3, <1>4, SeqDef, LenProperties
<1> QED
  BY <1>2, <1>3, <1>5, <1>6 DEF H, n

\* The matches of later lines come first.
LEMMA MatchingSplit ==
  ASSUME NEW b \in Seq(Bytes), NEW A \in SUBSET (1..Len(b)), NEW B \in SUBSET (1..Len(b)), \A x \in B, y \in A : x < y
  PROVE  Matching(b, A \cup B) = Matching(b, A) \o Matching(b, B)
<1> DEFINE C == A \cup B
           HA == {s \in A : LineMatches(b, s)}
           HB == {s \in B : LineMatches(b, s)}
           HC == {s \in C : LineMatches(b, s)}
           m == Cardinality(HA)
           n == Cardinality(HB)
           MA == Matching(b, A)
           MB == Matching(b, B)
           MC == Matching(b, C)
<1>1. HC = HB \cup HA /\ \A x \in HB, y \in HA : x < y
  OBVIOUS
<1>2. /\ HA \in SUBSET Nat /\ IsFiniteSet(HA) /\ m \in Nat /\ MA \in Seq(Nat) /\ Len(MA) = m
      /\ \A i \in 1..m : MA[i] = Nth(HA, m + 1 - i)
  BY HitsAre
<1>3. /\ HB \in SUBSET Nat /\ IsFiniteSet(HB) /\ n \in Nat /\ MB \in Seq(Nat) /\ Len(MB) = n
      /\ \A i \in 1..n : MB[i] = Nth(HB, n + 1 - i)
  BY HitsAre
<1>4. /\ MC \in Seq(Nat) /\ Len(MC) = Cardinality(HC)
      /\ \A i \in 1..Cardinality(HC) : MC[i] = Nth(HC, Cardinality(HC) + 1 - i)
  <2>1. C \in SUBSET (1..Len(b))
    OBVIOUS
  <2> HIDE DEF C
  <2> QED
    BY <2>1, HitsAre
<1> HIDE DEF HA, HB, HC, MA, MB, MC
<1>5. /\ Cardinality(HC) = n + m
      /\ \A i \in 1..n : Nth(HC, i) = Nth(HB, i)
      /\ \A i \in 1..m : Nth(HC, n + i) = Nth(HA, i)
  BY <1>1, <1>2, <1>3, NthOfBoth
<1> HIDE DEF m, n
<1>6. /\ MA \o MB \in Seq(Nat) /\ Len(MA \o MB) = m + n
      /\ \A i \in 1..(m + n) : (MA \o MB)[i] = IF i <= m THEN MA[i] ELSE MB[i - m]
  BY <1>2, <1>3, ConcatProperties
<1>7. Len(MC) = m + n /\ \A i \in 1..(m + n) : MC[i] = Nth(HC, n + m + 1 - i)
  BY <1>2, <1>3, <1>4, <1>5
<1>8. ASSUME NEW i \in 1..(m + n) PROVE MC[i] = (MA \o MB)[i]
  <2>1. CASE i <= m
    <3> DEFINE k == m + 1 - i
    <3>1. k \in 1..m /\ n + k = n + m + 1 - i /\ i \in 1..m
      BY <1>2, <1>3, <2>1
    <3> HIDE DEF k
    <3>2. Nth(HC, n + k) = Nth(HA, k)
      BY <1>5, <3>1
    <3>3. MA[i] = Nth(HA, k)
      BY <1>2, <3>1 DEF k
    <3> QED
      BY <1>6, <1>7, <2>1, <3>1, <3>2, <3>3
  <2>2. CASE ~(i <= m)
    <3> DEFINE k == n + m + 1 - i
    <3>1. k \in 1..n /\ i - m \in 1..n /\ n + 1 - (i - m) = k
      BY <1>2, <1>3, <2>2
    <3>2. MC[i] = Nth(HC, k)
      BY <1>7
    <3> HIDE DEF k
    <3>3. Nth(HC, k) = Nth(HB, k)
      BY <1>5, <3>1
    <3>4. MB[i - m] = Nth(HB, k)
      BY <1>3, <3>1
    <3> QED
      BY <1>6, <2>2, <3>2, <3>3, <3>4
  <2> QED
    BY <2>1, <2>2
<1>9. MC = MA \o MB
  BY <1>4, <1>6, <1>7, <1>8, SeqEqual
<1> QED
  BY <1>9 DEF MA, MB, MC

\* The lines of b that begin after byte u, and their matches.
After(b, u) == {s \in LineStarts(b) : s > u}
Matches(b, u) == Matching(b, After(b, u))

\* The newest matches of the later lines are the newest of all.
LEMMA NewestIs ==
  ASSUME NEW b \in Seq(Bytes), NEW u \in Nat, NEW k \in Nat
  PROVE  /\ Matches(b, u) \in Seq(Nat) /\ Len(Matches(b, u)) \in Nat /\ Newest(b, u, k) \in Seq(Nat)
         /\ k <= Len(Matches(b, u)) => /\ Newest(b, u, k) = SubSeq(Matches(b, u), 1, k)
                                       /\ Newest(b, 0, k) = SubSeq(Matches(b, u), 1, k)
                                       /\ Len(Newest(b, u, k)) = k
         /\ k >= Len(Matches(b, u)) => Newest(b, u, k) = Matches(b, u)
<1> DEFINE A == After(b, u)
           B == {s \in LineStarts(b) : s <= u}
           M == Matching(b, A)
           R == Matching(b, B)
           F == Matching(b, After(b, 0))
<1>1. Len(b) \in Nat /\ LineStarts(b) \subseteq 1..Len(b)
  BY LenProperties DEF LineStarts
<1>2. A \in SUBSET (1..Len(b)) /\ B \in SUBSET (1..Len(b)) /\ After(b, 0) = A \cup B /\ \A x \in B, y \in A : x < y
  BY <1>1 DEF After
<1> HIDE DEF A, B
<1>3. M \in Seq(Nat) /\ R \in Seq(Nat) /\ Len(M) \in Nat /\ Len(R) \in Nat
  BY <1>2, HitsAre, LenProperties
<1>4. F = M \o R
  <2>1. Matching(b, A \cup B) = M \o R
    BY <1>2, MatchingSplit
  <2> QED
    BY <1>2, <2>1
<1>5. Newest(b, u, k) = SubSeq(M, 1, Min({k, Len(M)})) /\ Newest(b, 0, k) = SubSeq(F, 1, Min({k, Len(F)})) /\ Matches(b, u) = M
  BY DEF Newest, Matches, After, A
<1> HIDE DEF M, R, F
<1>6. /\ F \in Seq(Nat) /\ Len(F) = Len(M) + Len(R)
      /\ \A i \in 1..(Len(M) + Len(R)) : F[i] = IF i <= Len(M) THEN M[i] ELSE R[i - Len(M)]
  BY <1>3, <1>4, ConcatProperties
<1>a. k \in Int /\ Len(M) \in Int /\ Len(F) \in Int /\ Len(M) <= Len(F)
  BY <1>3, <1>6
<1>7. Min({k, Len(M)}) = (IF k <= Len(M) THEN k ELSE Len(M)) /\ Min({k, Len(F)}) = (IF k <= Len(F) THEN k ELSE Len(F))
  BY <1>a, OfTwo
<1>8. CASE k <= Len(M)
  <2>1. k <= Len(F) /\ Newest(b, u, k) = SubSeq(M, 1, k) /\ Newest(b, 0, k) = SubSeq(F, 1, k)
    <3>1. k <= Len(F)
      BY <1>a, <1>8
    <3>2. Min({k, Len(M)}) = k /\ Min({k, Len(F)}) = k
      BY <1>7, <1>8, <3>1
    <3> QED
      BY <1>5, <3>1, <3>2
  <2>2. \A i \in 1..k : M[i] = F[i]
    BY <1>3, <1>6, <1>8
  <2>3. SubSeq(M, 1, k) = SubSeq(F, 1, k) /\ SubSeq(M, 1, k) \in Seq(Nat) /\ Len(SubSeq(M, 1, k)) = k
    <3>1. 0 \in Nat /\ 0 <= k /\ 0 + 1 = 1
      OBVIOUS
    <3>2. SubSeq(M, 0 + 1, k) = SubSeq(F, 0 + 1, k)
      BY <1>3, <1>6, <1>8, <2>1, <2>2, <3>1, StretchSame
    <3>3. SubSeq(M, 0 + 1, k) \in Seq(Nat) /\ Len(SubSeq(M, 0 + 1, k)) = k - 0
      BY <1>3, <1>8, <3>1, StretchIs
    <3> QED
      BY <3>1, <3>2, <3>3
  <2>4. k >= Len(M) => Newest(b, u, k) = M
    BY <1>3, <1>8, <2>1, SubSeqFull
  <2> QED
    BY <1>3, <1>5, <1>8, <2>1, <2>3, <2>4
<1>9. CASE ~(k <= Len(M))
  <2>1. Newest(b, u, k) = SubSeq(M, 1, Len(M))
    BY <1>5, <1>7, <1>9
  <2>2. Newest(b, u, k) = M
    BY <1>3, <2>1, SubSeqFull
  <2> QED
    BY <1>3, <1>5, <1>9, <2>2
<1> QED
  BY <1>8, <1>9

\* There is room for some of the matches, or for none.
LEMMA RoomIs ==
  ASSUME NEW b, NEW all \in Seq(Nat)
  PROVE  Room(b, all) \in 0..Len(all)
<1> DEFINE used == CHOOSE used : used = [k \in 0..Len(all) |-> IF k = 0 THEN 0 ELSE used[k - 1] + LineLen(b, all[k]) + 1]
           T == {k \in 0..Len(all) : \A j \in 1..k : used[j] - 1 <= TailMaxBytes}
<1>1. Len(all) \in Nat
  BY LenProperties
<1>2. T \in SUBSET (0..Len(all)) /\ 0 \in T
  <2> HIDE DEF used
  <2> QED
    BY <1>1
<1>3. Room(b, all) = Max(T)
  BY DEF Room
<1>4. \E x \in T : \A y \in T : x >= y
  <2> HIDE DEF T
  <2> QED
    BY <1>1, <1>2, GreatestNat
<1> HIDE DEF T
<1>5. Max(T) \in T
  BY <1>4, Zenon DEF Max
<1> QED
  BY <1>2, <1>3, <1>5

\* A block adds the matches of the lines that begin in it.
LEMMA BlockIs ==
  ASSUME NEW b \in Seq(Bytes), NEW u \in 0..Len(b), NEW pos \in Nat
  PROVE  LET begins == StartsIn(b, pos, u)
             v == IF begins = {} THEN u ELSE Min(begins) - 1
         IN  /\ v \in 0..u /\ Matches(b, v) = Matches(b, u) \o Matching(b, begins)
             /\ Matching(b, begins) \in Seq(Nat)
             /\ pos = 0 => \A s \in LineStarts(b) : s > v
<1> DEFINE begins == StartsIn(b, pos, u)
           v == IF begins = {} THEN u ELSE Min(begins) - 1
           A == After(b, u)
<1>1. Len(b) \in Nat /\ LineStarts(b) \subseteq 1..Len(b) /\ u \in Nat
  BY LenProperties DEF LineStarts
<1>2. /\ begins \in SUBSET LineStarts(b) /\ begins \in SUBSET Nat /\ begins \in SUBSET (1..Len(b))
      /\ \A s \in LineStarts(b) : s \in begins <=> s <= u /\ (pos < s - 1 \/ (s = 1 /\ pos = 0))
  BY <1>1 DEF StartsIn
<1> HIDE DEF begins
<1>3. begins # {} => Min(begins) \in begins /\ \A y \in begins : Min(begins) <= y
  BY <1>2, MinIs
<1>4. v \in 0..u /\ (begins # {} => v + 1 \in begins /\ \A y \in begins : v < y) /\ (begins = {} => v = u)
  <2>1. CASE begins = {}
    BY <1>1, <2>1
  <2>2. CASE begins # {}
    <3>1. Min(begins) \in LineStarts(b) /\ Min(begins) \in 1..Len(b) /\ Min(begins) <= u /\ v = Min(begins) - 1
      BY <1>2, <1>3, <2>2
    <3>2. v + 1 = Min(begins)
      BY <3>1
    <3>3. \A y \in begins : v < y
      <4> TAKE y \in begins
      <4>1. Min(begins) <= y /\ y \in Nat
        BY <1>2, <1>3
      <4> QED
        BY <3>1, <4>1
    <3>4. v \in 0..u
      BY <1>1, <3>1
    <3> QED
      BY <1>3, <2>2, <3>2, <3>3, <3>4
  <2> QED
    BY <2>1, <2>2
<1> HIDE DEF v
<1>5. After(b, v) = A \cup begins
  <2>1. ASSUME NEW s \in LineStarts(b), s > v, s <= u PROVE s \in begins
    <3>1. begins # {}
      BY <1>1, <1>4, <2>1
    <3>2. v + 1 \in LineStarts(b) /\ (pos < v \/ (v + 1 = 1 /\ pos = 0)) /\ s \in 1..Len(b)
      <4>1. v + 1 \in begins /\ v \in Nat
        BY <1>4, <3>1
      <4>2. v + 1 \in LineStarts(b)
        BY <1>2, <4>1
      <4>3. pos < (v + 1) - 1 \/ (v + 1 = 1 /\ pos = 0)
        BY <1>2, <4>1, <4>2
      <4> QED
        BY <1>1, <4>1, <4>2, <4>3
    <3>3. pos < s - 1 \/ (s = 1 /\ pos = 0)
      BY <1>4, <2>1, <3>2
    <3> QED
      BY <1>2, <2>1, <3>3
  <2>2. ASSUME NEW s \in LineStarts(b) PROVE s > v <=> s > u \/ s \in begins
    <3>1. s \in Nat /\ v \in Nat /\ v <= u
      BY <1>1, <1>4
    <3>2. s \in begins => s > v
      BY <1>4, <3>1
    <3> QED
      BY <1>1, <2>1, <3>1, <3>2
  <2> QED
    BY <1>2, <2>2 DEF After
<1>6. A \in SUBSET (1..Len(b)) /\ \A x \in begins, y \in A : x < y
  <2>1. A \in SUBSET (1..Len(b)) /\ \A y \in A : y > u /\ y \in Nat
    BY <1>1 DEF After
  <2>2. \A x \in begins : x <= u /\ x \in Nat
    BY <1>2
  <2> QED
    BY <1>1, <2>1, <2>2
<1> HIDE DEF A
<1>7. Matches(b, v) = Matches(b, u) \o Matching(b, begins)
  <2>1. Matching(b, A \cup begins) = Matching(b, A) \o Matching(b, begins)
    BY <1>2, <1>6, MatchingSplit
  <2> QED
    BY <1>5, <2>1 DEF Matches, A
<1>8. ASSUME pos = 0, NEW s \in LineStarts(b) PROVE s > v
  <2>1. s \in 1..Len(b) /\ v \in Nat /\ v <= u
    BY <1>1, <1>4
  <2>2. CASE s <= u
    <3>1. s \in begins
      BY <1>2, <1>8, <2>1, <2>2
    <3> QED
      BY <1>4, <2>1, <3>1
  <2>3. CASE ~(s <= u)
    BY <1>1, <2>1, <2>3
  <2> QED
    BY <2>2, <2>3
<1>9. Matching(b, begins) \in Seq(Nat)
  BY <1>2, HitsAre
<1> QED
  BY <1>4, <1>7, <1>8, <1>9 DEF begins, v

-----------------------------------------------------------------------------
(* The steps of a call.                                                    *)

\* What the parts of the invariant say of the types.
LEMMA TailTyped ==
  ASSUME TailInv
  PROVE  /\ file \in [ino : 0..MaxGens, gen : 0..MaxGens, bytes : Seq(Bytes), mtime : 0..MaxClock]
         /\ file.bytes \in Seq(Bytes) /\ Len(file.bytes) \in 0..MaxLen /\ Size = Len(file.bytes)
         /\ file.gen \in Nat /\ file.ino \in Nat /\ gens \in 0..MaxGens /\ clock \in 0..MaxClock
         /\ fd.ino \in Nat /\ fd.gen \in 0..MaxGens /\ fd.size \in 0..MaxLen /\ fd.bytes \in Seq(Bytes)
         /\ Len(fd.bytes) \in 0..MaxLen
         /\ got.gen \in 0..MaxGens /\ got.base \in 0..MaxLen
         /\ cursor \in 0..MaxLen /\ MaxLen \in Nat \ {0} /\ MaxGens \in Nat \ {0} /\ MaxClock \in Nat
<1>1. LogTypeOK /\ TailTypeOK /\ TailStateOK
  BY DEF TailInv
<1>2. /\ file \in [ino : 0..MaxGens, gen : 0..MaxGens, bytes : Seq(Bytes), mtime : 0..MaxClock]
      /\ gens \in 0..MaxGens /\ clock \in 0..MaxClock /\ Len(file.bytes) <= MaxLen
  BY <1>1 DEF LogTypeOK, Size
<1>3. file.bytes \in Seq(Bytes) /\ file.gen \in Nat /\ file.ino \in Nat
  BY <1>2, LogFileAssumption
<1>4. /\ fd.ino \in 0..MaxGens /\ fd.gen \in 0..MaxGens /\ fd.size \in 0..MaxLen /\ fd.bytes \in Seq(Bytes) /\ Len(fd.bytes) <= MaxLen
      /\ got.gen \in 0..MaxGens /\ got.base \in 0..MaxLen
  BY <1>1 DEF TailStateOK
<1>5. Len(file.bytes) \in Nat /\ Len(fd.bytes) \in Nat
  BY <1>3, <1>4, LenProperties
<1>6. cursor \in 0..MaxLen
  BY <1>1 DEF TailTypeOK
<1> QED
  BY <1>2, <1>3, <1>4, <1>5, <1>6, LogFileAssumption DEF Size

\* A step of the client that leaves the log and its own cursor alone keeps what
\* was said of them.
LEMMA SameCursor ==
  ASSUME TailInv, UNCHANGED <<file, tmode, cursor, page, got>>
  PROVE  CursorInv' /\ OffsetPagesJoin' /\ LinePagesJoin' /\ TailIsLastLines'
BY DEF TailInv, CursorInv, OffsetPagesJoin, LinePagesJoin, TailIsLastLines, Tracked, Present, Size

\* Opening the file: what is open is what the cursor counts in, and tailMatches
\* begins at its end.
LEMMA TailOpenKeeps ==
  ASSUME TailInv, TailOpen
  PROVE  TailInv'
<1>1. /\ UNCHANGED <<file, gens, clock, tmode, cursor, page, got>> /\ tstep = "idle" /\ Present
      /\ fd' = [ino |-> file.ino, gen |-> file.gen, size |-> Size, bytes |-> <<>>]
      /\ tstep' = IF tmode = "match" THEN "scanning" ELSE "open"
      /\ scan' = IF tmode = "match" THEN [NoScan EXCEPT !.pos = Size, !.upto = Size] ELSE scan
  BY DEF TailOpen, logVars
<1>2. CursorInv' /\ OffsetPagesJoin' /\ LinePagesJoin' /\ TailIsLastLines'
  BY <1>1, SameCursor
<1>3. LogTypeOK' /\ TailTypeOK'
  BY <1>1 DEF TailInv, LogTypeOK, TailTypeOK, Size
<1>4. TailStateOK'
  <2>1. file.ino \in 0..MaxGens /\ file.gen \in 0..MaxGens /\ Size \in 0..MaxLen /\ <<>> \in Seq(Bytes) /\ Len(<<>>) <= MaxLen
    BY TailTyped
  <2>2. fd' \in [ino : 0..MaxGens, gen : 0..MaxGens, size : 0..MaxLen, bytes : Seq(Bytes)] /\ fd'.bytes = <<>>
    BY <1>1, <2>1
  <2> QED
    BY <1>1, <2>1, <2>2 DEF TailInv, TailStateOK
<1>5. OpenInv'
  <2>1. file.gen <= gens /\ got.gen <= gens /\ file.gen > 0 /\ (Present <=> file.gen > 0)
    BY <1>1 DEF TailInv, OpenInv
  <2>2. fd'.gen = file.gen /\ fd'.ino = file.ino /\ fd'.size = Size /\ Size <= Size
    BY <1>1, TailTyped
  <2> QED
    BY <1>1, <2>1, <2>2 DEF OpenInv, Present, Size, Tracked
<1>6. ScanInv' /\ MatchesAreLast'
  <2> SUFFICES ASSUME tmode = "match" PROVE ScanInv' /\ MatchesAreLast'
    BY <1>1 DEF ScanInv, MatchesAreLast
  <2> DEFINE b == file.bytes
             n == Len(b)
  <2>1. scan'.pos = n /\ scan'.upto = n /\ scan'.matches = <<>> /\ scan'.truncated = FALSE /\ tstep' = "scanning"
        /\ scan' \in [pos : {n}, upto : {n}, matches : {<<>>}, truncated : {FALSE}]
    BY <1>1 DEF NoScan, Size
  <2>2. b \in Seq(Bytes) /\ n \in Nat /\ TailLines \in Nat /\ 0 \in Nat
    BY TailTyped, TailLogAssumption
  <2>3. LineStarts(b) \subseteq 1..n
    BY DEF LineStarts
  <2> HIDE DEF b, n
  <2>4. After(b, n) = {}
    BY <2>2, <2>3 DEF After
  <2>5. Len(Matches(b, n)) = 0 /\ Matches(b, n) = <<>>
    <3>1. Matching(b, {}) \in Seq(Nat) /\ Len(Matching(b, {})) = Cardinality({s \in {} : LineMatches(b, s)})
      BY <2>2, HitsAre
    <3>2. {s \in {} : LineMatches(b, s)} = {}
      OBVIOUS
    <3>3. Len(Matching(b, {})) = 0
      BY <3>1, <3>2, FS_EmptySet
    <3>4. Matching(b, {}) = <<>>
      BY <3>1, <3>3, EmptySeq
    <3> QED
      BY <2>4, <3>3, <3>4 DEF Matches
  <2>6. Newest(b, n, TailLines) = <<>>
    <3>1. TailLines >= Len(Matches(b, n))
      BY <2>2, <2>5
    <3> QED
      BY <2>2, <2>5, <3>1, NewestIs
  <2>7. Newest(b, 0, 0) = <<>>
    <3>1. 0 <= Len(Matches(b, n))
      BY <2>5
    <3>2. Newest(b, n, 0) \in Seq(Nat) /\ Len(Newest(b, n, 0)) = 0 /\ Newest(b, 0, 0) = Newest(b, n, 0)
      BY <2>2, <2>5, <3>1, NewestIs
    <3> QED
      BY <3>2, EmptySeq
  <2>8. n = 0 => \A s \in LineStarts(b) : s > n
    BY <2>2, <2>3
  <2>9. ScanInv'
    <3>1. n \in 0..n
      BY <2>2
    <3>2. scan' \in [pos : 0..n, upto : 0..n, matches : {scan'.matches}, truncated : BOOLEAN]
      BY <2>1, <3>1
    <3>3. file' = file /\ Size' = n
      BY <1>1 DEF Size, n, b
    <3> QED
      BY <2>1, <2>6, <2>8, <3>2, <3>3 DEF ScanInv, b
  <2>10. MatchesAreLast'
    <3>1. 0 \in 0..TailLines
      BY <2>2
    <3> QED
      BY <1>1, <2>1, <2>7, <3>1 DEF MatchesAreLast, b
  <2> QED
    BY <2>9, <2>10
<1> QED
  BY <1>2, <1>3, <1>4, <1>5, <1>6 DEF TailInv

\* A step of tailMatches touches nothing but the scan.
LEMMA SameClient ==
  ASSUME TailInv, UNCHANGED <<logVars, tmode, cursor, fd, page, got>>,
         tstep' = tstep \/ (tstep = "scanning" /\ tstep' = "done")
  PROVE  LogTypeOK' /\ TailTypeOK' /\ TailStateOK' /\ OpenInv' /\ CursorInv' /\ OffsetPagesJoin' /\ LinePagesJoin' /\ TailIsLastLines'
<1>1. CursorInv' /\ OffsetPagesJoin' /\ LinePagesJoin' /\ TailIsLastLines'
  BY SameCursor DEF logVars
<1>2. LogTypeOK' /\ TailTypeOK' /\ TailStateOK' /\ OpenInv'
  BY DEF TailInv, logVars, LogTypeOK, TailTypeOK, TailStateOK, OpenInv, Size, Present, Tracked
<1> QED
  BY <1>1, <1>2

\* Three numbers have a minimum.
LEMMA OfThree ==
  ASSUME NEW k \in Nat, NEW m \in Nat, NEW n \in Nat
  PROVE  Min({k, m, n}) \in Nat /\ Min({k, m, n}) <= m
<1> DEFINE T == {k, m, n}
<1>1. T \in SUBSET Nat /\ T # {} /\ m \in T
  OBVIOUS
<1> HIDE DEF T
<1>2. Min(T) \in T /\ Min(T) <= m
  BY <1>1, MinIs
<1> QED
  BY <1>1, <1>2 DEF T

\* A block of the backward scan: what it finds is next, newest first.
LEMMA ScanBlockKeeps ==
  ASSUME TailInv, ScanBlock
  PROVE  TailInv'
<1> DEFINE b == file.bytes
           read == Len(b) - scan.pos
           block == Min({Max({TailBlockSize, scan.upto - scan.pos}), scan.pos, MaxTailScan - read})
           pos == scan.pos - block
           begins == StartsIn(b, pos, scan.upto)
           found == scan.matches \o Matching(b, begins)
           all == SubSeq(found, 1, Min({TailLines, Len(found)}))
           upto == IF begins = {} THEN scan.upto ELSE Min(begins) - 1
           r == Room(b, all)
<1>1. /\ UNCHANGED <<logVars, tmode, tstep, cursor, fd, page, got>> /\ tstep = "scanning"
      /\ scan.pos > 0 /\ Len(scan.matches) < TailLines /\ ~scan.truncated
  BY DEF ScanBlock
<1>2. scan' = IF read >= MaxTailScan THEN [scan EXCEPT !.truncated = TRUE]
              ELSE [pos |-> pos, upto |-> upto, matches |-> SubSeq(all, 1, r), truncated |-> r < Len(all)]
  BY DEF ScanBlock
<1>3. LogTypeOK' /\ TailTypeOK' /\ TailStateOK' /\ OpenInv' /\ CursorInv' /\ OffsetPagesJoin' /\ LinePagesJoin' /\ TailIsLastLines'
  BY <1>1, SameClient
<1> SUFFICES ScanInv' /\ MatchesAreLast'
  BY <1>3 DEF TailInv
<1> SUFFICES ASSUME tmode = "match" PROVE ScanInv' /\ MatchesAreLast'
  BY <1>1 DEF ScanInv, MatchesAreLast
<1>4. /\ scan \in [pos : 0..Len(b), upto : 0..Len(b), matches : {scan.matches}, truncated : BOOLEAN]
      /\ scan.matches = Newest(b, scan.upto, TailLines)
      /\ \E k \in 0..TailLines : scan.matches = Newest(b, 0, k)
  BY <1>1 DEF TailInv, ScanInv, MatchesAreLast, Size
<1>5. /\ b \in Seq(Bytes) /\ Len(b) \in Nat /\ TailLines \in Nat /\ TailBlockSize \in Nat /\ MaxTailScan \in Nat
      /\ scan.pos \in 0..Len(b) /\ scan.upto \in 0..Len(b) /\ scan.pos \in Nat /\ scan.upto \in Nat
  BY <1>4, TailTyped, TailLogAssumption
<1>6. file'.bytes = b /\ Size' = Len(b) /\ tmode' = "match" /\ tstep' = "scanning"
  BY <1>1 DEF logVars, Size
<1> DEFINE M == Matches(b, scan.upto)
<1>7. M \in Seq(Nat) /\ Len(M) \in Nat /\ scan.matches = M
  <2>1. M \in Seq(Nat) /\ Len(M) \in Nat
    BY <1>5, NewestIs, LenProperties
  <2>2. TailLines <= Len(M) => Len(scan.matches) = TailLines
    BY <1>4, <1>5, NewestIs
  <2>3. TailLines >= Len(M)
    BY <1>1, <1>5, <2>1, <2>2
  <2>4. Newest(b, scan.upto, TailLines) = M
    BY <1>5, <2>3, NewestIs
  <2> QED
    BY <1>4, <2>1, <2>4
<1>8. CASE read >= MaxTailScan
  <2>1. scan' = [scan EXCEPT !.truncated = TRUE]
    BY <1>2, <1>8
  <2>2. scan'.truncated = TRUE /\ scan'.matches = scan.matches
        /\ scan' \in [pos : 0..Len(b), upto : 0..Len(b), matches : {scan'.matches}, truncated : BOOLEAN]
    BY <1>4, <2>1
  <2>3. ScanInv'
    BY <1>6, <2>2 DEF ScanInv
  <2>4. MatchesAreLast'
    BY <1>4, <1>6, <2>2 DEF MatchesAreLast
  <2> QED
    BY <2>3, <2>4
<1>9. CASE ~(read >= MaxTailScan)
  <2>1. pos \in Nat /\ pos <= scan.pos
    <3> DEFINE x == Max({TailBlockSize, scan.upto - scan.pos})
               y == MaxTailScan - read
    <3>1. x \in Nat
      <4>1. TailBlockSize \in Int /\ scan.upto - scan.pos \in Int
        BY <1>5
      <4>2. x = IF TailBlockSize >= scan.upto - scan.pos THEN TailBlockSize ELSE scan.upto - scan.pos
        BY <4>1, OfTwo
      <4> QED
        BY <1>5, <4>2
    <3>2. y \in Nat
      BY <1>5, <1>9
    <3> HIDE DEF x, y
    <3>3. Min({x, scan.pos, y}) \in Nat /\ Min({x, scan.pos, y}) <= scan.pos
      BY <1>5, <3>1, <3>2, OfThree
    <3>4. block \in Nat /\ block <= scan.pos
      BY <3>3 DEF x, y
    <3> HIDE DEF block
    <3> QED
      BY <1>5, <3>4
  <2> HIDE DEF pos
  <2>2. /\ upto \in 0..scan.upto /\ Matches(b, upto) = M \o Matching(b, begins) /\ Matching(b, begins) \in Seq(Nat)
        /\ pos = 0 => \A s \in LineStarts(b) : s > upto
    BY <1>5, <2>1, BlockIs
  <2> HIDE DEF begins
  <2>3. found = Matches(b, upto) /\ upto \in Nat /\ upto \in 0..Len(b)
    <3>1. found = M \o Matching(b, begins)
      BY <1>7
    <3> HIDE DEF upto, M, found
    <3> QED
      BY <1>5, <2>2, <3>1
  <2> HIDE DEF upto, M
  <2>4. all = Newest(b, upto, TailLines)
    <3>1. Newest(b, upto, TailLines) = SubSeq(Matches(b, upto), 1, Min({TailLines, Len(Matches(b, upto))}))
      BY DEF Newest, Matches, After
    <3> QED
      BY <2>3, <3>1
  <2> HIDE DEF found, all
  <2>5. all \in Seq(Nat) /\ Len(all) \in Nat /\ Len(all) <= TailLines /\ Len(all) <= Len(Matches(b, upto))
        /\ Matches(b, upto) \in Seq(Nat) /\ Len(Matches(b, upto)) \in Nat
    <3>1. Matches(b, upto) \in Seq(Nat) /\ all \in Seq(Nat)
      BY <1>5, <2>3, <2>4, NewestIs
    <3>2. /\ TailLines <= Len(Matches(b, upto)) => Len(all) = TailLines
          /\ TailLines >= Len(Matches(b, upto)) => Len(all) = Len(Matches(b, upto))
      BY <1>5, <2>3, <2>4, NewestIs
    <3>3. Len(all) \in Nat /\ Len(Matches(b, upto)) \in Nat
      BY <3>1, LenProperties
    <3> QED
      BY <1>5, <3>1, <3>2, <3>3
  <2>6. r \in 0..Len(all)
    BY <2>5, RoomIs
  <2> HIDE DEF r
  <2>7. SubSeq(all, 1, r) = Newest(b, 0, r)
    <3>1. r \in Nat /\ r <= Len(all) /\ r <= Len(Matches(b, upto))
      BY <2>5, <2>6
    <3>2. Newest(b, 0, r) = SubSeq(Matches(b, upto), 1, r)
      BY <1>5, <2>3, <3>1, NewestIs
    <3>3. \A i \in 1..Len(all) : all[i] = Matches(b, upto)[i]
      <4> DEFINE mm == Matches(b, upto)
                 k == Len(all)
      <4>1. all = SubSeq(mm, 1, k)
        <5>1. CASE TailLines <= Len(mm)
          <6>1. Newest(b, upto, TailLines) = SubSeq(mm, 1, TailLines) /\ Len(Newest(b, upto, TailLines)) = TailLines
            BY <1>5, <2>3, <5>1, NewestIs
          <6> QED
            BY <2>4, <6>1
        <5>2. CASE ~(TailLines <= Len(mm))
          <6>1. TailLines >= Len(mm)
            BY <1>5, <2>5, <5>2
          <6>2. all = mm
            BY <1>5, <2>3, <2>4, <6>1, NewestIs
          <6>3. SubSeq(mm, 1, Len(mm)) = mm
            BY <2>5, SubSeqFull
          <6> QED
            BY <6>2, <6>3
        <5> QED
          BY <5>1, <5>2
      <4>2. mm \in Seq(Nat) /\ k \in Nat /\ k <= Len(mm) /\ 0 \in Nat /\ 0 + 1 = 1
        BY <2>5
      <4> HIDE DEF mm, k
      <4>3. \A i \in 1..Len(SubSeq(mm, 0 + 1, k)) : SubSeq(mm, 0 + 1, k)[i] = mm[0 + i]
        BY <4>2, StretchIs
      <4>4. \A i \in 1..Len(all) : all[i] = mm[0 + i]
        BY <4>1, <4>2, <4>3
      <4>5. \A i \in 1..Len(all) : 0 + i = i
        OBVIOUS
      <4> QED
        BY <4>4, <4>5 DEF mm
    <3>4. SubSeq(all, 0 + 1, r) = SubSeq(Matches(b, upto), 0 + 1, r)
      <4>1. \A i \in 1..r : all[i] = Matches(b, upto)[i]
        BY <2>5, <3>1, <3>3
      <4>2. 0 \in Nat
        OBVIOUS
      <4> QED
        BY <2>5, <3>1, <4>1, <4>2, StretchSame
    <3>5. 0 + 1 = 1
      OBVIOUS
    <3> QED
      BY <3>2, <3>4, <3>5
  <2>8. scan' = [pos |-> pos, upto |-> upto, matches |-> SubSeq(all, 1, r), truncated |-> r < Len(all)]
    BY <1>2, <1>9
  <2>9. /\ scan'.matches = Newest(b, 0, r) /\ scan'.upto = upto /\ scan'.pos = pos
        /\ ~scan'.truncated => scan'.matches = all
        /\ scan' \in [pos : 0..Len(b), upto : 0..Len(b), matches : {scan'.matches}, truncated : BOOLEAN]
    <3>1. pos \in 0..Len(b)
      BY <1>5, <2>1
    <3>2. ~(r < Len(all)) => r = Len(all)
      BY <2>5, <2>6
    <3>3. SubSeq(all, 1, Len(all)) = all
      BY <2>5, SubSeqFull
    <3> DEFINE x == SubSeq(all, 1, r)
               t == r < Len(all)
    <3>4. t \in BOOLEAN /\ x = Newest(b, 0, r) /\ (~t => x = all) /\ scan' = [pos |-> pos, upto |-> upto, matches |-> x, truncated |-> t]
      BY <2>7, <2>8, <3>2, <3>3
    <3> HIDE DEF x, t
    <3> QED
      BY <2>3, <3>1, <3>4
  <2>10. ScanInv'
    BY <1>6, <2>2, <2>4, <2>9 DEF ScanInv
  <2>11. MatchesAreLast'
    <3>1. r \in 0..TailLines
      BY <1>5, <2>5, <2>6
    <3> QED
      BY <1>6, <2>9, <3>1 DEF MatchesAreLast
  <2> QED
    BY <2>10, <2>11
<1> QED
  BY <1>8, <1>9

\* The end of the scan: at byte 0 all lines were looked at, and with enough
\* matches the older ones do not count.
LEMMA ScanDoneKeeps ==
  ASSUME TailInv, ScanDone
  PROVE  TailInv'
<1> DEFINE b == file.bytes
<1>1. /\ UNCHANGED <<logVars, tmode, cursor, fd, page, scan, got>> /\ tstep = "scanning" /\ tstep' = "done"
      /\ scan.pos = 0 \/ Len(scan.matches) >= TailLines \/ scan.truncated
  BY DEF ScanDone
<1>2. LogTypeOK' /\ TailTypeOK' /\ TailStateOK' /\ OpenInv' /\ CursorInv' /\ OffsetPagesJoin' /\ LinePagesJoin' /\ TailIsLastLines'
  BY <1>1, SameClient
<1>3. ScanInv'
  BY <1>1 DEF TailInv, ScanInv, logVars, Size
<1>4. MatchesAreLast'
  <2> SUFFICES ASSUME tmode = "match", ~scan.truncated PROVE scan.matches = Newest(b, 0, TailLines)
    BY <1>1 DEF TailInv, MatchesAreLast, logVars
  <2>1. /\ scan.matches = Newest(b, scan.upto, TailLines) /\ scan.upto \in 0..Len(b)
        /\ scan.pos = 0 => \A s \in LineStarts(b) : s > scan.upto
    BY <1>1 DEF TailInv, ScanInv, Size
  <2>2. b \in Seq(Bytes) /\ Len(b) \in Nat /\ TailLines \in Nat
    BY TailTyped, TailLogAssumption
  <2>3. CASE scan.pos = 0
    <3>1. \A s \in LineStarts(b) : s > scan.upto /\ s > 0
      BY <2>1, <2>2, <2>3 DEF LineStarts
    <3>2. {s \in LineStarts(b) : s > scan.upto} = {s \in LineStarts(b) : s > 0}
      BY <3>1
    <3> QED
      BY <2>1, <3>2 DEF Newest
  <2>4. CASE Len(scan.matches) >= TailLines
    <3> DEFINE M == Matches(b, scan.upto)
    <3>1. scan.upto \in Nat
      BY <2>1, <2>2
    <3>2. M \in Seq(Nat) /\ (TailLines >= Len(M) => scan.matches = M)
      BY <2>1, <2>2, <3>1, NewestIs
    <3>3. Len(M) \in Nat
      BY <3>2, LenProperties
    <3>4. TailLines <= Len(M)
      BY <2>2, <2>4, <3>2, <3>3
    <3>5. /\ TailLines <= Len(Matches(b, scan.upto)) => /\ Newest(b, scan.upto, TailLines) = SubSeq(M, 1, TailLines)
                                                      /\ Newest(b, 0, TailLines) = SubSeq(M, 1, TailLines)
      BY <2>2, <3>1, NewestIs
    <3> HIDE DEF M
    <3>6. Newest(b, scan.upto, TailLines) = Newest(b, 0, TailLines)
      BY <3>4, <3>5 DEF M
    <3> QED
      BY <2>1, <3>6
  <2> QED
    BY <1>1, <2>3, <2>4
<1> QED
  BY <1>2, <1>3, <1>4 DEF TailInv

\* What a read sees, and that it is the file the cursor counts in as long as the
\* client is on track.
LEMMA BehindIs ==
  ASSUME TailInv, tstep = "open"
  PROVE  /\ Behind \in Seq(Bytes) /\ Len(Behind) \in 0..MaxLen /\ BehindGen \in 0..MaxGens /\ BehindGen <= gens
         /\ Present /\ BehindGen = file.gen => Behind = file.bytes
         /\ Tracked => BehindGen = file.gen /\ fd.size <= Size
<1>1. /\ file.gen <= gens /\ fd.gen <= gens /\ fd.gen > 0 /\ (fd.gen = file.gen => fd.ino = file.ino /\ fd.size <= Size)
      /\ Tracked => fd.gen = file.gen
  BY DEF TailInv, OpenInv
<1>2. file.gen \in 0..MaxGens
  BY TailTyped
<1>3. CASE file.ino = fd.ino
  <2>1. Behind = file.bytes /\ BehindGen = file.gen
    BY <1>3 DEF Behind, BehindGen
  <2> QED
    BY <1>1, <1>2, <2>1, TailTyped
<1>4. CASE file.ino # fd.ino
  <2>1. Behind = fd.bytes /\ BehindGen = fd.gen
    BY <1>4 DEF Behind, BehindGen
  <2>2. fd.gen # file.gen
    BY <1>1, <1>4
  <2> QED
    BY <1>1, <2>1, <2>2, TailTyped
<1> QED
  BY <1>3, <1>4

\* A read that ends closes the file: what is left to show is the page.
LEMMA ReadEnds ==
  ASSUME TailInv, UNCHANGED <<logVars, scan>>, tstep' = "idle", fd' = NoFd,
         tmode' \in {"tail", "offset", "line"}, page' \in {"none", "whole", "truncated"},
         cursor' \in 0..MaxLen, tmode' # "tail" => cursor' > 0,
         got' \in [gen : 0..MaxGens, base : 0..MaxLen, data : {got'.data}], got'.gen <= gens,
         CursorInv', OffsetPagesJoin', LinePagesJoin', TailIsLastLines'
  PROVE  TailInv'
<1>1. LogTypeOK' /\ file' = file /\ gens' = gens
  BY DEF TailInv, LogTypeOK, logVars, Size
<1>2. TailTypeOK'
  BY DEF TailTypeOK
<1>3. TailStateOK'
  <2>1. NoFd \in [ino : 0..MaxGens, gen : 0..MaxGens, size : 0..MaxLen, bytes : Seq(Bytes)] /\ Len(NoFd.bytes) <= MaxLen
    BY LogFileAssumption DEF NoFd
  <2> QED
    BY <2>1 DEF TailStateOK
<1>4. OpenInv'
  <2>1. file.gen <= gens /\ (Present <=> file.gen > 0)
    BY DEF TailInv, OpenInv
  <2>2. fd'.gen = 0 /\ 0 <= gens
    BY TailTyped DEF NoFd
  <2> QED
    BY <1>1, <2>1, <2>2 DEF OpenInv, Present
<1>5. ScanInv' /\ MatchesAreLast'
  BY DEF ScanInv, MatchesAreLast
<1> QED
  BY <1>1, <1>2, <1>3, <1>4, <1>5 DEF TailInv

\* A page that is cut is a beginning of what was read.
LEMMA CutPageIs ==
  ASSUME NEW b \in Seq(Bytes), NEW p \in CutPage(b)
  PROVE  \E e \in 0..Len(b) : p = SubSeq(b, 1, e)
<1> DEFINE i == LastNewline(b)
           r == IF i > 0 /\ i - 1 >= Len(b) \div 2 THEN SubSeq(b, 1, i) ELSE b
<1>1. Len(b) \in Nat
  BY LenProperties
<1>2. i \in 0..Len(b)
  <2> DEFINE T == Newlines(b) \cup {0}
  <2>1. T \in SUBSET (0..Len(b)) /\ T # {}
    BY <1>1 DEF Newlines
  <2>2. \E x \in T : \A y \in T : x >= y
    <3> HIDE DEF T
    <3> QED
      BY <1>1, <2>1, GreatestNat
  <2>3. Max(T) \in T
    <3> HIDE DEF T
    <3> QED
      BY <2>2, Zenon DEF Max
  <2>4. i = Max(T)
    BY DEF LastNewline
  <2> HIDE DEF T, i
  <2> QED
    BY <2>1, <2>3, <2>4
<1>3. p \in {SubSeq(r, 1, e) : e \in {k \in 1..Len(r) : Len(r) - k <= MaxTrim}} \cup (IF r = <<>> THEN {r} ELSE {})
  BY DEF CutPage
<1> HIDE DEF i
<1>4. PICK m \in 0..Len(b) : r = SubSeq(b, 1, m)
  <2>1. SubSeq(b, 1, Len(b)) = b /\ Len(b) \in 0..Len(b)
    BY <1>1, SubSeqFull
  <2> QED
    BY <1>2, <2>1
<1> HIDE DEF r
<1>5. m \in Nat /\ m <= Len(b) /\ 0 \in Nat /\ 0 + 1 = 1
  BY <1>1
<1>6. r \in Seq(Bytes) /\ Len(r) = m
  <2>1. SubSeq(b, 0 + 1, m) \in Seq(Bytes) /\ Len(SubSeq(b, 0 + 1, m)) = m - 0
    BY <1>5, StretchIs
  <2> QED
    BY <1>4, <1>5, <2>1
<1>7. CASE \E e \in 1..m : p = SubSeq(r, 1, e)
  <2>1. PICK e \in 1..m : p = SubSeq(r, 1, e)
    BY <1>7
  <2>2. e \in Nat /\ 0 <= e /\ e <= m - 0 /\ 0 + 0 = 0 /\ 0 + e = e /\ 0 <= m
    BY <1>5
  <2>3. SubSeq(SubSeq(b, 0 + 1, m), 0 + 1, e) = SubSeq(b, (0 + 0) + 1, 0 + e)
    BY <1>5, <2>2, StretchOfStretch
  <2>4. p = SubSeq(b, 1, e)
    BY <1>4, <1>5, <2>1, <2>2, <2>3
  <2> QED
    BY <1>5, <2>2, <2>4
<1>8. CASE p = r
  BY <1>4, <1>8
<1> QED
  BY <1>3, <1>6, <1>7, <1>8

\* A page of a byte-offset client goes on where its cursor is, or begins the file
\* anew; its cursor is then where the page ends.
LEMMA ReadOffsetKeeps ==
  ASSUME TailInv, ReadOffset
  PROVE  TailInv'
<1> DEFINE off == IF Shrunk THEN 0 ELSE cursor
           toRead == Min({fd.size - off, TailMaxBytes})
           end == Min({off + toRead, Len(Behind)})
           raw == SubSeq(Behind, off + 1, end)
           capped == fd.size - off > TailMaxBytes
<1>1. tstep = "open" /\ tmode = "offset" /\ UNCHANGED <<logVars, scan>> /\ tstep' = "idle" /\ fd' = NoFd /\ page' = "none"
  BY DEF ReadOffset
<1>2. PICK p \in (IF capped THEN CutPage(raw) ELSE {raw}) :
        /\ cursor' = EndOffset(off, p)
        /\ tmode' = ModeOf("offset", cursor')
        /\ got' = IF Shrunk THEN [gen |-> BehindGen, base |-> 0, data |-> p]
                  ELSE IF got.gen = BehindGen /\ got.gen # 0 THEN [got EXCEPT !.data = @ \o p]
                  ELSE Astray
  BY DEF ReadOffset
<1>3. /\ Behind \in Seq(Bytes) /\ Len(Behind) \in 0..MaxLen /\ BehindGen \in 0..MaxGens /\ BehindGen <= gens
      /\ Present /\ BehindGen = file.gen => Behind = file.bytes
  BY <1>1, BehindIs
<1>4. fd.size \in 0..MaxLen /\ cursor \in 0..MaxLen /\ MaxLen \in Nat /\ TailMaxBytes \in Nat \ {0}
  BY TailTyped, TailLogAssumption
<1>5. off \in Nat /\ off <= fd.size /\ (~Shrunk => off = cursor) /\ (Shrunk => off = 0)
  BY <1>4 DEF Shrunk
<1> HIDE DEF off
<1>6. toRead \in Nat /\ off + toRead <= fd.size
  <2>1. fd.size - off \in Int /\ TailMaxBytes \in Int
    BY <1>4, <1>5
  <2>2. toRead = IF fd.size - off <= TailMaxBytes THEN fd.size - off ELSE TailMaxBytes
    BY <2>1, OfTwo
  <2> HIDE DEF toRead
  <2> QED
    BY <1>4, <1>5, <2>2
<1> HIDE DEF toRead
<1>7. end \in Nat /\ end <= off + toRead /\ end <= Len(Behind)
  <2>1. off + toRead \in Int /\ Len(Behind) \in Int
    BY <1>3, <1>5, <1>6
  <2>2. end = IF off + toRead <= Len(Behind) THEN off + toRead ELSE Len(Behind)
    BY <2>1, OfTwo
  <2> HIDE DEF end
  <2> QED
    BY <1>3, <1>5, <1>6, <2>2
<1> HIDE DEF end
<1>8. raw \in Seq(Bytes) /\ Len(raw) = (IF off <= end THEN end - off ELSE 0) /\ Len(raw) \in Nat
  BY <1>3, <1>5, <1>7, StretchIs, LenProperties
<1>9. PICK e \in 0..Len(raw) : p = SubSeq(raw, 1, e)
  <2>1. CASE capped
    <3>1. p \in CutPage(raw)
      BY <1>2, <2>1
    <3> HIDE DEF raw
    <3> QED
      BY <1>8, <3>1, CutPageIs
  <2>2. CASE ~capped
    <3>1. p = raw
      BY <1>2, <2>2
    <3> HIDE DEF raw
    <3>2. SubSeq(raw, 1, Len(raw)) = raw /\ Len(raw) \in 0..Len(raw)
      BY <1>8, SubSeqFull
    <3> QED
      BY <3>1, <3>2
  <2> QED
    BY <2>1, <2>2
<1> HIDE DEF capped
<1>10. e \in Nat /\ e <= Len(raw) /\ off + e <= fd.size /\ (off <= Len(Behind) => off + e <= Len(Behind)) /\ (off > end => e = 0)
  <2> HIDE DEF raw
  <2> QED
    BY <1>3, <1>4, <1>5, <1>6, <1>7, <1>8
<1>11. p \in Seq(Bytes) /\ Len(p) = e
  <2> HIDE DEF raw
  <2>1. 0 \in Nat /\ 0 + 1 = 1 /\ 0 <= e
    BY <1>10
  <2>2. SubSeq(raw, 0 + 1, e) \in Seq(Bytes) /\ Len(SubSeq(raw, 0 + 1, e)) = e - 0
    BY <1>8, <1>10, <2>1, StretchIs
  <2> QED
    BY <1>9, <1>10, <2>1, <2>2
<1>12. off <= Len(Behind) => p = SubSeq(Behind, off + 1, off + e)
  <2> SUFFICES ASSUME off <= Len(Behind) PROVE p = SubSeq(Behind, off + 1, off + e)
    OBVIOUS
  <2>1. CASE off <= end
    <3>1. 0 \in Nat /\ 0 + 1 = 1 /\ 0 <= e /\ e <= end - off /\ off + 0 = off
      BY <1>5, <1>8, <1>10, <2>1
    <3>2. SubSeq(SubSeq(Behind, off + 1, end), 0 + 1, e) = SubSeq(Behind, (off + 0) + 1, off + e)
      BY <1>3, <1>5, <1>7, <1>10, <2>1, <3>1, StretchOfStretch
    <3> QED
      BY <1>9, <3>1, <3>2
  <2>2. CASE ~(off <= end)
    <3>1. e = 0 /\ off + e = off
      BY <1>5, <1>7, <1>10, <2>2
    <3>2. p = <<>>
      BY <1>11, <3>1, EmptySeq
    <3>3. off + 1 \in Int /\ off \in Int /\ off < off + 1
      BY <1>5
    <3>4. SubSeq(Behind, off + 1, off) = <<>>
      BY <3>3, SubSeqEmpty
    <3> QED
      BY <3>1, <3>2, <3>4
  <2> QED
    BY <2>1, <2>2
<1> HIDE DEF raw
<1>13. cursor' = off + e /\ cursor' \in 0..MaxLen /\ tmode' = (IF cursor' = 0 THEN "tail" ELSE "offset")
  BY <1>2, <1>4, <1>5, <1>10, <1>11 DEF EndOffset, ModeOf
<1>14. file' = file /\ (Present <=> file.gen > 0) /\ file.gen \in Nat /\ got.gen <= gens /\ gens \in Nat
  BY <1>1, TailTyped DEF logVars, TailInv, OpenInv
<1> DEFINE Ok == /\ got' \in [gen : 0..MaxGens, base : 0..MaxLen, data : {got'.data}] /\ got'.gen <= gens
                 /\ Present /\ got'.gen = file.gen =>
                      got'.base <= off + e /\ off + e <= Len(file.bytes) /\ got'.data = SubSeq(file.bytes, got'.base + 1, off + e)
<1>15. Ok
  <2>1. CASE Shrunk
    <3>1. got' = [gen |-> BehindGen, base |-> 0, data |-> p] /\ off = 0
      BY <1>2, <1>5, <2>1
    <3>2. got'.gen = BehindGen /\ got'.base = 0 /\ got'.data = p /\ got' \in [gen : 0..MaxGens, base : 0..MaxLen, data : {got'.data}]
      BY <1>3, <1>4, <3>1
    <3>3. ASSUME Present, BehindGen = file.gen
          PROVE  0 <= off + e /\ off + e <= Len(file.bytes) /\ p = SubSeq(file.bytes, 0 + 1, off + e)
      <4>1. Behind = file.bytes /\ off <= Len(Behind)
        BY <1>3, <3>1, <3>3
      <4>2. p = SubSeq(Behind, off + 1, off + e)
        BY <1>12, <4>1
      <4> QED
        BY <1>5, <1>10, <3>1, <4>1, <4>2
    <3> QED
      BY <1>3, <3>2, <3>3
  <2>2. CASE ~Shrunk /\ got.gen = BehindGen /\ got.gen # 0
    <3>1. got' = [got EXCEPT !.data = got.data \o p] /\ off = cursor
      BY <1>2, <1>5, <2>2
    <3>2. got \in [gen : 0..MaxGens, base : 0..MaxLen, data : {got.data}]
      BY DEF TailInv, TailStateOK
    <3>3. got'.gen = got.gen /\ got'.base = got.base /\ got'.data = got.data \o p
          /\ got' \in [gen : 0..MaxGens, base : 0..MaxLen, data : {got'.data}]
      BY <3>1, <3>2
    <3>4. ASSUME Present, got.gen = file.gen
          PROVE  /\ got.base <= off + e /\ off + e <= Len(file.bytes)
                 /\ got.data \o p = SubSeq(file.bytes, got.base + 1, off + e)
      <4>1. Tracked /\ Behind = file.bytes
        BY <1>3, <2>2, <3>4 DEF Tracked
      <4>2. got.base <= cursor /\ cursor <= Len(file.bytes) /\ got.data = SubSeq(file.bytes, got.base + 1, cursor)
        BY <1>1, <4>1 DEF TailInv, CursorInv, OffsetPagesJoin, Size
      <4>3. p = SubSeq(file.bytes, off + 1, off + e) /\ off + e <= Len(file.bytes)
        BY <1>10, <1>12, <3>1, <4>1, <4>2
      <4>4. got.base \in Nat /\ off + e \in Nat /\ off <= off + e /\ file.bytes \in Seq(Bytes)
        BY <1>5, <1>10, TailTyped
      <4>5. SubSeq(file.bytes, got.base + 1, off) \o SubSeq(file.bytes, off + 1, off + e) = SubSeq(file.bytes, got.base + 1, off + e)
        <5> DEFINE y == off + e
                   a == got.base
        <5>1. a \in Nat /\ y \in Nat /\ off \in Nat /\ a <= off /\ off <= y /\ y <= Len(file.bytes)
          BY <1>5, <3>1, <4>2, <4>3, <4>4
        <5> HIDE DEF y, a
        <5>2. SubSeq(file.bytes, a + 1, off) \o SubSeq(file.bytes, off + 1, y) = SubSeq(file.bytes, a + 1, y)
          BY <4>4, <5>1, StretchJoin
        <5> QED
          BY <5>2 DEF y, a
      <4>6. got.data \o p = SubSeq(file.bytes, got.base + 1, off + e)
        BY <3>1, <4>2, <4>3, <4>5
      <4>7. got.base <= off + e
        BY <1>4, <1>5, <3>1, <4>2, <4>4
      <4> QED
        BY <4>3, <4>6, <4>7
    <3> QED
      BY <1>14, <3>3, <3>4
  <2>3. CASE ~Shrunk /\ ~(got.gen = BehindGen /\ got.gen # 0)
    <3>1. got' = Astray
      BY <1>2, <2>3
    <3>2. got'.gen = 0 /\ got' \in [gen : 0..MaxGens, base : 0..MaxLen, data : {got'.data}]
      BY <3>1, LogFileAssumption DEF Astray
    <3> QED
      BY <1>14, <3>2
  <2> QED
    BY <2>1, <2>2, <2>3
<1>16. CursorInv' /\ OffsetPagesJoin' /\ LinePagesJoin' /\ TailIsLastLines'
  <2>1. tmode' \in {"tail", "offset"} /\ page' = "none"
    BY <1>1, <1>13
  <2>2. Tracked' => Present /\ got'.gen = file.gen
    BY <1>14 DEF Tracked, Present
  <2>3. CursorInv' /\ OffsetPagesJoin'
    BY <1>13, <1>14, <1>15, <2>1, <2>2 DEF CursorInv, OffsetPagesJoin, Size
  <2> QED
    BY <2>1, <2>3 DEF LinePagesJoin, TailIsLastLines
<1>17. tmode' \in {"tail", "offset", "line"} /\ (tmode' # "tail" => cursor' > 0) /\ page' \in {"none", "whole", "truncated"}
  BY <1>1, <1>13
<1> QED
  BY <1>1, <1>13, <1>15, <1>16, <1>17, ReadEnds

\* One call returns no more lines than there are after its cursor.
LEMMA FitsIs ==
  ASSUME NEW b \in Seq(Bytes), NEW c \in Nat, c < Len(Lines(b))
  PROVE  Fits(b, c) \in Nat /\ Fits(b, c) <= Len(Lines(b)) - c
<1> DEFINE nl == NewlineSeq(b)
           left == Len(nl) - c
           m == Min({left, MaxTailLines})
           T == {0} \cup {k \in 1..m : nl[c + k] - nl[c] - k <= TailMaxBytes}
<1>1. Len(nl) = Len(Lines(b)) /\ left \in Nat
  BY NewlineSeqIs, NewlinesAre, LinesAre
<1>2. Fits(b, c) = Max(T)
  BY DEF Fits
<1>3. m \in Nat /\ m <= left
  <2>1. left \in Int /\ MaxTailLines \in Int /\ MaxTailLines \in Nat
    BY <1>1, TailLogAssumption
  <2> HIDE DEF left
  <2>2. m = IF left <= MaxTailLines THEN left ELSE MaxTailLines
    BY <2>1, OfTwo
  <2> HIDE DEF m
  <2> QED
    BY <1>1, <2>1, <2>2
<1> HIDE DEF nl, m
<1>4. T \in SUBSET (0..m) /\ T # {}
  BY <1>3
<1> HIDE DEF T
<1>5. \E x \in T : \A y \in T : x >= y
  BY <1>3, <1>4, GreatestNat
<1>6. Max(T) \in T
  BY <1>5, Zenon DEF Max
<1>7. Max(T) \in 0..m
  BY <1>4, <1>6
<1> QED
  BY <1>1, <1>2, <1>3, <1>7

\* A line-cursor client gets the complete lines after its cursor, and a cursor
\* behind the last of them.
LEMMA ReadLineKeeps ==
  ASSUME TailInv, ReadLine
  PROVE  TailInv'
<1> DEFINE all == Lines(Behind)
           n == IF Len(all) > cursor THEN Fits(Behind, cursor) ELSE 0
<1>1. tstep = "open" /\ tmode = "line" /\ UNCHANGED <<logVars, page, scan>> /\ tstep' = "idle" /\ fd' = NoFd
  BY DEF ReadLine
<1>2. \/ /\ cursor' = EndLine(all, n)
         /\ tmode' = ModeOf("line", cursor')
         /\ got' = IF got.gen = BehindGen /\ got.gen # 0
                   THEN [got EXCEPT !.data = @ \o SubSeq(all, cursor + 1, cursor + n)] ELSE Astray
      \/ UNCHANGED <<cursor, tmode, got>>
  BY DEF ReadLine
<1>3. /\ Behind \in Seq(Bytes) /\ Len(Behind) \in 0..MaxLen
      /\ Present /\ BehindGen = file.gen => Behind = file.bytes
  BY <1>1, BehindIs
<1>4. all \in Seq(Seq(Bytes)) /\ Len(all) \in 0..MaxLen /\ Len(all) \in Nat
  <2>1. all \in Seq(Seq(Bytes)) /\ Len(all) \in 0..Len(Behind)
    BY <1>3, LinesAre
  <2> QED
    BY <1>3, <2>1, TailTyped
<1>5. cursor \in 0..MaxLen /\ cursor > 0 /\ MaxLen \in Nat /\ page \in {"none", "whole", "truncated"}
      /\ got \in [gen : 0..MaxGens, base : 0..MaxLen, data : {got.data}] /\ got.gen <= gens
      /\ (Present <=> file.gen > 0) /\ file.gen \in Nat /\ gens \in Nat
  BY <1>1, TailTyped DEF TailInv, TailTypeOK, TailStateOK, OpenInv
<1>6. n \in Nat /\ (Len(all) > cursor => cursor + n <= Len(all)) /\ (~(Len(all) > cursor) => n = 0)
  <2>1. CASE Len(all) > cursor
    <3>1. cursor \in Nat /\ cursor < Len(all) /\ n = Fits(Behind, cursor)
      BY <1>4, <1>5, <2>1
    <3>2. Fits(Behind, cursor) \in Nat /\ Fits(Behind, cursor) <= Len(all) - cursor
      <4>1. Behind \in Seq(Bytes) /\ cursor \in Nat /\ cursor < Len(Lines(Behind))
        BY <1>3, <3>1
      <4> HIDE DEF n
      <4>2. Fits(Behind, cursor) \in Nat /\ Fits(Behind, cursor) <= Len(Lines(Behind)) - cursor
        BY <4>1, FitsIs
      <4> QED
        BY <4>2
    <3> HIDE DEF n, all
    <3> QED
      BY <1>4, <2>1, <3>1, <3>2
  <2>2. CASE ~(Len(all) > cursor)
    BY <2>2
  <2> QED
    BY <2>1, <2>2
<1> HIDE DEF n, all
<1>7. file' = file /\ (Tracked' => Present /\ got'.gen = file.gen)
  BY <1>1 DEF logVars, Tracked, Present
<1>8. CASE UNCHANGED <<cursor, tmode, got>>
  <2>1. CursorInv' /\ OffsetPagesJoin' /\ LinePagesJoin' /\ TailIsLastLines'
    BY <1>1, <1>7, <1>8, SameCursor
  <2>2. got' \in [gen : 0..MaxGens, base : 0..MaxLen, data : {got'.data}] /\ got'.gen <= gens
    BY <1>5, <1>8
  <2>3. tmode' \in {"tail", "offset", "line"} /\ (tmode' # "tail" => cursor' > 0) /\ cursor' \in 0..MaxLen
        /\ page' \in {"none", "whole", "truncated"}
    BY <1>1, <1>5, <1>8
  <2> QED
    BY <1>1, <2>1, <2>2, <2>3, ReadEnds
<1>9. CASE /\ cursor' = EndLine(all, n)
           /\ tmode' = ModeOf("line", cursor')
           /\ got' = IF got.gen = BehindGen /\ got.gen # 0
                     THEN [got EXCEPT !.data = @ \o SubSeq(all, cursor + 1, cursor + n)] ELSE Astray
  <2>1. /\ Len(all) > cursor => cursor' = cursor + n
        /\ ~(Len(all) > cursor) => cursor' = Len(all)
    <3>1. cursor' = IF cursor + n < Len(all) THEN cursor + n ELSE Len(all)
      BY <1>9, Zenon DEF EndLine
    <3>2. cursor \in Nat /\ n \in Nat /\ Len(all) \in Nat
      BY <1>4, <1>5, <1>6
    <3> QED
      BY <1>6, <3>1, <3>2
  <2>2. cursor' \in 0..MaxLen /\ tmode' = (IF cursor' = 0 THEN "tail" ELSE "line")
    <3>1. tmode' = (IF cursor' = 0 THEN "tail" ELSE "line")
      BY <1>9, Zenon DEF ModeOf
    <3>2. cursor \in Nat /\ n \in Nat /\ Len(all) \in Nat /\ Len(all) <= MaxLen
      BY <1>4, <1>5, <1>6
    <3>3. cursor' \in 0..MaxLen
      BY <1>5, <1>6, <2>1, <3>2
    <3> QED
      BY <3>1, <3>3
  <2>3. CASE ~(got.gen = BehindGen /\ got.gen # 0)
    <3>1. got' = Astray
      BY <1>9, <2>3
    <3>2. got'.gen = 0 /\ got' \in [gen : 0..MaxGens, base : 0..MaxLen, data : {got'.data}] /\ got'.gen <= gens
      BY <1>5, <3>1, LogFileAssumption DEF Astray
    <3>3. ~Tracked'
      BY <1>5, <1>7, <3>2
    <3>4. CursorInv' /\ OffsetPagesJoin' /\ LinePagesJoin' /\ TailIsLastLines'
      BY <3>3 DEF CursorInv, OffsetPagesJoin, LinePagesJoin, TailIsLastLines
    <3>5. tmode' \in {"tail", "offset", "line"} /\ (tmode' # "tail" => cursor' > 0) /\ page' \in {"none", "whole", "truncated"}
      BY <1>1, <1>5, <2>2
    <3> QED
      BY <1>1, <2>2, <3>2, <3>4, <3>5, ReadEnds
  <2>4. CASE got.gen = BehindGen /\ got.gen # 0
    <3> DEFINE more == SubSeq(all, cursor + 1, cursor + n)
    <3>1. got' = [got EXCEPT !.data = got.data \o more]
      BY <1>9, <2>4
    <3>2. got'.gen = got.gen /\ got'.base = got.base /\ got'.data = got.data \o more
          /\ got' \in [gen : 0..MaxGens, base : 0..MaxLen, data : {got'.data}] /\ got'.gen <= gens
      <4> HIDE DEF more
      <4> QED
        BY <1>5, <3>1
    <3>3. ASSUME Tracked', tmode' = "line"
          PROVE  /\ got.base = 1 /\ (cursor' = 1 \/ cursor' <= Len(all)) /\ Behind = file.bytes
                 /\ got.data \o more = SubSeq(all, got.base + 1, cursor')
      <4>1. Present /\ got.gen = file.gen /\ Tracked /\ Behind = file.bytes
        BY <1>3, <1>7, <2>4, <3>2, <3>3 DEF Tracked
      <4>2. got.base = 1 /\ (cursor = 1 \/ cursor <= Len(all)) /\ got.data = SubSeq(all, got.base + 1, cursor)
        BY <1>1, <4>1 DEF TailInv, CursorInv, LinePagesJoin, all
      <4>3. CASE Len(all) > cursor
        <5> DEFINE y == cursor + n
        <5>1. 1 \in Nat /\ cursor \in Nat /\ y \in Nat /\ 1 <= cursor /\ cursor <= y /\ y <= Len(all) /\ cursor' = y
          BY <1>4, <1>5, <1>6, <2>1, <4>3
        <5>2. more = SubSeq(all, cursor + 1, y)
          OBVIOUS
        <5> HIDE DEF y, more, all
        <5>3. SubSeq(all, 1 + 1, cursor) \o SubSeq(all, cursor + 1, y) = SubSeq(all, 1 + 1, y)
          BY <1>4, <5>1, StretchJoin
        <5> QED
          BY <4>1, <4>2, <5>1, <5>2, <5>3
      <4>4. CASE ~(Len(all) > cursor)
        <5>1. n = 0 /\ cursor' = Len(all) /\ cursor' # 0
          BY <1>6, <2>1, <2>2, <3>3, <4>4
        <5>2. cursor <= Len(all) /\ cursor = Len(all)
          BY <1>4, <1>5, <4>2, <4>4, <5>1
        <5>3. more = <<>>
          <6>1. cursor + 1 \in Int /\ cursor + n \in Int /\ cursor + n < cursor + 1
            BY <1>5, <5>1
          <6> HIDE DEF all
          <6> QED
            BY <6>1, SubSeqEmpty
        <5>4. got.data \in Seq(Seq(Bytes))
          <6>1. 1 \in Nat /\ cursor \in Nat /\ cursor <= Len(all)
            BY <1>5, <5>2
          <6> HIDE DEF all
          <6>2. SubSeq(all, 1 + 1, cursor) \in Seq(Seq(Bytes))
            BY <1>4, <6>1, StretchIs
          <6> QED
            BY <4>2, <6>2
        <5> HIDE DEF more, all
        <5>5. got.data \o more = got.data
          BY <5>3, <5>4, ConcatEmptySeq
        <5> QED
          BY <4>1, <4>2, <5>1, <5>2, <5>5
      <4> QED
        BY <4>3, <4>4
    <3> HIDE DEF more
    <3>4. tmode' \in {"tail", "offset", "line"} /\ (tmode' # "tail" => cursor' > 0) /\ page' \in {"none", "whole", "truncated"}
          /\ tmode' # "offset"
      BY <1>1, <1>5, <2>2
    <3>5. CursorInv'
      BY <1>7, <3>2, <3>3, <3>4 DEF CursorInv, all
    <3>6. LinePagesJoin'
      BY <1>7, <3>2, <3>3 DEF LinePagesJoin, all
    <3>7. OffsetPagesJoin' /\ TailIsLastLines'
      BY <3>4 DEF OffsetPagesJoin, TailIsLastLines
    <3> QED
      BY <1>1, <2>2, <3>2, <3>4, <3>5, <3>6, <3>7, ReadEnds
  <2> QED
    BY <2>3, <2>4
<1> QED
  BY <1>2, <1>8, <1>9

\* The newlines of an end of b are those of b that are in it.
LEMMA NewlinesAfter ==
  ASSUME NEW b \in Seq(Bytes), NEW a \in 0..Len(b)
  PROVE  /\ Cardinality(Newlines(SubSeq(b, a + 1, Len(b)))) = Cardinality({i \in Newlines(b) : i > a})
         /\ Cardinality({i \in Newlines(b) : i > a}) = Cardinality(Newlines(b)) - Rank(Newlines(b), a)
         /\ Rank(Newlines(b), a) \in Nat
<1> DEFINE p == SubSeq(b, a + 1, Len(b))
           N == Newlines(b)
           R == {i \in N : i > a}
           L == {i \in N : i <= a}
           f == [i \in Newlines(p) |-> a + i]
<1>1. a \in Nat /\ Len(b) \in Nat /\ a <= Len(b) /\ N \in SUBSET (1..Len(b)) /\ IsFiniteSet(N)
  BY NewlinesAre
<1>2. p \in Seq(Bytes) /\ Len(p) = Len(b) - a /\ \A i \in 1..Len(p) : p[i] = b[a + i]
  BY <1>1, StretchIs
<1>3. Newlines(p) = {i \in 1..Len(p) : p[i] = Newline} /\ N = {i \in 1..Len(b) : b[i] = Newline}
  BY DEF Newlines
<1> HIDE DEF p
<1>4. ASSUME NEW i \in Newlines(p) PROVE i \in Nat /\ a + i \in R
  <2>1. i \in 1..Len(p) /\ p[i] = Newline
    BY <1>3
  <2>2. a + i \in 1..Len(b) /\ b[a + i] = Newline /\ a + i > a /\ i \in Nat
    BY <1>1, <1>2, <2>1
  <2> QED
    BY <1>3, <2>2
<1>5. ASSUME NEW j \in R PROVE \E i \in Newlines(p) : a + i = j
  <2>1. j \in 1..Len(b) /\ b[j] = Newline /\ j > a
    BY <1>3
  <2>2. j - a \in 1..Len(p) /\ a + (j - a) = j
    BY <1>1, <1>2, <2>1
  <2>3. j - a \in Newlines(p)
    BY <1>2, <1>3, <2>1, <2>2
  <2> QED
    BY <2>2, <2>3
<1> HIDE DEF N
<1>6. f \in Bijection(Newlines(p), R)
  <2>1. f \in [Newlines(p) -> R] /\ \A i \in Newlines(p) : f[i] = a + i
    BY <1>4
  <2>2. \A i, j \in Newlines(p) : f[i] = f[j] => i = j
    BY <1>1, <1>4, <2>1
  <2>3. \A j \in R : \E i \in Newlines(p) : f[i] = j
    BY <1>5, <2>1
  <2> HIDE DEF f, R
  <2> QED
    BY <2>1, <2>2, <2>3 DEF Bijection, Injection, Surjection, IsInjective
<1>7. IsFiniteSet(Newlines(p)) /\ ExistsBijection(Newlines(p), R)
  BY <1>2, <1>6, NewlinesAre DEF ExistsBijection
<1>8. Cardinality(R) = Cardinality(Newlines(p))
  <2> HIDE DEF R
  <2> QED
    BY <1>7, FS_Bijection
<1>9. L \cup R = N /\ L \cap R = {} /\ L \in SUBSET N /\ R \in SUBSET N
  <2>1. ASSUME NEW i \in N PROVE (i <= a \/ i > a) /\ ~(i <= a /\ i > a)
    <3>1. i \in Nat
      BY <1>1
    <3> QED
      BY <1>1, <3>1
  <2>2. \A i \in L : i \in N /\ i <= a
    OBVIOUS
  <2>3. \A i \in R : i \in N /\ i > a
    OBVIOUS
  <2>4. \A i \in N : i \in L \/ i \in R
    BY <2>1
  <2>5. \A i \in N : ~(i \in L /\ i \in R)
    BY <2>1, <2>2, <2>3
  <2> HIDE DEF L, R
  <2> QED
    BY <2>2, <2>3, <2>4, <2>5
<1> HIDE DEF L, R
<1>10. IsFiniteSet(L) /\ IsFiniteSet(R) /\ Cardinality(L) \in Nat /\ Cardinality(R) \in Nat
  <2>1. IsFiniteSet(L) /\ IsFiniteSet(R)
    BY <1>1, <1>9, FS_Subset
  <2> QED
    BY <2>1, FS_CardinalityType
<1>11. Cardinality(N) = Cardinality(L) + Cardinality(R)
  <2>1. Cardinality(L \cup R) = Cardinality(L) + Cardinality(R) - Cardinality(L \cap R)
    BY <1>10, FS_Union
  <2>2. Cardinality(L \cap R) = 0
    BY <1>9, FS_EmptySet
  <2>3. Cardinality(L \cup R) = Cardinality(N)
    BY <1>9
  <2> QED
    BY <1>10, <2>1, <2>2, <2>3
<1>12. Rank(N, a) = Cardinality(L)
  BY DEF Rank, L
<1>13. Cardinality(N) - Rank(N, a) = Cardinality(R)
  BY <1>10, <1>11, <1>12
<1> QED
  BY <1>8, <1>10, <1>12, <1>13 DEF p, N, R

\* readTailBytes reads an end of the file of at most max_bytes, and stops early
\* only with more newlines than lines are wanted.
LEMMA TailBufferIs ==
  ASSUME NEW b \in Seq(Bytes)
  PROVE  \E a \in 0..Len(b) :
           /\ TailBuffer(b) = SubSeq(b, a + 1, Len(b)) /\ Len(b) - a <= TailMaxBytes
           /\ \/ Cardinality(Newlines(TailBuffer(b))) > TailLines
              \/ a = 0 \/ Len(b) - a = TailMaxBytes
<1> DEFINE cap == Min({Len(b), TailMaxBytes})
           sizes == {Min({k * TailBlockSize, cap}) : k \in 1..MaxLen}
           more == {s \in sizes : Cardinality(Newlines(LastBytes(s, b))) > TailLines}
           enough == more \cup {cap}
           s == Min(enough)
<1>1. TailBuffer(b) = LastBytes(s, b)
  BY DEF TailBuffer
<1>2. Len(b) \in Nat /\ TailMaxBytes \in Nat /\ TailBlockSize \in Nat /\ MaxLen \in Nat
  BY TailLogAssumption, LogFileAssumption
<1>3. cap = (IF Len(b) <= TailMaxBytes THEN Len(b) ELSE TailMaxBytes)
  BY <1>2, OfTwo
<1> HIDE DEF cap
<1>4. cap \in Nat /\ cap <= Len(b) /\ cap <= TailMaxBytes /\ (cap = Len(b) \/ cap = TailMaxBytes)
  BY <1>2, <1>3
<1>5. ASSUME NEW k \in 1..MaxLen PROVE Min({k * TailBlockSize, cap}) \in 0..cap
  <2> DEFINE m == k * TailBlockSize
  <2>1. m \in Nat
    <3>1. k \in Nat
      OBVIOUS
    <3> QED
      BY <1>2, <3>1
  <2> HIDE DEF m
  <2>2. Min({m, cap}) = (IF m <= cap THEN m ELSE cap)
    BY <1>4, <2>1, OfTwo
  <2>3. Min({m, cap}) \in 0..cap
    BY <1>4, <2>1, <2>2
  <2> QED
    BY <2>3 DEF m
<1>6. sizes \in SUBSET (0..cap)
  BY <1>5
<1> HIDE DEF sizes
<1>7. enough \in SUBSET Nat /\ enough # {} /\ enough \in SUBSET (0..cap)
  <2>1. more \in SUBSET (0..cap)
    BY <1>6
  <2> HIDE DEF more
  <2> QED
    BY <1>4, <2>1
<1>8. s \in enough
  <2> HIDE DEF enough
  <2> QED
    BY <1>7, MinIs
<1>9. s \in 0..cap
  BY <1>7, <1>8
<1>10. s \in more \/ s = cap
  BY <1>8
<1>11. Cardinality(Newlines(LastBytes(s, b))) > TailLines \/ s = cap
  BY <1>10
<1> HIDE DEF s, enough, more
<1> DEFINE a == Len(b) - s
<1>12. a \in 0..Len(b) /\ Len(b) - a = s /\ s <= TailMaxBytes /\ (s = cap => a = 0 \/ Len(b) - a = TailMaxBytes)
  BY <1>2, <1>4, <1>9
<1>13. LastBytes(s, b) = SubSeq(b, a + 1, Len(b))
  BY DEF LastBytes
<1> HIDE DEF a
<1> QED
  BY <1>1, <1>11, <1>12, <1>13

\* Tail mode's buffer is full and is not the whole file; and what it answers.
Capped(b) == Len(TailBuffer(b)) < Len(b) /\ Len(TailBuffer(b)) >= TailMaxBytes
TailAnswer(b) == FromLineStart(TailBuffer(b), NewlineSeq(TailBuffer(b)), Capped(b))

\* Page p begins after byte base of b, at a line or within the last one.
PageFrom(b, base, p) ==
  /\ p = SubSeq(b, base + 1, Len(b)) /\ Len(p) = Len(b) - base /\ Len(p) <= TailMaxBytes
  /\ Cardinality(Newlines(p)) <= TailLines
  /\ base = 0 \/ b[base] = Newline \/ Cardinality(Newlines(p)) = 0
  /\ ~Capped(b) => (base = 0 \/ b[base] = Newline) /\ (Cardinality(Newlines(p)) = TailLines \/ base = 0)

\* The answer of tail mode: the end of the file from the start of a line, with
\* as many lines as were asked for unless it is capped.
LEMMA TailPageIs ==
  ASSUME NEW b \in Seq(Bytes)
  PROVE  \E base \in 0..Len(b) : PageFrom(b, base, TailAnswer(b))
<1>0. PICK buf : buf = TailBuffer(b)
  OBVIOUS
<1> DEFINE p == TailAnswer(b)
           capped == Capped(b)
           nl == NewlineSeq(buf)
           N == Newlines(buf)
           st == CASE Len(nl) > TailLines -> nl[Len(nl) - TailLines]
                   [] Len(nl) \in 1..TailLines /\ capped -> nl[1]
                   [] OTHER -> 0
<1>1. PICK a \in 0..Len(b) :
        /\ buf = SubSeq(b, a + 1, Len(b)) /\ Len(b) - a <= TailMaxBytes
        /\ Cardinality(N) > TailLines \/ a = 0 \/ Len(b) - a = TailMaxBytes
  BY <1>0, TailBufferIs
<1>2. a \in Nat /\ Len(b) \in Nat /\ a <= Len(b) /\ TailLines \in Nat \ {0} /\ TailMaxBytes \in Nat
  BY TailLogAssumption
<1>3. buf \in Seq(Bytes) /\ Len(buf) = Len(b) - a /\ Len(buf) \in Nat /\ \A i \in 1..Len(buf) : buf[i] = b[a + i]
  <2>1. /\ SubSeq(b, a + 1, Len(b)) \in Seq(Bytes)
        /\ Len(SubSeq(b, a + 1, Len(b))) = IF a <= Len(b) THEN Len(b) - a ELSE 0
        /\ \A i \in 1..Len(SubSeq(b, a + 1, Len(b))) : SubSeq(b, a + 1, Len(b))[i] = b[a + i]
    BY <1>2, StretchIs
  <2>2. /\ buf \in Seq(Bytes) /\ Len(buf) = IF a <= Len(b) THEN Len(b) - a ELSE 0
        /\ \A i \in 1..Len(buf) : buf[i] = b[a + i]
    BY <1>1, <2>1, Zenon
  <2>3. Len(buf) = Len(b) - a /\ Len(buf) \in Nat
    BY <1>2, <2>2
  <2> QED
    BY <2>2, <2>3
<1>4. /\ Len(nl) = Cardinality(N) /\ Len(nl) \in Nat
      /\ \A i \in 1..Len(nl) : nl[i] \in 1..Len(buf) /\ nl[i] \in N /\ Rank(N, nl[i]) = i
  BY <1>3, NewlineSeqIs, NewlinesAre
<1>5. p = SubSeq(buf, 1 + st, Len(buf))
  BY <1>0, Zenon DEF FromLineStart, TailAnswer
<1> HIDE DEF nl, p
<1>6. \/ Len(nl) > TailLines /\ st = nl[Len(nl) - TailLines]
      \/ Len(nl) >= 1 /\ Len(nl) <= TailLines /\ capped /\ st = nl[1]
      \/ Len(nl) <= TailLines /\ st = 0 /\ (capped => Len(nl) = 0)
  <2> HIDE DEF capped
  <2> QED
    BY <1>2, <1>4
<1> HIDE DEF st
<1>7. /\ st \in 0..Len(buf) /\ (st # 0 => st \in N)
      /\ \/ Len(nl) > TailLines /\ st # 0 /\ Rank(N, st) = Len(nl) - TailLines
         \/ Len(nl) >= 1 /\ Len(nl) <= TailLines /\ capped /\ st # 0 /\ Rank(N, st) = 1
         \/ Len(nl) <= TailLines /\ st = 0 /\ (capped => Len(nl) = 0)
  <2>1. CASE Len(nl) > TailLines /\ st = nl[Len(nl) - TailLines]
    <3>1. Len(nl) - TailLines \in 1..Len(nl)
      BY <1>2, <1>4, <2>1
    <3>2. st \in 1..Len(buf) /\ st \in N /\ Rank(N, st) = Len(nl) - TailLines
      BY <1>4, <2>1, <3>1
    <3> QED
      BY <1>3, <2>1, <3>2
  <2>2. CASE Len(nl) >= 1 /\ Len(nl) <= TailLines /\ capped /\ st = nl[1]
    <3>1. 1 \in 1..Len(nl)
      BY <1>4, <2>2
    <3>2. st \in 1..Len(buf) /\ st \in N /\ Rank(N, st) = 1
      BY <1>4, <2>2, <3>1
    <3> QED
      BY <1>3, <2>2, <3>2
  <2>3. CASE Len(nl) <= TailLines /\ st = 0 /\ (capped => Len(nl) = 0)
    BY <1>3, <2>3
  <2> QED
    BY <1>6, <2>1, <2>2, <2>3
<1>8. p = SubSeq(buf, st + 1, Len(buf)) /\ st \in Nat /\ st <= Len(buf)
  <2>1. st \in Nat /\ st <= Len(buf) /\ 1 + st = st + 1
    BY <1>3, <1>7
  <2> QED
    BY <1>5, <2>1
<1>9. /\ p \in Seq(Bytes) /\ Len(p) = Len(buf) - st
      /\ Cardinality(Newlines(p)) = Cardinality(N) - Rank(N, st) /\ Rank(N, st) \in Nat
  <2>1. SubSeq(buf, st + 1, Len(buf)) \in Seq(Bytes) /\ Len(SubSeq(buf, st + 1, Len(buf))) = Len(buf) - st
    <3> DEFINE e == Len(buf)
    <3>1. e \in Nat /\ e <= Len(buf) /\ st \in Nat /\ st <= e
      BY <1>3, <1>8
    <3> HIDE DEF e
    <3>2. /\ SubSeq(buf, st + 1, e) \in Seq(Bytes)
          /\ Len(SubSeq(buf, st + 1, e)) = IF st <= e THEN e - st ELSE 0
      BY <1>3, <3>1, StretchIs
    <3>3. SubSeq(buf, st + 1, e) \in Seq(Bytes) /\ Len(SubSeq(buf, st + 1, e)) = e - st
      BY <3>1, <3>2
    <3> QED
      BY <3>3 DEF e
  <2>2. /\ Cardinality(Newlines(SubSeq(buf, st + 1, Len(buf)))) = Cardinality(N) - Rank(N, st)
        /\ Rank(N, st) \in Nat
    BY <1>3, <1>7, NewlinesAfter
  <2> QED
    BY <1>8, <2>1, <2>2
<1>10. Cardinality(N) \in Nat /\ Cardinality(Newlines(p)) \in Nat
  BY <1>3, <1>9, NewlinesAre
<1> DEFINE base == a + st
<1>11. base \in 0..Len(b) /\ Len(p) = Len(b) - base /\ Len(p) <= TailMaxBytes
  BY <1>1, <1>2, <1>3, <1>8, <1>9
<1>12. p = SubSeq(b, base + 1, Len(b))
  <2> DEFINE len == Len(b)
             k == Len(buf)
  <2>1. len \in Nat /\ a <= len /\ len <= Len(b) /\ k \in Nat /\ st <= k /\ k <= len - a /\ a + k = len
    BY <1>2, <1>3, <1>8
  <2>2. buf = SubSeq(b, a + 1, len) /\ p = SubSeq(buf, st + 1, k)
    BY <1>1, <1>8
  <2> HIDE DEF len, k
  <2>3. SubSeq(SubSeq(b, a + 1, len), st + 1, k) = SubSeq(b, (a + st) + 1, a + k)
    BY <1>2, <1>8, <2>1, StretchOfStretch
  <2>4. p = SubSeq(b, (a + st) + 1, len)
    BY <2>1, <2>2, <2>3
  <2> QED
    BY <2>4 DEF len
<1>13. st # 0 => b[base] = Newline
  <2>1. ASSUME st # 0 PROVE b[base] = Newline
    <3>1. st \in N
      BY <1>7, <2>1
    <3>2. st \in 1..Len(buf) /\ buf[st] = Newline
      BY <3>1 DEF Newlines
    <3> QED
      BY <1>3, <3>2
  <2> QED
    BY <2>1
<1>14. /\ Cardinality(Newlines(p)) <= TailLines
       /\ st # 0 \/ base = 0 \/ Cardinality(Newlines(p)) = 0
       /\ ~capped => (st # 0 \/ base = 0) /\ (Cardinality(Newlines(p)) = TailLines \/ base = 0)
  <2>1. CASE Len(nl) > TailLines /\ st # 0 /\ Rank(N, st) = Len(nl) - TailLines
    <3>1. Cardinality(Newlines(p)) = TailLines
      BY <1>2, <1>4, <1>9, <1>10, <2>1
    <3> QED
      BY <1>2, <2>1, <3>1
  <2>2. CASE Len(nl) >= 1 /\ Len(nl) <= TailLines /\ capped /\ st # 0 /\ Rank(N, st) = 1
    BY <1>2, <1>4, <1>9, <1>10, <2>2
  <2>3. CASE Len(nl) <= TailLines /\ st = 0 /\ (capped => Len(nl) = 0)
    <3>1. Cardinality(Newlines(p)) <= Len(nl) /\ base = a
      BY <1>2, <1>4, <1>9, <1>10, <2>3
    <3>2. ~capped => a = 0
      <4>1. ~capped => ~(Len(buf) < Len(b) /\ Len(buf) >= TailMaxBytes)
        BY <1>0 DEF Capped
      <4> HIDE DEF capped
      <4> QED
        BY <1>1, <1>2, <1>3, <1>4, <2>3, <4>1
    <3> QED
      BY <1>2, <1>4, <1>10, <2>3, <3>1, <3>2
  <2> QED
    BY <1>7, <2>1, <2>2, <2>3
<1> HIDE DEF base, capped
<1>15. PageFrom(b, base, p)
  BY <1>11, <1>12, <1>13, <1>14 DEF PageFrom, capped
<1> QED
  BY <1>11, <1>15 DEF p

\* Tail mode answers with the end of what is behind the open file, and the
\* cursor where it ends.
LEMMA ReadTailKeeps ==
  ASSUME TailInv, ReadTail
  PROVE  TailInv'
<1>1. tstep = "open" /\ tmode = "tail" /\ UNCHANGED <<logVars, scan>> /\ tstep' = "idle" /\ fd' = NoFd
      /\ cursor' = fd.size /\ tmode' = ModeOf("offset", cursor')
  BY DEF ReadTail
<1>2. PICK end : end = Min({fd.size, Len(Behind)})
  OBVIOUS
<1>3. PICK size : size = fd.size
  OBVIOUS
<1>4. PICK b : b = SubSeq(Behind, 1, end)
  OBVIOUS
<1>6. Capped(b) \in BOOLEAN
  BY DEF Capped
<1>7. PICK p : p = TailAnswer(b)
  OBVIOUS
<1>8. /\ Len(b) < size => page' = "none" /\ got' = Astray
      /\ ~(Len(b) < size) => /\ page' = IF Capped(b) THEN "truncated" ELSE "whole"
                             /\ got' = [gen |-> BehindGen, base |-> size - Len(p), data |-> p]
  <2>1. \E c \in {SubSeq(Behind, 1, Min({fd.size, Len(Behind)}))} : \E f \in {TailBuffer(c)} :
          LET cp == Len(f) < Len(c) /\ Len(f) >= TailMaxBytes
              q == FromLineStart(f, NewlineSeq(f), cp)
          IN  IF Len(c) < fd.size THEN page' = "none" /\ got' = Astray
              ELSE /\ page' = IF cp THEN "truncated" ELSE "whole"
                   /\ got' = [gen |-> BehindGen, base |-> fd.size - Len(q), data |-> q]
    BY DEF ReadTail
  <2>2. IF Len(b) < fd.size THEN page' = "none" /\ got' = Astray
        ELSE /\ page' = IF Capped(b) THEN "truncated" ELSE "whole"
             /\ got' = [gen |-> BehindGen, base |-> fd.size - Len(TailAnswer(b)), data |-> TailAnswer(b)]
    BY <1>2, <1>4, <2>1, Zenon DEF Capped, TailAnswer
  <2> QED
    BY <1>3, <1>7, <2>2, Zenon
<1>9. /\ Behind \in Seq(Bytes) /\ Len(Behind) \in 0..MaxLen /\ BehindGen \in 0..MaxGens /\ BehindGen <= gens
      /\ Present /\ BehindGen = file.gen => Behind = file.bytes
  BY <1>1, BehindIs
<1>10. size \in 0..MaxLen /\ MaxLen \in Nat /\ size \in Nat /\ Len(Behind) \in Nat
       /\ (Present <=> file.gen > 0) /\ file.gen \in Nat /\ gens \in Nat /\ MaxGens \in Nat
  BY <1>3, <1>9, TailTyped DEF TailInv, OpenInv
<1>11. end \in Nat /\ end <= Len(Behind) /\ end <= size /\ (end < size => end = Len(Behind))
  <2>1. end = IF size <= Len(Behind) THEN size ELSE Len(Behind)
    BY <1>2, <1>3, <1>10, OfTwo
  <2> QED
    BY <1>10, <2>1
<1>12. b \in Seq(Bytes) /\ Len(b) = end /\ \A i \in 1..end : b[i] = Behind[i]
  <2>1. /\ SubSeq(Behind, 0 + 1, end) \in Seq(Bytes)
        /\ Len(SubSeq(Behind, 0 + 1, end)) = IF 0 <= end THEN end - 0 ELSE 0
        /\ \A i \in 1..Len(SubSeq(Behind, 0 + 1, end)) : SubSeq(Behind, 0 + 1, end)[i] = Behind[0 + i]
    BY <1>9, <1>11, StretchIs
  <2>2. 0 + 1 = 1 /\ (\A i \in 1..end : 0 + i = i) /\ (IF 0 <= end THEN end - 0 ELSE 0) = end
    BY <1>11
  <2> QED
    BY <1>4, <2>1, <2>2
<1>13. cursor' = size /\ size \in 0..MaxLen /\ tmode' = (IF size = 0 THEN "tail" ELSE "offset")
  BY <1>1, <1>3, <1>10 DEF ModeOf
<1>14. tmode' \in {"tail", "offset", "line"} /\ tmode' # "line" /\ (tmode' # "tail" => cursor' > 0)
  BY <1>10, <1>13
<1>15. file' = file /\ (Tracked' => Present /\ got'.gen = file.gen)
  BY <1>1 DEF logVars, Tracked, Present
<1>16. CASE Len(b) < size
  <2>1. page' = "none" /\ got' = Astray
    BY <1>8, <1>16
  <2>2. got'.gen = 0 /\ got' \in [gen : 0..MaxGens, base : 0..MaxLen, data : {got'.data}] /\ got'.gen <= gens
    BY <1>10, <2>1 DEF Astray
  <2>3. ~Tracked'
    BY <1>10, <1>15, <2>2
  <2>4. CursorInv' /\ OffsetPagesJoin' /\ LinePagesJoin' /\ TailIsLastLines'
    BY <2>3 DEF CursorInv, OffsetPagesJoin, LinePagesJoin, TailIsLastLines
  <2> QED
    BY <1>1, <1>13, <1>14, <2>1, <2>2, <2>4, ReadEnds
<1>17. CASE ~(Len(b) < size)
  <2>1. page' = (IF Capped(b) THEN "truncated" ELSE "whole") /\ got' = [gen |-> BehindGen, base |-> size - Len(p), data |-> p]
    BY <1>8, <1>17
  <2>2. end = size /\ Len(b) = size
    BY <1>10, <1>11, <1>12, <1>17
  <2>3. PICK base \in 0..Len(b) : PageFrom(b, base, p)
    <3>1. b \in Seq(Bytes)
      BY <1>12
    <3> QED
      BY <1>7, <3>1, TailPageIs, Zenon
  <2>4. base \in Nat /\ base <= size /\ size - Len(p) = base /\ base \in 0..MaxLen
    <3>1. Len(p) = Len(b) - base
      BY <2>3 DEF PageFrom
    <3>2. base \in Nat /\ base <= size
      BY <1>10, <2>2
    <3> QED
      BY <1>10, <2>2, <3>1, <3>2
  <2>5. got'.gen = BehindGen /\ got'.base = base /\ got'.data = p
        /\ got' \in [gen : 0..MaxGens, base : 0..MaxLen, data : {got'.data}] /\ got'.gen <= gens
    <3>1. got' = [gen |-> BehindGen, base |-> base, data |-> p]
      BY <2>1, <2>4
    <3> QED
      BY <1>9, <2>4, <3>1
  <2>6. page' \in {"none", "whole", "truncated"} /\ (page' = "whole" => ~Capped(b))
    BY <2>1
  <2>7. ASSUME Tracked' PROVE Behind = file.bytes /\ size <= Len(file.bytes) /\ p = SubSeq(file.bytes, base + 1, size)
    <3>1. Behind = file.bytes
      BY <1>9, <1>15, <2>5, <2>7
    <3>2. SubSeq(SubSeq(Behind, 0 + 1, size), base + 1, size) = SubSeq(Behind, (0 + base) + 1, 0 + size)
      <4>1. 0 \in Nat /\ 0 <= size /\ size <= Len(Behind) /\ size <= size - 0 /\ base <= size
        BY <1>10, <1>11, <2>2, <2>4
      <4> QED
        BY <1>9, <1>10, <2>4, <4>1, StretchOfStretch
    <3>3. 0 + 1 = 1 /\ (0 + base) + 1 = base + 1 /\ 0 + size = size
      BY <1>10, <2>4
    <3>4. p = SubSeq(Behind, base + 1, size)
      <4>1. p = SubSeq(b, base + 1, size) /\ b = SubSeq(Behind, 1, size)
        BY <1>4, <2>2, <2>3 DEF PageFrom
      <4> QED
        BY <3>2, <3>3, <4>1
    <3> QED
      BY <1>11, <2>2, <3>1, <3>4
  <2>8. CursorInv'
    BY <1>13, <1>14, <1>15, <2>4, <2>5, <2>7 DEF CursorInv, Size
  <2>9. OffsetPagesJoin' /\ LinePagesJoin'
    BY <1>13, <1>14, <1>15, <2>5, <2>7 DEF OffsetPagesJoin, LinePagesJoin
  <2>10. TailIsLastLines'
    <3>1. Tracked' => base = 0 \/ file.bytes[base] = b[base]
      <4>1. base = 0 \/ base \in 1..end
        BY <2>2, <2>4, <1>11
      <4> QED
        BY <1>12, <2>7, <4>1
    <3>2. ASSUME Tracked' PROVE
            /\ page' = "whole" => (base = 0 \/ file.bytes[base] = Newline) /\ (Cardinality(Newlines(p)) = TailLines \/ base = 0)
            /\ Cardinality(Newlines(p)) <= TailLines /\ Len(p) <= TailMaxBytes
            /\ (base = 0 \/ file.bytes[base] = Newline) \/ Cardinality(Newlines(p)) = 0
      <4>1. /\ Cardinality(Newlines(p)) <= TailLines /\ Len(p) <= TailMaxBytes
            /\ base = 0 \/ b[base] = Newline \/ Cardinality(Newlines(p)) = 0
            /\ ~Capped(b) => (base = 0 \/ b[base] = Newline) /\ (Cardinality(Newlines(p)) = TailLines \/ base = 0)
        BY <2>3 DEF PageFrom
      <4> QED
        BY <2>6, <3>1, <3>2, <4>1
    <3>3. Newlines(got'.data) = Newlines(p)
      BY <2>5
    <3> QED
      BY <1>15, <2>5, <3>2, <3>3 DEF TailIsLastLines
  <2> QED
    BY <1>1, <1>13, <1>14, <2>5, <2>6, <2>8, <2>9, <2>10, ReadEnds
<1> QED
  BY <1>16, <1>17

-----------------------------------------------------------------------------
(* What the writers do to a client.                                        *)

\* A writer gives the path a file of a new generation, takes the file away, or
\* adds byte c to it.
Fresh == gens' = gens + 1 /\ file'.ino > 0 /\ file'.gen = gens' /\ file'.bytes = <<>>
Removed == file'.ino = 0 /\ file'.gen = 0 /\ gens' = gens
Extended(c) == /\ Present /\ gens' = gens /\ file'.ino = file.ino /\ file'.gen = file.gen
               /\ file'.bytes = Append(file.bytes, c)

\* The mtime of a write is a time of the clock.
LEMMA MtimeOf ==
  ASSUME clock \in 0..MaxClock
  PROVE  Mtime \in 0..MaxClock
<1>1. clock \in Nat /\ MaxClock \in Nat /\ clock <= MaxClock
  BY LogFileAssumption
<1>2. Mtime \in 0..clock
  BY <1>1, MtimeIs DEF Mtime
<1> QED
  BY <1>1, <1>2

\* Every step of the writers is one of the three, and leaves a file there can be.
LEMMA WritersStep ==
  ASSUME TailInv, NEW B \in SUBSET Bytes, LogStep(B)
  PROVE  LogTypeOK' /\ (Fresh \/ Removed \/ \E c \in Bytes : Extended(c))
<1>1. /\ file \in [ino : 0..MaxGens, gen : 0..MaxGens, bytes : Seq(Bytes), mtime : 0..MaxClock]
      /\ file.bytes \in Seq(Bytes) /\ Len(file.bytes) \in 0..MaxLen /\ gens \in 0..MaxGens /\ clock \in 0..MaxClock
      /\ MaxLen \in Nat /\ MaxGens \in Nat /\ MaxClock \in Nat /\ file.ino \in Nat /\ Size = Len(file.bytes)
  BY TailTyped
<1>2. Mtime \in 0..MaxClock
  BY <1>1, MtimeOf
<1>3. CASE CreateFile
  <2>1. gens < MaxGens /\ gens' = gens + 1 /\ clock' = clock
        /\ file' = [ino |-> gens + 1, gen |-> gens + 1, bytes |-> <<>>, mtime |-> Mtime]
    BY <1>3 DEF CreateFile
  <2>2. file' \in [ino : 0..MaxGens, gen : 0..MaxGens, bytes : Seq(Bytes), mtime : 0..MaxClock] /\ Len(file'.bytes) = 0
    BY <1>1, <1>2, <2>1
  <2>3. Fresh
    BY <1>1, <2>1 DEF Fresh
  <2> QED
    BY <1>1, <2>1, <2>2, <2>3 DEF LogTypeOK, Size
<1>4. CASE TruncateFile
  <2>1. Present /\ gens < MaxGens /\ gens' = gens + 1 /\ clock' = clock
        /\ file' = [file EXCEPT !.gen = gens + 1, !.bytes = <<>>, !.mtime = Mtime]
    BY <1>4 DEF TruncateFile
  <2>2. /\ file' \in [ino : 0..MaxGens, gen : 0..MaxGens, bytes : Seq(Bytes), mtime : 0..MaxClock]
        /\ file'.bytes = <<>> /\ file'.gen = gens + 1 /\ file'.ino = file.ino /\ Len(file'.bytes) = 0
    <3> DEFINE g == gens + 1
               none == <<>>
    <3>1. g \in 0..MaxGens /\ none \in Seq(Bytes) /\ Len(none) = 0
      BY <1>1, <2>1
    <3>2. file' = [file EXCEPT !.gen = g, !.bytes = none, !.mtime = Mtime]
      BY <2>1
    <3> HIDE DEF g, none
    <3>3. /\ file' \in [ino : 0..MaxGens, gen : 0..MaxGens, bytes : Seq(Bytes), mtime : 0..MaxClock]
          /\ file'.bytes = none /\ file'.gen = g /\ file'.ino = file.ino
      BY <1>1, <1>2, <3>1, <3>2
    <3> QED
      BY <3>1, <3>3 DEF g, none
  <2>3. Fresh
    BY <1>1, <2>1, <2>2 DEF Fresh, Present
  <2> QED
    BY <1>1, <2>1, <2>2, <2>3 DEF LogTypeOK, Size
<1>5. CASE RemoveFile
  <2>1. gens' = gens /\ clock' = clock /\ file' = [ino |-> 0, gen |-> 0, bytes |-> <<>>, mtime |-> 0]
    BY <1>5 DEF RemoveFile
  <2>2. file' \in [ino : 0..MaxGens, gen : 0..MaxGens, bytes : Seq(Bytes), mtime : 0..MaxClock] /\ Len(file'.bytes) = 0
    BY <1>1, <2>1
  <2> QED
    BY <1>1, <2>1, <2>2 DEF LogTypeOK, Size, Removed
<1>6. ASSUME NEW c \in B, AppendByte(c) PROVE LogTypeOK' /\ Extended(c)
  <2> DEFINE d == Append(file.bytes, c)
  <2>1. Present /\ Size < MaxLen /\ gens' = gens /\ clock' = clock /\ file' = [file EXCEPT !.bytes = d, !.mtime = Mtime]
    BY <1>6 DEF AppendByte
  <2>2. c \in Bytes
    OBVIOUS
  <2>3. d \in Seq(Bytes) /\ Len(d) = Len(file.bytes) + 1
    BY <1>1, <2>2, AppendProperties
  <2> HIDE DEF d
  <2>4. /\ file' \in [ino : 0..MaxGens, gen : 0..MaxGens, bytes : Seq(Bytes), mtime : 0..MaxClock]
        /\ file'.bytes = d /\ file'.gen = file.gen /\ file'.ino = file.ino
    BY <1>1, <1>2, <2>1, <2>3
  <2>5. Len(d) <= MaxLen
    BY <1>1, <2>1, <2>3
  <2> QED
    BY <1>1, <2>1, <2>4, <2>5 DEF LogTypeOK, Size, Extended, d
<1>7. ASSUME NEW c \in B, AppendByte(c) PROVE LogTypeOK' /\ \E e \in Bytes : Extended(e)
  <2>1. c \in Bytes
    OBVIOUS
  <2> QED
    BY <1>6, <1>7, <2>1
<1>8. CreateFile \/ TruncateFile \/ RemoveFile \/ \E c \in B : AppendByte(c)
  BY DEF LogStep
<1> QED
  BY <1>3, <1>4, <1>5, <1>7, <1>8

\* What is left to show of a step of the writers.
LEMMA WritersLeave ==
  ASSUME TailInv, TailEnv, LogTypeOK',
         fd' \in [ino : 0..MaxGens, gen : 0..MaxGens, size : 0..MaxLen, bytes : Seq(Bytes)], Len(fd'.bytes) <= MaxLen,
         got' \in [gen : 0..MaxGens, base : 0..MaxLen, data : {got'.data}],
         OpenInv', CursorInv', OffsetPagesJoin', LinePagesJoin', TailIsLastLines'
  PROVE  TailInv'
<1>1. UNCHANGED <<tmode, tstep, cursor, page, scan>> /\ (tmode = "match" => tstep = "idle")
  BY DEF TailEnv
<1>2. TailTypeOK'
  BY <1>1 DEF TailInv, TailTypeOK
<1>3. TailStateOK'
  BY DEF TailStateOK
<1>4. ScanInv' /\ MatchesAreLast'
  BY <1>1 DEF ScanInv, MatchesAreLast
<1> QED
  BY <1>2, <1>3, <1>4 DEF TailInv

\* Nothing is promised to a client whose cursor counts in another file.
LEMMA UntrackedHolds ==
  ASSUME ~Tracked'
  PROVE  CursorInv' /\ OffsetPagesJoin' /\ LinePagesJoin' /\ TailIsLastLines'
BY DEF CursorInv, OffsetPagesJoin, LinePagesJoin, TailIsLastLines

\* A file that grows by a byte keeps what the client was given.
LEMMA ExtendedKeeps ==
  ASSUME TailInv, NEW c \in Bytes, Extended(c), UNCHANGED <<tmode, cursor, page, got>>, Tracked
  PROVE  CursorInv' /\ OffsetPagesJoin' /\ LinePagesJoin' /\ TailIsLastLines'
<1>1. PICK b : b = file.bytes
  OBVIOUS
<1>2. PICK d : d = Append(b, c)
  OBVIOUS
<1>3. /\ b \in Seq(Bytes) /\ Len(b) \in Nat /\ got.base \in Nat /\ cursor \in Nat
  BY <1>1, TailTyped
<1>4. d \in Seq(Bytes) /\ Len(d) = Len(b) + 1 /\ (\A i \in 1..Len(b) : d[i] = b[i]) /\ file'.bytes = d
  BY <1>1, <1>2, <1>3, AppendProperties DEF Extended
<1>5. /\ Lines(b) \in Seq(Seq(Bytes)) /\ Lines(d) \in Seq(Seq(Bytes)) /\ Len(Lines(b)) \in Nat /\ Len(Lines(d)) \in Nat
      /\ Len(Lines(b)) <= Len(Lines(d)) /\ \A i \in 1..Len(Lines(b)) : Lines(d)[i] = Lines(b)[i]
  <2>1. Lines(b) \in Seq(Seq(Bytes)) /\ Len(Lines(b)) \in Nat
    BY <1>3, LinesAre
  <2>2. Lines(d) \in Seq(Seq(Bytes)) /\ Len(Lines(d)) \in Nat
    BY <1>3, <1>4, LinesAre
  <2> QED
    BY <1>2, <1>3, <2>1, <2>2, LinesGrow
<1>6. /\ tmode = "offset" => got.base <= cursor /\ cursor <= Len(b)
      /\ tmode = "line" => got.base = 1 /\ (cursor = 1 \/ cursor <= Len(Lines(b)))
  BY <1>1 DEF TailInv, CursorInv, Size
<1>7. CursorInv'
  BY <1>3, <1>4, <1>5, <1>6 DEF CursorInv, Size
<1>8. OffsetPagesJoin'
  <2>1. ASSUME tmode = "offset" PROVE got.data = SubSeq(d, got.base + 1, cursor)
    <3>1. got.data = SubSeq(b, got.base + 1, cursor)
      BY <1>1, <2>1 DEF TailInv, OffsetPagesJoin
    <3>2. cursor <= Len(b) /\ cursor <= Len(d) /\ \A i \in 1..cursor : b[i] = d[i]
      BY <1>3, <1>4, <1>6, <2>1
    <3>3. SubSeq(b, got.base + 1, cursor) = SubSeq(d, got.base + 1, cursor)
      <4>1. PICK base \in Nat : base = got.base
        BY <1>3
      <4>2. PICK e \in Nat : e = cursor
        BY <1>3
      <4>3. SubSeq(b, base + 1, e) = SubSeq(d, base + 1, e)
        <5>1. e <= Len(b) /\ e <= Len(d) /\ \A i \in 1..e : b[i] = d[i]
          BY <3>2, <4>2
        <5>2. b \in Seq(Bytes) /\ d \in Seq(Bytes)
          BY <1>3, <1>4
        <5> QED
          BY <5>1, <5>2, StretchSame
      <4> QED
        BY <4>1, <4>2, <4>3
    <3> QED
      BY <3>1, <3>3
  <2> QED
    BY <1>4, <2>1 DEF OffsetPagesJoin
<1>9. LinePagesJoin'
  <2>1. ASSUME tmode = "line" PROVE got.data = SubSeq(Lines(d), got.base + 1, cursor)
    <3>1. got.data = SubSeq(Lines(b), got.base + 1, cursor) /\ got.base = 1
      BY <1>1, <1>6, <2>1 DEF TailInv, LinePagesJoin
    <3>2. CASE cursor <= Len(Lines(b))
      <4>1. cursor <= Len(Lines(d)) /\ \A i \in 1..cursor : Lines(b)[i] = Lines(d)[i]
        BY <1>3, <1>5, <3>2
      <4>2. SubSeq(Lines(b), got.base + 1, cursor) = SubSeq(Lines(d), got.base + 1, cursor)
        <5>1. PICK base \in Nat : base = got.base
          BY <1>3
        <5>2. PICK e \in Nat : e = cursor
          BY <1>3
        <5>3. PICK t : t = Lines(b)
          OBVIOUS
        <5>4. PICK u : u = Lines(d)
          OBVIOUS
        <5>5. t \in Seq(Seq(Bytes)) /\ u \in Seq(Seq(Bytes)) /\ e <= Len(t) /\ e <= Len(u) /\ \A i \in 1..e : t[i] = u[i]
          BY <1>5, <3>2, <4>1, <5>2, <5>3, <5>4
        <5>6. SubSeq(t, base + 1, e) = SubSeq(u, base + 1, e)
          BY <5>5, StretchSame
        <5> QED
          BY <5>1, <5>2, <5>3, <5>4, <5>6
      <4> QED
        BY <3>1, <4>2
    <3>3. CASE cursor = 1
      <4>1. got.base + 1 \in Int /\ cursor \in Int /\ cursor < got.base + 1
        BY <3>1, <3>3
      <4>2. SubSeq(Lines(b), got.base + 1, cursor) = <<>> /\ SubSeq(Lines(d), got.base + 1, cursor) = <<>>
        BY <4>1, SubSeqEmpty
      <4> QED
        BY <3>1, <4>2
    <3> QED
      BY <1>6, <2>1, <3>2, <3>3
  <2> QED
    BY <1>4, <2>1 DEF LinePagesJoin
<1>10. TailIsLastLines'
  <2>1. ASSUME tmode = "offset" PROVE got.base = 0 \/ d[got.base] = b[got.base]
    <3>1. got.base = 0 \/ got.base \in 1..Len(b)
      BY <1>3, <1>6, <2>1
    <3> QED
      BY <1>4, <3>1
  <2> QED
    BY <1>1, <1>4, <2>1 DEF TailInv, TailIsLastLines
<1> QED
  BY <1>7, <1>8, <1>9, <1>10

\* Whatever the writers do, a client that is still on track has what it was given
\* in the file, and one that is not is known to be astray.
LEMMA TailEnvKeeps ==
  ASSUME TailInv, TailEnv
  PROVE  TailInv'
<1>1. /\ UNCHANGED <<tmode, tstep, cursor, page, scan>>
      /\ got' = IF got.gen # file'.gen THEN Astray ELSE got
      /\ fd' = IF fd.ino # 0 /\ fd.ino = file.ino /\ file'.ino = 0 THEN [fd EXCEPT !.bytes = file.bytes] ELSE fd
  BY DEF TailEnv
<1>2. LogTypeOK' /\ (Fresh \/ Removed \/ \E c \in Bytes : Extended(c))
  <2>1. {"x", Newline} \in SUBSET Bytes /\ Bytes \in SUBSET Bytes
    BY DEF Bytes
  <2>2. LogStep(Bytes) \/ LogStep({"x", Newline})
    BY DEF TailEnv
  <2> QED
    BY <2>1, <2>2, WritersStep
<1>3. /\ fd \in [ino : 0..MaxGens, gen : 0..MaxGens, size : 0..MaxLen, bytes : Seq(Bytes)] /\ Len(fd.bytes) <= MaxLen
      /\ got \in [gen : 0..MaxGens, base : 0..MaxLen, data : {got.data}]
      /\ file.bytes \in Seq(Bytes) /\ Len(file.bytes) \in 0..MaxLen /\ Size = Len(file.bytes) /\ MaxLen \in Nat /\ MaxGens \in Nat
      /\ file.gen \in Nat /\ file.ino \in Nat /\ gens \in Nat /\ fd.gen \in Nat /\ got.gen \in Nat /\ fd.size \in Nat /\ fd.ino \in Nat
  BY TailTyped DEF TailInv, TailStateOK
<1>4. /\ file.gen <= gens /\ fd.gen <= gens /\ got.gen <= gens /\ (Present <=> file.gen > 0)
      /\ tstep = "open" => fd.gen > 0 /\ (fd.gen = file.gen => fd.ino = file.ino /\ fd.size <= Size)
      /\ tstep = "open" /\ Tracked => fd.gen = file.gen
  BY DEF TailInv, OpenInv
<1>5. /\ fd' \in [ino : 0..MaxGens, gen : 0..MaxGens, size : 0..MaxLen, bytes : Seq(Bytes)] /\ Len(fd'.bytes) <= MaxLen
      /\ fd'.gen = fd.gen /\ fd'.ino = fd.ino /\ fd'.size = fd.size
  <2>1. CASE fd' = fd
    BY <1>3, <2>1
  <2>2. CASE fd' = [fd EXCEPT !.bytes = file.bytes]
    <3>1. PICK b : b = file.bytes
      OBVIOUS
    <3>2. b \in Seq(Bytes) /\ Len(b) <= MaxLen /\ fd' = [fd EXCEPT !.bytes = b]
      BY <1>3, <2>2, <3>1
    <3> QED
      BY <1>3, <3>2
  <2> QED
    BY <1>1, <2>1, <2>2
<1>6. Astray \in [gen : 0..MaxGens, base : 0..MaxLen, data : {Astray.data}] /\ Astray.gen = 0
  BY <1>3 DEF Astray
<1>7. got' \in [gen : 0..MaxGens, base : 0..MaxLen, data : {got'.data}] /\ got'.gen <= gens
  BY <1>1, <1>3, <1>4, <1>6
<1>8. CASE Fresh
  <2>1. gens' = gens + 1 /\ file'.gen = gens + 1 /\ file'.ino > 0
    BY <1>8 DEF Fresh
  <2>2. got' = Astray
    <3>1. got.gen # file'.gen
      BY <1>3, <1>4, <2>1
    <3> QED
      BY <1>1, <3>1
  <2>3. ~Tracked'
    BY <1>3, <1>6, <2>1, <2>2 DEF Tracked
  <2>4. file'.ino # 0
    BY <2>1
  <2>5. OpenInv'
    BY <1>1, <1>3, <1>4, <1>5, <1>6, <2>1, <2>2, <2>3, <2>4 DEF OpenInv, Present
  <2> QED
    BY <1>2, <1>5, <1>7, <2>3, <2>5, UntrackedHolds, WritersLeave
<1>9. CASE Removed
  <2>1. gens' = gens /\ file'.gen = 0 /\ file'.ino = 0
    BY <1>9 DEF Removed
  <2>2. ~Tracked'
    BY <2>1 DEF Tracked, Present
  <2>3. OpenInv'
    BY <1>1, <1>3, <1>4, <1>5, <1>7, <2>1, <2>2 DEF OpenInv, Present
  <2> QED
    BY <1>2, <1>5, <1>7, <2>2, <2>3, UntrackedHolds, WritersLeave
<1>10. ASSUME NEW c \in Bytes, Extended(c) PROVE TailInv'
  <2>1. Present /\ gens' = gens /\ file'.gen = file.gen /\ file'.ino = file.ino /\ file'.bytes = Append(file.bytes, c)
    BY <1>10 DEF Extended
  <2>2. Size' = Size + 1 /\ Size \in Nat
    BY <1>3, <2>1, AppendProperties DEF Size
  <2>3. Present' /\ (Tracked' => Tracked /\ got' = got)
    BY <1>1, <1>3, <1>4, <1>6, <2>1 DEF Present, Tracked
  <2>4. OpenInv'
    <3>1. file'.gen <= gens' /\ fd'.gen <= gens' /\ got'.gen <= gens' /\ (Present' <=> file'.gen > 0)
      BY <1>4, <1>5, <1>7, <2>1, <2>3
    <3>2. tstep' = "open" => fd'.gen > 0 /\ (fd'.gen = file'.gen => fd'.ino = file'.ino /\ fd'.size <= Size')
      BY <1>1, <1>3, <1>4, <1>5, <2>1, <2>2
    <3>3. tstep' = "open" /\ Tracked' => fd'.gen = file'.gen
      BY <1>1, <1>4, <1>5, <2>1, <2>3
    <3> QED
      BY <3>1, <3>2, <3>3 DEF OpenInv
  <2>5. CursorInv' /\ OffsetPagesJoin' /\ LinePagesJoin' /\ TailIsLastLines'
    <3>1. CASE ~Tracked'
      BY <3>1, UntrackedHolds
    <3>2. CASE Tracked'
      BY <1>1, <1>10, <2>3, <3>2, ExtendedKeeps
    <3> QED
      BY <3>1, <3>2
  <2> QED
    BY <1>2, <1>5, <1>7, <2>4, <2>5, WritersLeave
<1> QED
  BY <1>2, <1>8, <1>9, <1>10

\* A client starts on the log it finds, with nothing given yet.
LEMMA TailStartsRight ==
  ASSUME NEW contents, \A b \in contents : b \in Seq(Bytes) /\ Len(b) <= MaxLen,
         LogStarts(contents), NEW m \in {"tail", "line", "match"}, TailStarts(m)
  PROVE  TailInv
<1>1. PICK b \in contents, i \in 0..1 :
        file = [ino |-> i, gen |-> i, bytes |-> IF i = 0 THEN <<>> ELSE b, mtime |-> 0]
  BY DEF LogStarts
<1>2. clock = 0 /\ gens = file.ino
  BY DEF LogStarts
<1> DEFINE d == IF i = 0 THEN <<>> ELSE b
<1>3. d \in Seq(Bytes) /\ Len(d) \in 0..MaxLen
  <2>1. b \in Seq(Bytes) /\ Len(b) <= MaxLen /\ Len(b) \in Nat
    BY LenProperties
  <2> QED
    BY <2>1, LogFileAssumption
<1> HIDE DEF d
<1>4. file.ino = i /\ file.gen = i /\ file.bytes = d /\ file.mtime = 0 /\ i \in 0..MaxGens /\ i \in Nat
  BY <1>1, LogFileAssumption DEF d
<1>5. file \in [ino : 0..MaxGens, gen : 0..MaxGens, bytes : Seq(Bytes), mtime : 0..MaxClock]
  BY <1>1, <1>3, <1>4, LogFileAssumption DEF d
<1>6. LogTypeOK
  BY <1>2, <1>3, <1>4, <1>5, LogFileAssumption DEF LogTypeOK, Size
<1>7. /\ tmode = m /\ tstep = "idle" /\ fd = NoFd /\ cursor = (IF m = "line" THEN 1 ELSE 0) /\ page = "none"
      /\ got.gen = i /\ got.base = cursor /\ got.data = <<>>
      /\ got = [gen |-> i, base |-> cursor, data |-> <<>>]
  BY <1>4 DEF TailStarts
<1>8. cursor \in 0..MaxLen /\ cursor \in Nat /\ (m = "line" => cursor = 1)
  BY <1>7, LogFileAssumption
<1>9. TailTypeOK
  BY <1>7, <1>8 DEF TailTypeOK
<1>10. TailStateOK
  <2>1. NoFd \in [ino : 0..MaxGens, gen : 0..MaxGens, size : 0..MaxLen, bytes : Seq(Bytes)] /\ Len(NoFd.bytes) <= MaxLen
    BY LogFileAssumption DEF NoFd
  <2>2. got \in [gen : 0..MaxGens, base : 0..MaxLen, data : {got.data}]
    BY <1>4, <1>7, <1>8
  <2> QED
    BY <1>7, <2>1, <2>2 DEF TailStateOK
<1>11. OpenInv
  <2>1. fd.gen = 0
    BY <1>7 DEF NoFd
  <2> QED
    BY <1>2, <1>4, <1>7, <2>1 DEF OpenInv, Present
<1>12. CursorInv /\ ScanInv /\ OffsetPagesJoin /\ TailIsLastLines /\ MatchesAreLast
  BY <1>7, <1>8 DEF CursorInv, ScanInv, OffsetPagesJoin, TailIsLastLines, MatchesAreLast
<1>13. LinePagesJoin
  <2>1. ASSUME m = "line" PROVE SubSeq(Lines(d), 1 + 1, 1) = <<>>
    BY SubSeqEmpty
  <2> QED
    BY <1>4, <1>7, <1>8, <2>1 DEF LinePagesJoin
<1> QED
  BY <1>6, <1>9, <1>10, <1>11, <1>12, <1>13 DEF TailInv

-----------------------------------------------------------------------------
(* The theorems about remote_tail_log.                                     *)

\* The invariant of remote_tail_log: the cursor lies in the file that it counts
\* in, with all that was given before it; the call of a client that is on track
\* has that file open; and the matches of a scan are the newest of the lines it
\* has passed.
THEOREM TailInductive ==
  ASSUME NEW contents, \A b \in contents : b \in Seq(Bytes) /\ Len(b) <= MaxLen
  PROVE  TailSpec(contents) => []TailInv
<1>1. LogStarts(contents) /\ (\E m \in {"tail", "line", "match"} : TailStarts(m)) => TailInv
  BY TailStartsRight
<1>2. ASSUME TailInv, [TailNext]_<<logVars, tailVars>> PROVE TailInv'
  <2> USE <1>2
  <2>1. CASE TailOpen
    BY <2>1, TailOpenKeeps
  <2>2. CASE ReadOffset
    BY <2>2, ReadOffsetKeeps
  <2>3. CASE ReadLine
    BY <2>3, ReadLineKeeps
  <2>4. CASE ReadTail
    BY <2>4, ReadTailKeeps
  <2>5. CASE ScanBlock
    BY <2>5, ScanBlockKeeps
  <2>6. CASE ScanDone
    BY <2>6, ScanDoneKeeps
  <2>7. CASE TailEnv
    BY <2>7, TailEnvKeeps
  <2>8. CASE UNCHANGED <<logVars, tailVars>>
    <3>1. LogTypeOK' /\ TailTypeOK' /\ TailStateOK' /\ OpenInv' /\ CursorInv' /\ OffsetPagesJoin' /\ LinePagesJoin' /\ TailIsLastLines'
      BY <2>8, SameClient DEF tailVars
    <3>2. ScanInv' /\ MatchesAreLast'
      BY <2>8 DEF TailInv, ScanInv, MatchesAreLast, logVars, tailVars, Size
    <3> QED
      BY <3>1, <3>2 DEF TailInv
  <2> QED
    BY <2>1, <2>2, <2>3, <2>4, <2>5, <2>6, <2>7, <2>8 DEF TailNext, TailCall, TailPoll
<1> QED
  BY <1>1, <1>2, PTL DEF TailSpec

\* Whichever way a client of remote_tail_log reads on, for every file, every size
\* of page, block, line count and scan, and every rotation and truncation between
\* two steps of a call: pages join, lines come whole and once, tail mode answers
\* with the last lines, and a filter finds the newest matches (TailLog,
\* tailReadOnce, collectLinesAfter, readTailBytes, tailMatches).
THEOREM TailExact ==
  ASSUME NEW contents, \A b \in contents : b \in Seq(Bytes) /\ Len(b) <= MaxLen
  PROVE  TailSpec(contents) => []TailAnswersHold
<1>1. TailInv => TailAnswersHold
  BY DEF TailInv, TailAnswersHold
<1>2. TailSpec(contents) => []TailInv
  BY TailInductive
<1> QED
  BY <1>1, <1>2, PTL
=============================================================================
