----------------------------- MODULE JobsProofs -----------------------------
(***************************************************************************)
(* Background jobs for any number of jobs, any timeouts and any limits.    *)
(*                                                                         *)
(* ExitedIsOwnExit is not inductive: when Record reads the flags, nothing  *)
(* in it says that a signal which ended the shell has left one. Flagged    *)
(* says so for every moment, and Progress ties the process to the state    *)
(* and to the map.                                                         *)
(***************************************************************************)
EXTENDS Jobs, Counting

\* A signal ends the shell only together with the name of its sender, and
\* touches the processes of its own job alone.
LEMMA SignalEffect ==
  ASSUME TypeOK, NEW j \in Jobs, NEW by \in {"timer", "kill"}, NEW c \in BOOLEAN,
         SignalProcessGroup(j, by, c)
  PROVE  /\ leader' \in [Jobs -> {"none", "alive", "zombie", "reaped"}]
         /\ endedBy' \in [Jobs -> {"none", "itself", "timer", "kill"}]
         /\ kin' \subseteq Jobs
         /\ \A i \in Jobs \ {j} : leader'[i] = leader[i] /\ endedBy'[i] = endedBy[i]
         /\ \/ leader'[j] = leader[j] /\ endedBy'[j] = endedBy[j]
            \/ leader[j] = "alive" /\ leader'[j] = "zombie" /\ endedBy'[j] = by
BY DEF SignalProcessGroup, TypeOK

\* Process, state, flags, map and logs stay in step: no call, timer, signal or
\* sweep breaks IInv.
THEOREM JobsInductive == Spec => []IInv
<1>1. Init => IInv
  BY DEF Init, IInv, TypeOK, ExitedIsOwnExit, LogsFollowJobs, Progress, Flagged, Ended
<1>2. IInv /\ [Next]_vars => IInv'
  <2> SUFFICES ASSUME IInv, [Next]_vars PROVE IInv'
    OBVIOUS
  <2> USE DEF IInv, TypeOK, ExitedIsOwnExit, LogsFollowJobs, Progress, Flagged,
              Ended, TimedOut, procVars, metaVars, regVars
  <2>1. ASSUME NEW j \in Jobs, Forks(j) PROVE IInv'
    BY <2>1 DEF Forks
  <2>2. ASSUME NEW j \in Jobs, LeaderExits(j) PROVE IInv'
    BY <2>2 DEF LeaderExits
  <2>3. ASSUME NEW j \in Jobs, KinExit(j) PROVE IInv'
    BY <2>3 DEF KinExit
  <2>4. ASSUME NEW j \in Jobs, SpawnStep(j) PROVE IInv'
    <3>1. CASE SpawnRefused(j)
      BY <3>1 DEF SpawnRefused
    <3>2. CASE SpawnLog(j)
      BY <3>2 DEF SpawnLog
    <3>3. CASE SpawnStartFails(j)
      BY <3>3 DEF SpawnStartFails
    <3>4. CASE SpawnStart(j)
      BY <3>4 DEF SpawnStart
    <3>5. CASE SpawnRegister(j)
      BY <3>5 DEF SpawnRegister
    <3> QED
      BY <2>4, <3>1, <3>2, <3>3, <3>4, <3>5 DEF SpawnStep
  <2>5. ASSUME NEW j \in Jobs, TimerStep(j) PROVE IInv'
    <3>1. CASE TimerFires(j)
      BY <3>1 DEF TimerFires
    <3>2. CASE TimerFlags(j)
      BY <3>2 DEF TimerFlags
    <3>3. CASE TimerKills(j)
      <4>1. SignalProcessGroup(j, "timer", FALSE)
        BY <3>3 DEF TimerKills
      <4>2. /\ leader' \in [Jobs -> {"none", "alive", "zombie", "reaped"}]
            /\ endedBy' \in [Jobs -> {"none", "itself", "timer", "kill"}]
            /\ kin' \subseteq Jobs
            /\ \A i \in Jobs \ {j} : leader'[i] = leader[i] /\ endedBy'[i] = endedBy[i]
            /\ \/ leader'[j] = leader[j] /\ endedBy'[j] = endedBy[j]
               \/ leader[j] = "alive" /\ leader'[j] = "zombie" /\ endedBy'[j] = "timer"
        BY <4>1, SignalEffect
      <4>3. TypeOK'
        BY <3>3, <4>2 DEF TimerKills
      <4>4. ASSUME NEW i \in Jobs PROVE Progress(i)' /\ Flagged(i)'
        <5>1. CASE i = j
          BY <3>3, <4>2, <5>1 DEF TimerKills
        <5>2. CASE i # j
          BY <3>3, <4>2, <5>2 DEF TimerKills
        <5> QED
          BY <5>1, <5>2
      <4>5. ExitedIsOwnExit' /\ LogsFollowJobs'
        BY <3>3, <4>2 DEF TimerKills
      <4> QED
        BY <4>3, <4>4, <4>5
    <3> QED
      BY <2>5, <3>1, <3>2, <3>3 DEF TimerStep
  <2>6. ASSUME NEW j \in Jobs, WatchStep(j) PROVE IInv'
    <3>1. CASE Reap(j)
      BY <3>1 DEF Reap
    <3>2. CASE StopTimer(j)
      BY <3>2 DEF StopTimer
    <3>3. CASE Record(j)
      BY <3>3 DEF Record, FinalState
    <3> QED
      BY <2>6, <3>1, <3>2, <3>3 DEF WatchStep
  <2>7. ASSUME NEW j \in Jobs, KillStep(j) PROVE IInv'
    <3>1. CASE KillLookup(j)
      BY <3>1 DEF KillLookup
    <3>2. CASE KillCheck(j)
      BY <3>2 DEF KillCheck
    <3>3. CASE KillFlag(j)
      BY <3>3 DEF KillFlag
    <3>4. CASE KillSignal(j)
      BY <3>4, SignalEffect DEF KillSignal
    <3> QED
      BY <2>7, <3>1, <3>2, <3>3, <3>4 DEF KillStep
  <2>8. ASSUME Sweep PROVE IInv'
    <3>1. Swept \subseteq {j \in jobs : state[j] # "running"}
      BY DEF Swept, Finished
    <3> QED
      BY <2>8, <3>1 DEF Sweep
  <2>9. ASSUME Tick PROVE IInv'
    BY <2>9 DEF Tick
  <2>10. ASSUME UNCHANGED vars PROVE IInv'
    BY <2>10 DEF vars
  <2> QED
    BY <2>1, <2>2, <2>3, <2>4, <2>5, <2>6, <2>7, <2>8, <2>9, <2>10 DEF Next
<1> QED
  BY <1>1, <1>2, PTL DEF Spec

\* No job whose shell was ended by Kill or by the timer is called exited.
THEOREM OwnExit == Spec => []ExitedIsOwnExit
BY JobsInductive, PTL DEF IInv

\* Whatever is swept, a living job of a returned Spawn can be killed by its id.
THEOREM Killable == Spec => []AliveIsKillable
<1>1. IInv => AliveIsKillable
  BY DEF IInv, AliveIsKillable, Progress
<1> QED
  BY <1>1, JobsInductive, PTL

\* The map is finite at every moment: Spawn adds one job at a time.
LEMMA MapFinite == Spec => []IsFiniteSet(jobs)
<1>1. Init => IsFiniteSet(jobs)
  BY FS_EmptySet DEF Init
<1>2. IsFiniteSet(jobs) /\ [Next]_vars => IsFiniteSet(jobs)'
  <2> SUFFICES ASSUME IsFiniteSet(jobs), [Next]_vars PROVE IsFiniteSet(jobs')
    OBVIOUS
  <2>1. CASE jobs' = jobs
    BY <2>1
  <2>2. ASSUME NEW j \in Jobs, SpawnRegister(j) PROVE IsFiniteSet(jobs')
    BY <2>2, FS_AddElement DEF SpawnRegister
  <2>3. ASSUME Sweep PROVE IsFiniteSet(jobs')
    BY <2>3, FS_Subset DEF Sweep
  <2> QED
    BY <2>1, <2>2, <2>3 DEF Next, vars, regVars, Forks, LeaderExits, KinExit, SpawnStep,
      SpawnRefused, SpawnLog, SpawnStartFails, SpawnStart, TimerStep, TimerFires, TimerFlags,
      TimerKills, WatchStep, Reap, StopTimer, Record, KillStep, KillLookup, KillCheck,
      KillFlag, KillSignal, Tick
<1> QED
  BY <1>1, <1>2, PTL DEF Spec

\* A job is forgotten only after it ended, for its age or for MaxFinishedJobs
\* ended jobs that started after it; a living one never.
THEOREM Retained == Spec => KeptForCause
<1> DEFINE ForCause(j) ==
      /\ Ended(j)
      /\ \/ now - endedAt[j] > JobRetention
         \/ \E S \in SUBSET (jobs \ {j}) :
              /\ Cardinality(S) = MaxFinishedJobs
              /\ \A k \in S : Ended(k) /\ startedAt[k] > startedAt[j]
<1>1. IInv /\ IsFiniteSet(jobs) /\ [Next]_vars => [\A j \in jobs \ jobs' : ForCause(j)]_vars
  <2> SUFFICES ASSUME IInv, IsFiniteSet(jobs), Next, NEW j \in jobs \ jobs' PROVE ForCause(j)
    BY DEF vars
  <2>1. Sweep
    BY DEF Next, regVars, Forks, LeaderExits, KinExit, SpawnStep, SpawnRefused, SpawnLog,
      SpawnStartFails, SpawnStart, SpawnRegister, TimerStep, TimerFires, TimerFlags, TimerKills,
      WatchStep, Reap, StopTimer, Record, KillStep, KillLookup, KillCheck, KillFlag, KillSignal, Tick
  <2>2. j \in Swept
    BY <2>1 DEF Sweep
  <2>3. \A k \in Finished : k \in jobs /\ Ended(k)
    BY DEF Finished, IInv, TypeOK, Progress, Ended
  <2>4. CASE Cardinality(Newer(j)) >= MaxFinishedJobs
    <3>1. IsFiniteSet(Newer(j))
      BY FS_Subset DEF Newer, Finished
    <3>2. PICK S \in SUBSET Newer(j) : Cardinality(S) = MaxFinishedJobs
      BY <2>4, <3>1, SubsetOfSize, JobsAssumption
    <3>3. \A k \in S : k \in Finished /\ startedAt[k] > startedAt[j]
      BY DEF Newer
    <3>4. S \in SUBSET (jobs \ {j})
      BY <2>3, <3>3 DEF IInv, TypeOK
    <3> QED
      BY <2>2, <2>3, <3>2, <3>3, <3>4 DEF Swept
  <2> QED
    BY <2>2, <2>3, <2>4 DEF Swept
<1> QED
  BY <1>1, MapFinite, JobsInductive, Killable, PTL DEF Spec, KeptForCause, ForgottenForCause

\* The logs on disk are those of the jobs in the map, of spawns under way, and
\* of spawns that failed.
THEOREM LogsFollow == Spec => []LogsFollowJobs
BY JobsInductive, PTL DEF IInv
=============================================================================
