-------------------------------- MODULE Jobs --------------------------------
(***************************************************************************)
(* Background jobs (jobs.go): Spawn starts a detached process with a log   *)
(* file, a goroutine that waits for it and, if asked for, a timer that     *)
(* kills it; remote_job_kill signals it; a sweep forgets finished jobs and *)
(* removes their logs.                                                     *)
(*                                                                         *)
(* One step is one critical section (job.mu, jm.mu), one system call, or   *)
(* one move of a process. A job stands for one call of remote_spawn, with  *)
(* at most one remote_job_kill of it under way. The exit code, which only  *)
(* repeats how the process ended, is left out.                             *)
(***************************************************************************)
EXTENDS Integers, FiniteSets

CONSTANTS
  Jobs,             \* the jobs
  Timed,            \* those spawned with timeout_seconds > 0
  MaxFinishedJobs,  \* finished jobs that a sweep keeps
  JobRetention,     \* how long a sweep keeps a finished job
  MaxTime           \* bound: the clock stops here

ASSUME JobsAssumption ==
  /\ Timed \subseteq Jobs
  /\ MaxFinishedJobs \in Nat /\ JobRetention \in Nat /\ MaxTime \in Nat

VARIABLES
  now,        \* the clock, in the unit of JobRetention
  spawns,     \* number of starts so far; orders StartedAt
  spawn,      \* where the call of Spawn stands
  leader,     \* the shell: "none", "alive", "zombie", "reaped"
  kin,        \* jobs with descendants of the shell in its process group
  endedBy,    \* what ended the shell: "none", "itself", "timer", "kill"
  startedAt,  \* Job.StartedAt: position in the order of starts
  state,      \* Job.state; "none" before there is a Job
  endedAt,    \* Job.endedAt
  killed,     \* jobs with Job.killed
  timer,      \* the timer and its function
  watch,      \* the goroutine of Spawn: "none", "waiting", "reaped", "stopped", "ended"
  kill,       \* a remote_job_kill call: "idle", "found", "live", "flagged"
  jobs,       \* JobManager.jobs
  logs        \* jobs with a log file in JobDir

procVars == <<leader, kin, endedBy>>
metaVars == <<state, endedAt, startedAt, spawns>>
regVars == <<jobs, logs>>
vars == <<now, spawn, procVars, metaVars, killed, timer, watch, kill, regVars>>

TypeOK ==
  /\ now \in Nat /\ spawns \in Nat
  /\ spawn \in [Jobs -> {"idle", "logged", "started", "done", "failed"}]
  /\ leader \in [Jobs -> {"none", "alive", "zombie", "reaped"}]
  /\ endedBy \in [Jobs -> {"none", "itself", "timer", "kill"}]
  /\ startedAt \in [Jobs -> Nat] /\ endedAt \in [Jobs -> Nat]
  /\ state \in [Jobs -> {"none", "running", "exited", "killed", "timed_out"}]
  /\ timer \in [Jobs -> {"none", "armed", "firing", "flagged", "spent", "stopped"}]
  /\ watch \in [Jobs -> {"none", "waiting", "reaped", "stopped", "ended"}]
  /\ kill \in [Jobs -> {"idle", "found", "live", "flagged"}]
  /\ kin \subseteq Jobs /\ killed \subseteq Jobs /\ jobs \subseteq Jobs
  /\ logs \subseteq Jobs

Init ==
  /\ now = 0 /\ spawns = 0
  /\ spawn = [j \in Jobs |-> "idle"]
  /\ leader = [j \in Jobs |-> "none"] /\ endedBy = [j \in Jobs |-> "none"]
  /\ startedAt = [j \in Jobs |-> 0] /\ endedAt = [j \in Jobs |-> 0]
  /\ state = [j \in Jobs |-> "none"]
  /\ timer = [j \in Jobs |-> "none"] /\ watch = [j \in Jobs |-> "none"]
  /\ kill = [j \in Jobs |-> "idle"]
  /\ kin = {} /\ killed = {} /\ jobs = {} /\ logs = {}

-----------------------------------------------------------------------------
(* Processes.                                                              *)

Forks(j) ==
  /\ leader[j] = "alive"
  /\ kin' = kin \cup {j}
  /\ UNCHANGED <<now, spawn, leader, endedBy, metaVars, killed, timer, watch, kill, regVars>>

LeaderExits(j) ==
  /\ leader[j] = "alive"
  /\ leader' = [leader EXCEPT ![j] = "zombie"]
  /\ endedBy' = [endedBy EXCEPT ![j] = "itself"]
  /\ UNCHANGED <<now, spawn, kin, metaVars, killed, timer, watch, kill, regVars>>

KinExit(j) ==
  /\ j \in kin
  /\ kin' = kin \ {j}
  /\ UNCHANGED <<now, spawn, leader, endedBy, metaVars, killed, timer, watch, kill, regVars>>

\* Mutant: the shell alone is signalled.
SignalLeaderOnly(j, by, catchable) ==
  /\ \/ /\ leader[j] = "alive"
        /\ leader' = [leader EXCEPT ![j] = "zombie"]
        /\ endedBy' = [endedBy EXCEPT ![j] = by]
     \/ /\ leader[j] # "alive" \/ catchable
        /\ UNCHANGED <<leader, endedBy>>
  /\ UNCHANGED kin

\* signalProcessGroup, killProcessGroup: a signal to the group with the number
\* of the shell. SIGTERM and SIGINT can be caught, by the shell and by its
\* descendants. When the shell was reaped and nobody is left in the group, the
\* number is free, and the signal reaches no process of the job.
SignalProcessGroup(j, by, catchable) ==
  /\ \/ /\ leader[j] = "alive"
        /\ leader' = [leader EXCEPT ![j] = "zombie"]
        /\ endedBy' = [endedBy EXCEPT ![j] = by]
     \/ /\ leader[j] # "alive" \/ catchable
        /\ UNCHANGED <<leader, endedBy>>
  /\ \/ kin' = kin \ {j}
     \/ catchable /\ UNCHANGED kin

-----------------------------------------------------------------------------
(* Spawn.                                                                  *)

\* Read-only mode, a denied command or a bad directory.
SpawnRefused(j) ==
  /\ spawn[j] = "idle"
  /\ spawn' = [spawn EXCEPT ![j] = "failed"]
  /\ UNCHANGED <<now, procVars, metaVars, killed, timer, watch, kill, regVars>>

SpawnLog(j) ==
  /\ spawn[j] = "idle"
  /\ spawn' = [spawn EXCEPT ![j] = "logged"]
  /\ logs' = logs \cup {j}
  /\ UNCHANGED <<now, procVars, metaVars, killed, timer, watch, kill, jobs>>

\* cmd.Start fails: the log file stays.
SpawnStartFails(j) ==
  /\ spawn[j] = "logged"
  /\ spawn' = [spawn EXCEPT ![j] = "failed"]
  /\ UNCHANGED <<now, procVars, metaVars, killed, timer, watch, kill, regVars>>

SpawnStart(j) ==
  /\ spawn[j] = "logged"
  /\ spawn' = [spawn EXCEPT ![j] = "started"]
  /\ leader' = [leader EXCEPT ![j] = "alive"]
  /\ spawns' = spawns + 1
  /\ startedAt' = [startedAt EXCEPT ![j] = spawns + 1]
  /\ state' = [state EXCEPT ![j] = "running"]
  /\ timer' = [timer EXCEPT ![j] = IF j \in Timed THEN "armed" ELSE "none"]
  /\ watch' = [watch EXCEPT ![j] = "waiting"]
  /\ UNCHANGED <<now, kin, endedBy, endedAt, killed, kill, regVars>>

SpawnRegister(j) ==
  /\ spawn[j] = "started"
  /\ spawn' = [spawn EXCEPT ![j] = "done"]
  /\ jobs' = jobs \cup {j}
  /\ UNCHANGED <<now, procVars, metaVars, killed, timer, watch, kill, logs>>

SpawnStep(j) ==
  SpawnRefused(j) \/ SpawnLog(j) \/ SpawnStartFails(j) \/ SpawnStart(j) \/ SpawnRegister(j)

-----------------------------------------------------------------------------
(* The timer.                                                              *)

\* The function runs in a goroutine of its own: a Stop comes too late for it.
TimerFires(j) ==
  /\ timer[j] = "armed"
  /\ timer' = [timer EXCEPT ![j] = "firing"]
  /\ UNCHANGED <<now, spawn, procVars, metaVars, killed, watch, kill, regVars>>

TimedOut(j) == timer[j] \in {"flagged", "spent"}

TimerFlags(j) ==
  /\ timer[j] = "firing"
  /\ timer' = [timer EXCEPT ![j] = "flagged"]
  /\ UNCHANGED <<now, spawn, procVars, metaVars, killed, watch, kill, regVars>>

TimerKills(j) ==
  /\ timer[j] = "flagged"
  /\ timer' = [timer EXCEPT ![j] = "spent"]
  /\ SignalProcessGroup(j, "timer", FALSE)
  /\ UNCHANGED <<now, spawn, metaVars, killed, watch, kill, regVars>>

TimerStep(j) == TimerFires(j) \/ TimerFlags(j) \/ TimerKills(j)

-----------------------------------------------------------------------------
(* The goroutine that waits for the process.                               *)

Reap(j) ==
  /\ watch[j] = "waiting" /\ leader[j] = "zombie"
  /\ watch' = [watch EXCEPT ![j] = "reaped"]
  /\ leader' = [leader EXCEPT ![j] = "reaped"]
  /\ UNCHANGED <<now, spawn, kin, endedBy, metaVars, killed, timer, kill, regVars>>

StopTimer(j) ==
  /\ watch[j] = "reaped"
  /\ watch' = [watch EXCEPT ![j] = "stopped"]
  /\ timer' = [timer EXCEPT ![j] = IF @ = "armed" THEN "stopped" ELSE @]
  /\ UNCHANGED <<now, spawn, procVars, metaVars, killed, kill, regVars>>

FinalState(j) ==
  IF TimedOut(j) THEN "timed_out" ELSE IF j \in killed THEN "killed" ELSE "exited"

Record(j) ==
  /\ watch[j] = "stopped"
  /\ watch' = [watch EXCEPT ![j] = "ended"]
  /\ state' = [state EXCEPT ![j] = FinalState(j)]
  /\ endedAt' = [endedAt EXCEPT ![j] = now]
  /\ UNCHANGED <<now, spawn, procVars, startedAt, spawns, killed, timer, kill, regVars>>

WatchStep(j) == Reap(j) \/ StopTimer(j) \/ Record(j)

-----------------------------------------------------------------------------
(* remote_job_kill.                                                        *)

KillLookup(j) ==
  /\ kill[j] = "idle" /\ j \in jobs
  /\ kill' = [kill EXCEPT ![j] = "found"]
  /\ UNCHANGED <<now, spawn, procVars, metaVars, killed, timer, watch, regVars>>

\* Not running, or an unsupported signal: the call ends in an error.
KillCheck(j) ==
  /\ kill[j] = "found"
  /\ \/ state[j] = "running" /\ kill' = [kill EXCEPT ![j] = "live"]
     \/ kill' = [kill EXCEPT ![j] = "idle"]
  /\ UNCHANGED <<now, spawn, procVars, metaVars, killed, timer, watch, regVars>>

\* Mutant: killed is left to a process that dies.
KillFlagLater(j) ==
  /\ kill[j] = "live"
  /\ kill' = [kill EXCEPT ![j] = "flagged"]
  /\ killed' = IF leader[j] = "zombie" THEN killed \cup {j} ELSE killed
  /\ UNCHANGED <<now, spawn, procVars, metaVars, timer, watch, regVars>>

KillFlag(j) ==
  /\ kill[j] = "live"
  /\ kill' = [kill EXCEPT ![j] = "flagged"]
  /\ killed' = killed \cup {j}
  /\ UNCHANGED <<now, spawn, procVars, metaVars, timer, watch, regVars>>

KillSignal(j) ==
  /\ kill[j] = "flagged"
  /\ kill' = [kill EXCEPT ![j] = "idle"]
  /\ \E catchable \in BOOLEAN : SignalProcessGroup(j, "kill", catchable)
  /\ UNCHANGED <<now, spawn, metaVars, killed, timer, watch, regVars>>

KillStep(j) == KillLookup(j) \/ KillCheck(j) \/ KillFlag(j) \/ KillSignal(j)

-----------------------------------------------------------------------------
(* The sweep, under jm.mu. A job that ends while the sweep looks at the    *)
(* others counts as one that ends after it.                                *)

Finished == {j \in jobs : state[j] # "running"}

\* Mutant: the oldest first.
NewerOldest(j) == {k \in Finished : startedAt[k] < startedAt[j]}

\* The finished jobs before j in the order of the sweep, newest first.
Newer(j) == {k \in Finished : startedAt[k] > startedAt[j]}

Swept ==
  {j \in Finished :
     Cardinality(Newer(j)) >= MaxFinishedJobs \/ now - endedAt[j] > JobRetention}

\* Mutant: the log stays when the job is dropped for its age.
SweepKeepsOldLogs ==
  /\ jobs' = jobs \ Swept
  /\ logs' = logs \ {j \in Swept : now - endedAt[j] <= JobRetention}
  /\ UNCHANGED <<now, spawn, procVars, metaVars, killed, timer, watch, kill>>

Sweep ==
  /\ jobs' = jobs \ Swept
  /\ logs' = logs \ Swept
  /\ UNCHANGED <<now, spawn, procVars, metaVars, killed, timer, watch, kill>>

Tick ==
  /\ now < MaxTime
  /\ now' = now + 1
  /\ UNCHANGED <<spawn, procVars, metaVars, killed, timer, watch, kill, regVars>>

Next ==
  \/ \E j \in Jobs : \/ Forks(j) \/ LeaderExits(j) \/ KinExit(j)
                     \/ SpawnStep(j) \/ TimerStep(j) \/ WatchStep(j) \/ KillStep(j)
  \/ Sweep
  \/ Tick

Spec == Init /\ [][Next]_vars

\* Timers fire, and the Go runtime runs their functions and the goroutine that
\* waits. The process need never exit, and nobody need call.
Fairness == \A j \in Jobs : WF_vars(TimerStep(j)) /\ WF_vars(WatchStep(j))

FairSpec == Spec /\ Fairness

-----------------------------------------------------------------------------
(* Properties.                                                             *)

Ended(j) == state[j] \in {"exited", "killed", "timed_out"}

\* The states of remote_job_status: a job is called exited only if its shell
\* ended by itself, however Kill and the timer, which set their flag and then
\* signal, race the goroutine that reads the flags.
ExitedIsOwnExit == \A j \in Jobs : state[j] = "exited" => endedBy[j] = "itself"

\* "addressable by a job id": a shell that lives, once Spawn has returned its
\* id, is in the map and passes Kill's check, whatever was swept.
AliveIsKillable ==
  \A j \in Jobs : spawn[j] = "done" /\ leader[j] = "alive" => j \in jobs /\ state[j] = "running"

\* "pruned ... together with their log files": a job in the map has its log,
\* and a log without a job in the map is one that Spawn is at work on, or of a
\* spawn whose process did not start.
LogsFollowJobs ==
  /\ jobs \subseteq logs
  /\ \A j \in logs : j \in jobs \/ spawn[j] \in {"logged", "started", "failed"}

\* sweep: a job is forgotten only after it ended, and only for its age or for
\* MaxFinishedJobs finished jobs that started after it.
ForgottenForCause ==
  [][\A j \in jobs \ jobs' :
       /\ Ended(j)
       /\ \/ now - endedAt[j] > JobRetention
          \/ \E S \in SUBSET (jobs \ {j}) :
               /\ Cardinality(S) = MaxFinishedJobs
               /\ \A k \in S : Ended(k) /\ startedAt[k] > startedAt[j]]_vars

\* Nothing that lives is forgotten, and what has ended only for its age or for
\* newer ended jobs (sweep).
KeptForCause == []AliveIsKillable /\ ForgottenForCause

\* timeout_seconds, "Kill the job (whole process group) after this many
\* seconds": a job with a timeout ends, even if its shell and its descendants
\* never would, and if the timeout ended it nobody of its group is left.
TimeoutEnforced ==
  \A j \in Timed : state[j] = "running" ~>
    (Ended(j) /\ (endedBy[j] = "timer" => j \notin kin))

\* Why the invariants hold. A job has a goroutine, a state and a place in the
\* map only as far as Spawn got, and it runs until Record says otherwise.
Progress(j) ==
  /\ spawn[j] \in {"idle", "logged", "failed"} =>
       leader[j] = "none" /\ watch[j] = "none" /\ timer[j] = "none"
  /\ j \in jobs => spawn[j] = "done"
  /\ spawn[j] \in {"started", "done"} => leader[j] # "none"
  /\ watch[j] = "none" <=> leader[j] = "none"
  /\ watch[j] = "waiting" <=> leader[j] \in {"alive", "zombie"}
  /\ state[j] = "running" <=> watch[j] \in {"waiting", "reaped", "stopped"}
  /\ watch[j] = "ended" <=> Ended(j)
  /\ spawn[j] = "done" /\ state[j] = "running" => j \in jobs
  /\ spawn[j] \in {"logged", "started"} => j \in logs

\* ... and a signal of ours is never sent without its flag.
Flagged(j) ==
  /\ endedBy[j] = "none" <=> leader[j] \in {"none", "alive"}
  /\ endedBy[j] = "timer" => TimedOut(j)
  /\ endedBy[j] = "kill" => j \in killed
  /\ kill[j] = "flagged" => j \in killed

IInv ==
  /\ TypeOK
  /\ ExitedIsOwnExit
  /\ LogsFollowJobs
  /\ \A j \in Jobs : Progress(j) /\ Flagged(j)
=============================================================================
