----------------------------- MODULE CommandRun -----------------------------
(***************************************************************************)
(* One run of Executor.execute (executor.go): the guards, the start of the *)
(* shell in its own process group, os/exec's Wait with its context watcher *)
(* and its WaitDelay, and classifyWait, which turns what Wait returned and *)
(* the state of the context into the outcome the client sees.              *)
(*                                                                         *)
(* The shell, its descendants and the kernel are external: the shell may   *)
(* exit with any code at any time, and may leave a descendant behind that  *)
(* holds the output pipes, inside its process group or outside it.         *)
(***************************************************************************)
EXTENDS Integers

CONSTANT ExitCodes        \* codes a shell may exit with by itself; 0 is success

ASSUME ExitCodesAssumption == ExitCodes \subseteq Nat /\ 0 \in ExitCodes

VARIABLES
  pc,        \* where execute stands
  shell,     \* the shell process: "none", "alive", "zombie" (exited, not reaped), "reaped"
  exit,      \* how the shell ended: its code, or NoCode
  stray,     \* descendant holding the pipes: "none", "group", "detached"
  ctx,       \* context of the run: "live", "deadline" or "canceled"; the first cause stays
  watcher,   \* os/exec's context goroutine: "off", "armed", "fired", "released"
  killed,    \* the group was killed while the shell was alive
  waitErr,   \* error of cmd.Wait: "nil", "exit", "ctx", "waitdelay"
  timedOut,  \* classifyWait's second result
  res        \* the ExecResult returned, or NoResult

vars == <<pc, shell, exit, stray, ctx, watcher, killed, waitErr, timedOut, res>>

NoCode == -2          \* the shell has not ended
SignalCode == -1      \* os.ProcessState.ExitCode of a process ended by a signal
NoResult == [state |-> "none", code |-> NoCode]

States == {"completed", "timed_out", "cancelled", "not_started"}

TypeOK ==
  /\ pc \in {"guard", "start", "wait", "watch", "drain", "classify", "cancelled", "done"}
  /\ shell \in {"none", "alive", "zombie", "reaped"}
  /\ exit \in ExitCodes \cup {SignalCode, NoCode}
  /\ stray \in {"none", "group", "detached"}
  /\ ctx \in {"live", "deadline", "canceled"}
  /\ watcher \in {"off", "armed", "fired", "released"}
  /\ killed \in BOOLEAN
  /\ waitErr \in {"nil", "exit", "ctx", "waitdelay"}
  /\ timedOut \in BOOLEAN
  /\ res \in [state : States, code : ExitCodes \cup {SignalCode}] \cup {NoResult}

Init ==
  /\ pc = "guard"
  /\ shell = "none" /\ exit = NoCode /\ stray = "none"
  /\ ctx = "live" /\ watcher = "off" /\ killed = FALSE
  /\ waitErr = "nil" /\ timedOut = FALSE
  /\ res = NoResult

-----------------------------------------------------------------------------
(* The environment: the shell, its descendants, the timer, the canceller.  *)

ShellExits(c) ==
  /\ shell = "alive"
  /\ shell' = "zombie"
  /\ exit' = c
  /\ UNCHANGED <<pc, stray, ctx, watcher, killed, waitErr, timedOut, res>>

\* The command forks a descendant that inherits the pipes: `x &`, or `setsid x &`.
Forks(kind) ==
  /\ shell = "alive"
  /\ stray = "none"
  /\ stray' = kind
  /\ UNCHANGED <<pc, shell, exit, ctx, watcher, killed, waitErr, timedOut, res>>

StrayExits ==
  /\ stray # "none"
  /\ stray' = "none"
  /\ UNCHANGED <<pc, shell, exit, ctx, watcher, killed, waitErr, timedOut, res>>

\* The timeout of context.WithTimeout runs out.
DeadlinePasses ==
  /\ pc \notin {"guard", "done"}
  /\ ctx = "live"
  /\ ctx' = "deadline"
  /\ UNCHANGED <<pc, shell, exit, stray, watcher, killed, waitErr, timedOut, res>>

\* remote_cancel, shutdown or, for Execute, the end of the caller's context.
CancelArrives ==
  /\ pc # "done"
  /\ ctx = "live"
  /\ ctx' = "canceled"
  /\ UNCHANGED <<pc, shell, exit, stray, watcher, killed, waitErr, timedOut, res>>

-----------------------------------------------------------------------------
(* Executor.execute.                                                       *)

\* fail: read-only mode, deny policy, working directory, output encoding.
Refuse ==
  /\ pc = "guard"
  /\ pc' = "done"
  /\ res' = [state |-> "not_started", code |-> SignalCode]
  /\ UNCHANGED <<shell, exit, stray, ctx, watcher, killed, waitErr, timedOut>>

Accept ==
  /\ pc = "guard"
  /\ pc' = "start"
  /\ UNCHANGED <<shell, exit, stray, ctx, watcher, killed, waitErr, timedOut, res>>

\* cmd.Start fails: the shell cannot be run, or ctx ended before the start.
StartFails ==
  /\ pc = "start"
  /\ pc' = "done"
  /\ res' = [state |-> "not_started", code |-> SignalCode]
  /\ UNCHANGED <<shell, exit, stray, ctx, watcher, killed, waitErr, timedOut>>

Start ==
  /\ pc = "start"
  /\ ctx = "live"
  /\ pc' = "wait"
  /\ shell' = "alive"
  /\ watcher' = "armed"
  /\ UNCHANGED <<exit, stray, ctx, killed, waitErr, timedOut, res>>

\* cmd.Cancel: SIGKILL to the whole group. It reaches a live shell and every
\* descendant still in the group; it always reports success to os/exec.
KillProcessGroup ==
  /\ killed' = (killed \/ shell = "alive")
  /\ shell' = IF shell = "alive" THEN "zombie" ELSE shell
  /\ exit' = IF shell = "alive" THEN SignalCode ELSE exit
  /\ stray' = IF stray = "group" THEN "none" ELSE stray

\* Mutant of WatcherFires: Wait does not release the watcher.
WatcherFiresLate ==
  /\ watcher \in {"armed", "released"}
  /\ ctx # "live"
  /\ watcher' = "fired"
  /\ KillProcessGroup
  /\ UNCHANGED <<pc, ctx, waitErr, timedOut, res>>

WatcherFires ==
  /\ watcher = "armed"
  /\ ctx # "live"
  /\ watcher' = "fired"
  /\ KillProcessGroup
  /\ UNCHANGED <<pc, ctx, waitErr, timedOut, res>>

\* cmd.Wait, first part: reap the shell.
WaitReaps ==
  /\ pc = "wait"
  /\ shell = "zombie"
  /\ shell' = "reaped"
  /\ waitErr' = IF exit = 0 THEN "nil" ELSE "exit"
  /\ pc' = "watch"
  /\ UNCHANGED <<exit, stray, ctx, watcher, killed, timedOut, res>>

\* cmd.Wait, second part: take the watcher's verdict. A watcher that has not
\* seen ctx end is released, and never kills after that.
WaitTakesVerdict ==
  /\ pc = "watch"
  /\ watcher \in {"armed", "fired"}
  /\ watcher' = IF watcher = "armed" THEN "released" ELSE "fired"
  /\ waitErr' = IF watcher = "fired" /\ waitErr = "nil" THEN "ctx" ELSE waitErr
  /\ pc' = "drain"
  /\ UNCHANGED <<shell, exit, stray, ctx, killed, timedOut, res>>

\* cmd.Wait, third part: the copying goroutines end when nobody holds the pipes.
PipesClose ==
  /\ pc = "drain"
  /\ stray = "none"
  /\ pc' = "classify"
  /\ UNCHANGED <<shell, exit, stray, ctx, watcher, killed, waitErr, timedOut, res>>

\* Mutant of WaitDelayPasses: cmd.WaitDelay is not set.
WaitDelayUnset == pc = "drain" /\ FALSE /\ UNCHANGED vars

\* ... or WaitDelay runs out: the descendant keeps running, Wait gives up on it.
WaitDelayPasses ==
  /\ pc = "drain"
  /\ stray # "none"
  /\ waitErr' = IF waitErr = "nil" THEN "waitdelay" ELSE waitErr
  /\ pc' = "classify"
  /\ UNCHANGED <<shell, exit, stray, ctx, watcher, killed, timedOut, res>>

\* classifyWait: a run that ended without error is never timed out, whatever
\* the context says by now.
ClassifyWait ==
  /\ pc = "classify"
  /\ timedOut' = (waitErr \notin {"nil", "waitdelay"} /\ ctx = "deadline")
  /\ pc' = "cancelled"
  /\ UNCHANGED <<shell, exit, stray, ctx, watcher, killed, waitErr, res>>

ExitCode ==
  CASE waitErr \in {"nil", "waitdelay"} -> 0
    [] waitErr = "exit" -> exit
    [] waitErr = "ctx" -> SignalCode

\* Mutant of Finish: Cancelled is never set.
FinishWithoutCancelled ==
  /\ pc = "cancelled"
  /\ res' = [state |-> IF timedOut THEN "timed_out" ELSE "completed", code |-> ExitCode]
  /\ pc' = "done"
  /\ UNCHANGED <<shell, exit, stray, ctx, watcher, killed, waitErr, timedOut>>

\* execute reads the context a second time for `cancelled` and returns.
Finish ==
  /\ pc = "cancelled"
  /\ LET cancelled == ~timedOut /\ waitErr \notin {"nil", "waitdelay"} /\ ctx = "canceled"
     IN  res' = [state |-> IF timedOut THEN "timed_out"
                           ELSE IF cancelled THEN "cancelled" ELSE "completed",
                 code |-> ExitCode]
  /\ pc' = "done"
  /\ UNCHANGED <<shell, exit, stray, ctx, watcher, killed, waitErr, timedOut>>

Execute ==
  \/ Refuse \/ Accept \/ StartFails \/ Start \/ WatcherFires \/ WaitReaps
  \/ WaitTakesVerdict \/ PipesClose \/ WaitDelayPasses \/ ClassifyWait \/ Finish

Environment ==
  \/ \E c \in ExitCodes : ShellExits(c)
  \/ \E kind \in {"group", "detached"} : Forks(kind)
  \/ StrayExits
  \/ DeadlinePasses
  \/ CancelArrives

Next == Execute \/ Environment

Spec == Init /\ [][Next]_vars

\* The Go runtime runs the goroutines and its timers fire. Nothing is assumed
\* of the command: it may run for ever and its descendants may hold the pipes.
FairSpec ==
  /\ Spec
  /\ WF_vars(Execute)
  /\ WF_vars(WatcherFires)
  /\ WF_vars(DeadlinePasses)

-----------------------------------------------------------------------------
(* Properties.                                                             *)

\* A run reported as completed ended by itself: the server killed nothing, and
\* the exit code is the shell's own (execState / classifyWait), although its
\* context may have ended between any two steps.
CompletedIsOwnExit ==
  res.state = "completed" => ~killed /\ exit # SignalCode /\ res.code = exit

\* A shell that succeeded is reported with exit code 0 unless the outcome says
\* that it was cut short: no success is turned into a plain failure, in
\* particular not by a descendant that keeps the pipes open (ErrWaitDelay).
SuccessIsNotFailure ==
  pc = "done" /\ exit = 0 =>
    \/ res = [state |-> "completed", code |-> 0]
    \/ res.state \in {"timed_out", "cancelled"} /\ res.code = SignalCode /\ watcher = "fired"

\* The named limit is the one that fired: timed_out only after the run's own
\* deadline, cancelled only after a cancel, and not_started only if no process
\* was ever spawned.
OutcomeNamesCause ==
  /\ res.state = "timed_out" => ctx = "deadline"
  /\ res.state = "cancelled" => ctx = "canceled"
  /\ res.state = "not_started" => shell = "none"

\* What execute reports is what happened, wherever the exit, the deadline, a
\* cancel and the descendants fall (execute, classifyWait).
OutcomeIsTrue == TypeOK /\ CompletedIsOwnExit /\ SuccessIsNotFailure /\ OutcomeNamesCause

\* Why OutcomeIsTrue holds, for each part of execute. Before the start there is
\* no process and no watcher;
BeforeStart ==
  /\ pc \in {"guard", "start"} => shell = "none" /\ waitErr = "nil" /\ ~timedOut
  /\ pc # "done" => res = NoResult
  /\ shell = "none" => watcher = "off" /\ exit = NoCode /\ ~killed /\ stray = "none"
  /\ shell = "none" /\ pc = "done" => res = [state |-> "not_started", code |-> SignalCode]
  /\ pc \in {"wait", "watch", "drain", "classify", "cancelled"} => shell # "none"

\* a shell that ended by a signal was killed by the watcher, whose context had
\* ended, and only such a shell has SignalCode;
KilledByWatcher ==
  /\ shell # "none" => (shell = "alive" <=> exit = NoCode)
  /\ exit = SignalCode <=> killed
  /\ killed => watcher = "fired"
  /\ watcher = "fired" => ctx # "live"

\* Wait's error says how the shell ended, or that the watcher fired although it
\* succeeded, and once Wait has the verdict the watcher has had its last word;
WaitErrIsTrue ==
  /\ pc = "wait" <=> shell \in {"alive", "zombie"}
  /\ pc = "wait" => watcher \in {"armed", "fired"} /\ waitErr = "nil"
  /\ pc = "watch" => /\ shell = "reaped" /\ watcher \in {"armed", "fired"}
                     /\ waitErr = IF exit = 0 THEN "nil" ELSE "exit"
  /\ pc \in {"drain", "classify", "cancelled"} =>
       /\ shell = "reaped" /\ watcher \in {"released", "fired"}
       /\ exit # 0 => waitErr = "exit"
       /\ exit = 0 => waitErr \in (IF watcher = "fired" THEN {"ctx"} ELSE {"nil", "waitdelay"})

\* and the context is read twice: a deadline that ended the run is seen the
\* first time.
DeadlineIsSeen ==
  /\ timedOut => ctx = "deadline" /\ waitErr \notin {"nil", "waitdelay"}
  /\ pc = "cancelled" /\ watcher = "fired" /\ ctx = "deadline" => timedOut
  /\ timedOut => pc \in {"cancelled", "done"}

RunInv ==
  /\ OutcomeIsTrue
  /\ BeforeStart /\ KilledByWatcher /\ WaitErrIsTrue /\ DeadlineIsSeen

\* Once Wait has released its context watcher, the descendants the command
\* left behind survive the run: a later timeout or cancel kills nothing.
ReleasedRunKillsNothing ==
  [][watcher = "released" => killed' = killed /\ watcher' = watcher]_vars

\* execute always returns: a command that never exits is killed at its
\* deadline, and a descendant outside the group that holds the pipes cannot
\* keep Wait from returning (cmd.WaitDelay).
Returns == <>(pc = "done")
=============================================================================
