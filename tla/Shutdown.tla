------------------------------ MODULE Shutdown ------------------------------
(***************************************************************************)
(* gracefulShutdown (main.go) over the detached executions: stop accepting *)
(* requests, wait for the handlers in flight, then for the commands that   *)
(* outlived their calls, and after the grace period kill what is left.     *)
(* When the process exits, its goroutines are gone; a command that was not *)
(* killed lives on in its process group.                                   *)
(*                                                                         *)
(* Commands run by Execute (probes, the pwd of a session's cd) are not     *)
(* modelled here; they belong to a handler or to a watcher.                *)
(***************************************************************************)
EXTENDS Executions

VARIABLES
  phase,    \* where gracefulShutdown stands
  expired,  \* the grace period is over
  shutErr,  \* srv.Shutdown gave up on the handlers in flight
  forced    \* the branch that kills was taken

shutVars == <<phase, expired, shutErr, forced>>
allVars == <<vars, shutVars>>

ShutTypeOK ==
  /\ TypeOK
  /\ phase \in {"serving", "draining", "settling", "checking", "killing", "exited"}
  /\ expired \in BOOLEAN /\ shutErr \in BOOLEAN /\ forced \in BOOLEAN

ShutInit ==
  /\ Init
  /\ phase = "serving" /\ expired = FALSE /\ shutErr = FALSE /\ forced = FALSE

-----------------------------------------------------------------------------
(* The executions while the process lives.                                 *)

\* A handler runs until Shutdown has seen it end; if Shutdown gave up, it
\* runs on.
HandlersMayRun == phase \in {"serving", "draining"} \/ shutErr

AcceptWhileServing ==
  /\ phase = "serving"
  /\ \E e \in Execs : Accept(e)
  /\ UNCHANGED shutVars

HandlerStep ==
  /\ phase # "exited"
  /\ \/ \E e \in Execs : CallStep(e)
     \/ HandlersMayRun /\ ((\E e \in Execs : ToolStep(e)) \/ List)
  /\ UNCHANGED shutVars

CommandStep ==
  /\ phase # "exited"
  /\ (\E e \in Execs : WorkerStep(e)) \/ Tick
  /\ UNCHANGED shutVars

-----------------------------------------------------------------------------
(* gracefulShutdown.                                                       *)

Signal ==
  /\ phase = "serving"
  /\ phase' = "draining"
  /\ UNCHANGED <<vars, expired, shutErr, forced>>

GraceExpires ==
  /\ phase \in {"draining", "settling", "checking"}
  /\ ~expired
  /\ expired' = TRUE
  /\ UNCHANGED <<vars, phase, shutErr, forced>>

\* No handler is in flight.
Drained ==
  \A e \in Execs : call[e] \in {"idle", "done"} /\ fetch[e] = "idle" /\ cancelling[e] = "idle"

\* Mutant of ShutdownReturns: srv.Close, which waits for nobody.
ShutdownClosesAtOnce ==
  /\ phase = "draining"
  /\ shutErr' = FALSE
  /\ phase' = "settling"
  /\ UNCHANGED <<vars, expired, forced>>

\* srv.Shutdown returns nil once all connections are idle, else ctx.Err().
ShutdownReturns ==
  /\ phase = "draining"
  /\ \/ Drained /\ shutErr' = FALSE
     \/ expired /\ shutErr' = TRUE
  /\ phase' = "settling"
  /\ UNCHANGED <<vars, expired, forced>>

\* Mutant of SettleEnds: detached commands are not waited for.
SettleSkipped ==
  /\ phase = "settling"
  /\ phase' = "checking"
  /\ UNCHANGED <<vars, expired, shutErr, forced>>

\* The loop that waits for executor.Running() ends.
SettleEnds ==
  /\ phase = "settling"
  /\ shutErr \/ running = {} \/ expired
  /\ phase' = "checking"
  /\ UNCHANGED <<vars, expired, shutErr, forced>>

\* Nothing is left: the process exits.
ExitClean ==
  /\ phase = "checking"
  /\ ~shutErr /\ running = {}
  /\ phase' = "exited"
  /\ UNCHANGED <<vars, expired, shutErr, forced>>

\* executor.CancelAll and cancelBase.
KillRest ==
  /\ phase = "checking"
  /\ shutErr \/ running # {}
  /\ cancelled' = cancelled \cup running
  /\ phase' = "killing"
  /\ forced' = TRUE
  /\ UNCHANGED <<now, launches, callVars, worker, startedAt, running, regVars, exVars,
                 answer, audit, toolVars, expired, shutErr>>

\* Mutant of ExitForced: the second loop has no deadline.
ExitForcedNoDeadline ==
  /\ phase = "killing"
  /\ running = {}
  /\ phase' = "exited"
  /\ UNCHANGED <<vars, expired, shutErr, forced>>

\* The second loop ends, at the latest execWaitDelay + 1s after the kill. A
\* cancelled command has returned by then: the kill is immediate and Wait
\* gives up on its pipes after execWaitDelay (CommandRun). Then srv.Close.
ExitForced ==
  /\ phase = "killing"
  /\ running = {} \/ \A e \in cancelled : worker[e] # "running"
  /\ phase' = "exited"
  /\ UNCHANGED <<vars, expired, shutErr, forced>>

GracefulShutdown == ShutdownReturns \/ SettleEnds \/ ExitClean \/ KillRest \/ ExitForced

ShutNext ==
  \/ AcceptWhileServing \/ HandlerStep \/ CommandStep
  \/ Signal \/ GraceExpires \/ GracefulShutdown

ShutSpec == ShutInit /\ [][ShutNext]_allVars

\* The timer of the grace period fires, the main goroutine runs, and a command
\* that was killed returns. Nothing is assumed of other commands, of handlers
\* or of clients: they may hang for ever.
ShutFairSpec ==
  /\ ShutSpec
  /\ WF_allVars(GraceExpires)
  /\ WF_allVars(GracefulShutdown)
  /\ \A e \in Execs : WF_allVars(phase # "exited" /\ e \in cancelled /\ WorkerPublish(e)
                                 /\ UNCHANGED shutVars)

-----------------------------------------------------------------------------
(* Properties.                                                             *)

\* The inductive strengthening of the two invariants below: what is settled
\* about handlers and commands in each phase.
HandlersEnded == \A e \in Execs : call[e] \in {"idle", "done"}

ShutIInv ==
  /\ IInv
  /\ ShutTypeOK
  /\ shutErr \/ forced => expired
  /\ shutErr => phase \in {"settling", "checking", "killing", "exited"}
  /\ forced => phase \in {"killing", "exited"}
  /\ phase = "killing" => forced
  /\ phase \in {"settling", "checking"} /\ ~shutErr => HandlersEnded
  /\ phase = "checking" /\ ~shutErr => running = {} \/ expired
  /\ phase = "exited" /\ ~forced => HandlersEnded /\ running = {}

\* A shutdown that did not have to kill loses nothing: every request was
\* answered, every launched command has returned, and the outcome of each is
\* in the audit log, whichever of the call and onLate had to write it.
CleanExitComplete ==
  phase = "exited" /\ ~forced =>
    \A e \in Execs :
      call[e] # "idle" =>
        call[e] = "done" /\ worker[e] = "gone" /\ HasFinalLine(e)

\* The grace period is granted: nothing is killed by the shutdown before it is
\* over, although the executions are counted again after the loop that waits
\* for them.
GraceIsGranted == forced => expired

\* The shutdown ends, whatever the commands, the handlers and the clients do.
ShutdownEnds == phase = "draining" ~> phase = "exited"

\* main.go: gracefulShutdown lets executions finish "for up to grace, then
\* kills what is left": no command runs on when the process has exited.
NoOrphanAtExit ==
  phase = "exited" => \A e \in Execs : worker[e] # "running"
=============================================================================
