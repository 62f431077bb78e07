----------------------------- MODULE Executions -----------------------------
(***************************************************************************)
(* Detached executions (executions.go, mcp_executions.go): a tool call     *)
(* launches a command in a goroutine of its own, waits for it for the call *)
(* budget and then claims the outcome or hands it off; the goroutine       *)
(* publishes the outcome, audits it if it was handed off, and retires. The *)
(* registry execs is pruned by everyone who opens it; running is the map   *)
(* of cancel functions, which remote_cancel and the shutdown use.          *)
(*                                                                         *)
(* One step is one critical section (e.mu, ex.mu, a sync.Map operation) or *)
(* one line of the audit log. An execution stands for one launching call.  *)
(* The command itself is CommandRun: it returns, with one of its outcomes, *)
(* cancelled only after a cancel (OutcomeNamesCause and Returns there).    *)
(***************************************************************************)
EXTENDS Integers, Sequences, FiniteSets

CONSTANTS
  Execs,               \* the executions
  States,              \* the final states a command may return with
  Asked,               \* bound: the executions that clients ask about after the launch
  MaxRetainedExecs,    \* finished executions listed
  MaxRetainedOutputs,  \* ... of which still hold their output
  ExecRetention,       \* how long a finished execution is listed
  MaxListedExecs,      \* executions in the list reply
  MaxTime,             \* bound: the clock stops here
  None                 \* nil

ASSUME ConstantsAssumption ==
  /\ States \subseteq {"completed", "timed_out", "cancelled", "not_started"}
  /\ "completed" \in States
  /\ Asked \subseteq Execs
  /\ MaxRetainedExecs \in Nat /\ MaxRetainedOutputs \in Nat
  /\ ExecRetention \in Nat /\ MaxListedExecs \in Nat /\ MaxTime \in Nat
  /\ None \notin States \cup {"running", "open", "unstarted"}

VARIABLES
  now,         \* the clock, in the unit of ExecRetention
  launches,    \* number of launches so far; orders StartedAt
  call,        \* where the launching call stands
  worker,      \* where the goroutine of Launch stands
  startedAt,   \* Execution.StartedAt: position in the order of launches
  running,     \* Executor.running: ids with a cancel function
  cancelled,   \* ids whose cancel function was called
  execs,       \* Executor.execs: the registry
  result,      \* Execution.result: the final state, or None
  endedAt,     \* Execution.endedAt
  dropped,     \* Execution.outputDropped
  handedOff,   \* Execution.handedOff
  late,        \* the goroutine's copy of handedOff
  got,         \* what claim returned to the call: final state, or None
  bare,        \* ... and its stdout/stderr had been dropped by then
  answer,      \* the state last told to the client; None before any answer
  audit,       \* the audit lines about the execution: "running" or a final state
  cancelling,  \* a remote_cancel call: "idle", "live" (found unfinished), "fired"
  fetch        \* a remote_execution_result call: "idle", "found", "pending"

callVars == <<call, got, bare>>
regVars == <<execs, dropped>>
exVars == <<result, endedAt, handedOff, late>>
toolVars == <<cancelling, fetch>>
vars == <<now, launches, callVars, worker, startedAt, running, cancelled,
          regVars, exVars, answer, audit, toolVars>>

TypeOK ==
  /\ now \in 0..MaxTime
  /\ launches \in Nat
  /\ call \in [Execs -> {"idle", "accepted", "stored", "awaiting", "claimed", "replied", "done"}]
  /\ worker \in [Execs -> {"none", "running", "published", "reported", "gone"}]
  /\ startedAt \in [Execs -> Nat]
  /\ running \subseteq Execs /\ cancelled \subseteq Execs
  /\ execs \subseteq Execs /\ dropped \subseteq Execs
  /\ handedOff \subseteq Execs /\ late \subseteq Execs /\ bare \subseteq Execs
  /\ result \in [Execs -> States \cup {None}]
  /\ got \in [Execs -> States \cup {None}]
  /\ answer \in [Execs -> States \cup {"running", None}]
  /\ endedAt \in [Execs -> 0..MaxTime]
  /\ audit \in [Execs -> Seq(States \cup {"running"})]
  /\ cancelling \in [Execs -> {"idle", "live", "fired"}]
  /\ fetch \in [Execs -> {"idle", "found", "pending"}]

Init ==
  /\ now = 0 /\ launches = 0
  /\ call = [e \in Execs |-> "idle"]
  /\ worker = [e \in Execs |-> "none"]
  /\ startedAt = [e \in Execs |-> 0]
  /\ running = {} /\ cancelled = {} /\ execs = {} /\ dropped = {}
  /\ handedOff = {} /\ late = {} /\ bare = {}
  /\ result = [e \in Execs |-> None]
  /\ got = [e \in Execs |-> None]
  /\ answer = [e \in Execs |-> None]
  /\ endedAt = [e \in Execs |-> 0]
  /\ audit = [e \in Execs |-> <<>>]
  /\ cancelling = [e \in Execs |-> "idle"]
  /\ fetch = [e \in Execs |-> "idle"]

-----------------------------------------------------------------------------
(* The registry's retention.                                               *)

Finished == {e \in execs : result[e] # None /\ now - endedAt[e] <= ExecRetention}

Newer(e, S) == {f \in S : startedAt[f] > startedAt[e]}

Listed == {e \in Finished : Cardinality(Newer(e, Finished)) < MaxRetainedExecs}

\* Mutant of Overflowing: one output too many is kept.
OverflowingOffByOne ==
  {e \in Listed \ dropped : Cardinality(Newer(e, Listed) \ dropped) > MaxRetainedOutputs}

\* The output goes when enough newer executions were still holding theirs.
Overflowing ==
  {e \in Listed \ dropped : Cardinality(Newer(e, Listed) \ dropped) >= MaxRetainedOutputs}

\* Mutant of PruneLocked: the zero endedAt of a running execution has expired.
PruneForgetsRunning(added) ==
  /\ execs' = Listed \cup added
  /\ dropped' = dropped \cup Overflowing

\* pruneLocked, followed by the insertion of `added` under the same lock.
PruneLocked(added) ==
  /\ execs' = {e \in execs : result[e] = None} \cup Listed \cup added
  /\ dropped' = dropped \cup Overflowing

\* Execution.info: the state as of now.
Info(e) == IF result[e] = None THEN "running" ELSE result[e]

-----------------------------------------------------------------------------
(* The launching call: remote_execute, remote_session_execute.             *)

\* net/http hands a request to the tool handler.
Accept(e) ==
  /\ call[e] = "idle"
  /\ call' = [call EXCEPT ![e] = "accepted"]
  /\ UNCHANGED <<now, launches, got, bare, worker, startedAt, running, cancelled,
                 regVars, exVars, answer, audit, toolVars>>

\* Launch, up to running.Store.
LaunchStore(e) ==
  /\ call[e] = "accepted"
  /\ call' = [call EXCEPT ![e] = "stored"]
  /\ launches' = launches + 1
  /\ startedAt' = [startedAt EXCEPT ![e] = launches + 1]
  /\ running' = running \cup {e}
  /\ UNCHANGED <<now, got, bare, worker, cancelled, regVars, exVars, answer, audit, toolVars>>

\* Launch, the critical section of e.mu and the go statement.
LaunchRegister(e) ==
  /\ call[e] = "stored"
  /\ call' = [call EXCEPT ![e] = "awaiting"]
  /\ PruneLocked({e})
  /\ worker' = [worker EXCEPT ![e] = "running"]
  /\ UNCHANGED <<now, launches, got, bare, startedAt, running, cancelled, exVars,
                 answer, audit, toolVars>>

\* claim, after Await returned: the command is done, the call budget is spent
\* or the client is gone, so it may come at any time.
Claim(e) ==
  /\ call[e] = "awaiting"
  /\ call' = [call EXCEPT ![e] = "claimed"]
  /\ got' = [got EXCEPT ![e] = result[e]]
  /\ bare' = IF e \in dropped THEN bare \cup {e} ELSE bare
  /\ handedOff' = IF result[e] = None THEN handedOff \cup {e} ELSE handedOff
  /\ UNCHANGED <<now, launches, worker, startedAt, running, cancelled, regVars, result,
                 endedAt, late, answer, audit, toolVars>>

\* The handler builds its answer: the claimed result, or pendingResult, whose
\* info() looks at the execution again.
CallReply(e) ==
  /\ call[e] = "claimed"
  /\ call' = [call EXCEPT ![e] = "replied"]
  /\ answer' = [answer EXCEPT ![e] = IF got[e] = None THEN Info(e) ELSE got[e]]
  /\ UNCHANGED <<now, launches, got, bare, worker, startedAt, running, cancelled,
                 regVars, exVars, audit, toolVars>>

\* Mutant of CallAudit: without notePendingAudit.
CallAuditNoPending(e) ==
  /\ call[e] = "replied"
  /\ call' = [call EXCEPT ![e] = "done"]
  /\ audit' = [audit EXCEPT ![e] = Append(@, got[e])]
  /\ UNCHANGED <<now, launches, got, bare, worker, startedAt, running, cancelled,
                 regVars, exVars, answer, toolVars>>

\* withAudit writes the call's line: notePendingAudit says running,
\* noteExecAudit gives the claimed state.
CallAudit(e) ==
  /\ call[e] = "replied"
  /\ call' = [call EXCEPT ![e] = "done"]
  /\ audit' = [audit EXCEPT ![e] =
                 Append(@, IF got[e] = None THEN "running" ELSE got[e])]
  /\ UNCHANGED <<now, launches, got, bare, worker, startedAt, running, cancelled,
                 regVars, exVars, answer, toolVars>>

CallStep(e) ==
  \/ LaunchStore(e) \/ LaunchRegister(e) \/ Claim(e) \/ CallReply(e) \/ CallAudit(e)

-----------------------------------------------------------------------------
(* The goroutine of Launch.                                                *)

\* Mutants of WorkerPublish: onLate is called whoever reported; the cancel
\* function is deleted first instead of last.
WorkerPublishAlwaysLate(e) ==
  /\ worker[e] = "running"
  /\ \E s \in States :
       /\ s = "cancelled" => e \in cancelled
       /\ result' = [result EXCEPT ![e] = s]
  /\ endedAt' = [endedAt EXCEPT ![e] = now]
  /\ late' = late \cup {e}
  /\ worker' = [worker EXCEPT ![e] = "published"]
  /\ UNCHANGED <<now, launches, callVars, startedAt, running, cancelled, regVars,
                 handedOff, answer, audit, toolVars>>

WorkerPublishDeletesFirst(e) ==
  /\ worker[e] = "running"
  /\ \E s \in States :
       /\ s = "cancelled" => e \in cancelled
       /\ result' = [result EXCEPT ![e] = s]
  /\ endedAt' = [endedAt EXCEPT ![e] = now]
  /\ late' = IF e \in handedOff THEN late \cup {e} ELSE late
  /\ worker' = [worker EXCEPT ![e] = "published"]
  /\ running' = running \ {e}
  /\ UNCHANGED <<now, launches, callVars, startedAt, cancelled, regVars,
                 handedOff, answer, audit, toolVars>>

\* The command returns; result, endedAt and late in one critical section.
WorkerPublish(e) ==
  /\ worker[e] = "running"
  /\ \E s \in States :
       /\ s = "cancelled" => e \in cancelled
       /\ result' = [result EXCEPT ![e] = s]
  /\ endedAt' = [endedAt EXCEPT ![e] = now]
  /\ late' = IF e \in handedOff THEN late \cup {e} ELSE late
  /\ worker' = [worker EXCEPT ![e] = "published"]
  /\ UNCHANGED <<now, launches, callVars, startedAt, running, cancelled, regVars,
                 handedOff, answer, audit, toolVars>>

\* Mutant of WorkerReport: onLate is not called.
WorkerReportSilent(e) ==
  /\ worker[e] = "published"
  /\ worker' = [worker EXCEPT ![e] = "reported"]
  /\ UNCHANGED <<now, launches, callVars, startedAt, running, cancelled, regVars,
                 exVars, answer, audit, toolVars>>

\* onLate: lateAudit writes the final line of a handed-off execution.
WorkerReport(e) ==
  /\ worker[e] = "published"
  /\ worker' = [worker EXCEPT ![e] = "reported"]
  /\ audit' = IF e \in late THEN [audit EXCEPT ![e] = Append(@, result[e])] ELSE audit
  /\ UNCHANGED <<now, launches, callVars, startedAt, running, cancelled, regVars,
                 exVars, answer, toolVars>>

WorkerRetire(e) ==
  /\ worker[e] = "reported"
  /\ worker' = [worker EXCEPT ![e] = "gone"]
  /\ running' = running \ {e}
  /\ UNCHANGED <<now, launches, callVars, startedAt, cancelled, regVars, exVars,
                 answer, audit, toolVars>>

WorkerStep(e) == WorkerPublish(e) \/ WorkerReport(e) \/ WorkerRetire(e)

-----------------------------------------------------------------------------
(* remote_cancel and remote_execution_result, and the clock.               *)

\* Executor.Cancel.
Cancel(e) == cancelled' = IF e \in running THEN cancelled \cup {e} ELSE cancelled

\* A client knows an id from a reply or from the list.
Known(e) == call[e] \notin {"idle", "accepted", "stored"}

\* remote_cancel: Lookup and the look at the result. A finished execution is
\* answered with its state; a forgotten one is cancelled by its id alone.
CancelLookup(e) ==
  /\ e \in Asked /\ Known(e) /\ cancelling[e] = "idle"
  /\ PruneLocked({})
  /\ IF e \notin execs'
     THEN Cancel(e) /\ UNCHANGED <<cancelling, answer>>
     ELSE IF result[e] = None
     THEN cancelling' = [cancelling EXCEPT ![e] = "live"] /\ UNCHANGED <<cancelled, answer>>
     ELSE answer' = [answer EXCEPT ![e] = result[e]] /\ UNCHANGED <<cancelled, cancelling>>
  /\ UNCHANGED <<now, launches, callVars, worker, startedAt, running, exVars, audit, fetch>>

CancelFire(e) ==
  /\ cancelling[e] = "live"
  /\ Cancel(e)
  /\ cancelling' = [cancelling EXCEPT ![e] = "fired"]
  /\ UNCHANGED <<now, launches, callVars, worker, startedAt, running, regVars, exVars,
                 answer, audit, fetch>>

\* ... which waits for the kill to settle, up to a limit, and answers info().
CancelReply(e) ==
  /\ cancelling[e] = "fired"
  /\ cancelling' = [cancelling EXCEPT ![e] = "idle"]
  /\ answer' = [answer EXCEPT ![e] = Info(e)]
  /\ UNCHANGED <<now, launches, callVars, worker, startedAt, running, cancelled, regVars,
                 exVars, audit, fetch>>

\* remote_execution_result with an id.
FetchLookup(e) ==
  /\ e \in Asked /\ Known(e) /\ fetch[e] = "idle"
  /\ PruneLocked({})
  /\ fetch' = [fetch EXCEPT ![e] = IF e \in execs' THEN "found" ELSE "idle"]
  /\ UNCHANGED <<now, launches, callVars, worker, startedAt, running, cancelled, exVars,
                 answer, audit, cancelling>>

\* Await returns: with the result, or without it when wait_seconds are over.
FetchAwait(e) ==
  /\ fetch[e] = "found"
  /\ fetch' = [fetch EXCEPT ![e] = IF result[e] = None THEN "pending" ELSE "idle"]
  /\ answer' = [answer EXCEPT ![e] = IF result[e] = None THEN @ ELSE result[e]]
  /\ UNCHANGED <<now, launches, callVars, worker, startedAt, running, cancelled, regVars,
                 exVars, audit, cancelling>>

\* Mutant of FetchPending: answers running, as its audit line does, without
\* looking at the execution again.
FetchPendingStale(e) ==
  /\ fetch[e] = "pending"
  /\ fetch' = [fetch EXCEPT ![e] = "idle"]
  /\ answer' = [answer EXCEPT ![e] = "running"]
  /\ UNCHANGED <<now, launches, callVars, worker, startedAt, running, cancelled, regVars,
                 exVars, audit, cancelling>>

\* info(): of pendingResult, or of one entry of the list.
FetchPending(e) ==
  /\ fetch[e] = "pending"
  /\ fetch' = [fetch EXCEPT ![e] = "idle"]
  /\ answer' = [answer EXCEPT ![e] = Info(e)]
  /\ UNCHANGED <<now, launches, callVars, worker, startedAt, running, cancelled, regVars,
                 exVars, audit, cancelling>>

\* remote_execution_result without an id: Executions, and then info() of the
\* newest MaxListedExecs, one by one.
List ==
  /\ PruneLocked({})
  /\ fetch' = [e \in Execs |->
                 IF /\ e \in Asked \cap execs' /\ fetch[e] = "idle"
                    /\ Cardinality(Newer(e, execs')) < MaxListedExecs
                 THEN "pending" ELSE fetch[e]]
  /\ UNCHANGED <<now, launches, callVars, worker, startedAt, running, cancelled, exVars,
                 answer, audit, cancelling>>

\* Bounded by MaxTime.
Tick ==
  /\ now < MaxTime
  /\ now' = now + 1
  /\ UNCHANGED <<launches, callVars, worker, startedAt, running, cancelled, regVars,
                 exVars, answer, audit, toolVars>>

ToolStep(e) ==
  \/ CancelLookup(e) \/ CancelFire(e) \/ CancelReply(e)
  \/ FetchLookup(e) \/ FetchAwait(e) \/ FetchPending(e)

Next ==
  \/ \E e \in Execs : Accept(e) \/ CallStep(e) \/ WorkerStep(e) \/ ToolStep(e)
  \/ List
  \/ Tick

Spec == Init /\ [][Next]_vars

\* The Go runtime runs every goroutine, the budget timer ends Await, and the
\* command returns (CommandRun's Returns). Nothing is assumed of the clients:
\* they need not call, fetch or cancel.
Fairness ==
  \A e \in Execs : WF_vars(CallStep(e)) /\ WF_vars(WorkerStep(e))

FairSpec == Spec /\ Fairness

-----------------------------------------------------------------------------
(* Properties.                                                             *)

Lines(e) == DOMAIN audit[e]

HasFinalLine(e) == \E i \in Lines(e) : audit[e][i] \in States

\* claim's comment: "exactly one of the call and onLate reports the outcome".
\* No interleaving of the call and the goroutine writes two final lines, a
\* final line is the outcome itself, and when both are through there is one.
OutcomeReportedOnce ==
  \A e \in Execs :
    /\ \A i, j \in Lines(e) :
         audit[e][i] \in States /\ audit[e][j] \in States => i = j
    /\ \A i \in Lines(e) : audit[e][i] \in {"running", result[e]}
    /\ call[e] = "done" /\ worker[e] \in {"reported", "gone"} => HasFinalLine(e)

\* A command that runs can be found and stopped: whatever was pruned in the
\* meantime, it is in the registry and has its cancel function.
RunningReachable ==
  \A e \in Execs : worker[e] = "running" => e \in execs /\ e \in running

\* The shutdown drains until running is empty: an execution that was handed
\* off has left running only after its outcome was audited (Launch's "Last,
\* so shutdown keeps draining until the outcome is audited").
DrainImpliesAudited ==
  \A e \in handedOff : e \notin running => HasFinalLine(e)

NewerEnded(e) == {f \in Execs : result[f] # None /\ startedAt[f] > startedAt[e]}

\* An execution is forgotten only after it ended, and only because it is older
\* than ExecRetention or enough newer ones have ended; its output is dropped
\* only because enough newer ones have ended.
RetentionForCause ==
  \A e \in Execs :
    /\ Known(e) /\ e \notin execs =>
         /\ result[e] # None
         /\ \/ now - endedAt[e] > ExecRetention
            \/ Cardinality(NewerEnded(e)) >= MaxRetainedExecs
    /\ e \in dropped =>
         result[e] # None /\ Cardinality(NewerEnded(e)) >= MaxRetainedOutputs

\* What the client is told never goes back: once any reply gave the outcome,
\* no reply computed later says running again or gives another outcome,
\* whichever of the call, a fetch, the list and a cancel computes it.
AnswersNeverRegress ==
  [][\A e \in Execs : answer[e] \in States => answer'[e] = answer[e]]_vars

\* Launch bounds the memory: when a new execution is registered, no more
\* than the configured numbers of finished ones are listed and hold output.
LaunchBoundsRetention ==
  [][\A e \in execs' \ execs :
       LET over == {f \in execs' : result[f] # None}
       IN  /\ Cardinality(over) <= MaxRetainedExecs
           /\ Cardinality(over \ dropped') <= MaxRetainedOutputs]_vars

\* pruneLocked forgets for its reasons only, and every launch restores the
\* limits.
RetentionHolds == []RetentionForCause /\ LaunchBoundsRetention

\* The inductive strengthening of the three invariants above, for one execution.

\* How far the call, the goroutine, the result and the cancel function agree.
Lifecycle(e) ==
  /\ worker[e] = "none" <=> ~Known(e)
  /\ worker[e] \in {"none", "running"} <=> result[e] = None
  /\ e \in running <=> call[e] \notin {"idle", "accepted"} /\ worker[e] # "gone"
  /\ worker[e] = "running" => e \in execs

\* The outcome belongs to the call or to onLate, and both know to which.
Ownership(e) ==
  /\ call[e] \in {"idle", "accepted", "stored", "awaiting"} => e \notin handedOff
  /\ call[e] \in {"claimed", "replied", "done"} =>
       \/ got[e] = None /\ e \in handedOff
       \/ got[e] # None /\ got[e] = result[e] /\ e \notin handedOff
  /\ e \in late <=> e \in handedOff /\ result[e] # None

\* The audit lines written so far, exactly.
AuditShape(e) ==
  LET calls == call[e] = "done"
      lates == worker[e] \in {"reported", "gone"} /\ e \in late
  IN  /\ ~calls /\ ~lates => audit[e] = <<>>
      /\ ~calls /\ lates => audit[e] = <<result[e]>>
      /\ calls /\ ~lates => audit[e] = <<IF got[e] = None THEN "running" ELSE got[e]>>
      /\ calls /\ lates => audit[e] \in {<<"running", result[e]>>, <<result[e], "running">>}

IInv ==
  /\ TypeOK
  /\ \A e \in Execs :
       /\ Lifecycle(e) /\ Ownership(e) /\ AuditShape(e)
       /\ answer[e] \in States => answer[e] = result[e]

\* What the counting of pruneLocked rests on: it looks at finitely many launched
\* executions, no two of which started at the same time.
Launched == {e \in Execs : call[e] \notin {"idle", "accepted"}}

StartOrder ==
  /\ IsFiniteSet(Launched)
  /\ \A e \in Launched : startedAt[e] \in 1..launches
  /\ \A e, f \in Launched : startedAt[e] = startedAt[f] => e = f
  /\ \A e \in execs : Known(e)

RetentionInv == StartOrder /\ RetentionForCause

\* The audit log as the ledger of outcomes (OutcomeLedger).
LedgerOf(e) ==
  IF HasFinalLine(e) THEN audit[e][CHOOSE i \in Lines(e) : audit[e][i] \in States]
  ELSE IF call[e] \in {"idle", "accepted", "stored"} THEN "unstarted"
  ELSE "open"

Ledger == INSTANCE OutcomeLedger
            WITH outcome <- result, ledger <- [e \in Execs |-> LedgerOf(e)]

\* The audit log is a ledger of outcomes: every launched command is settled
\* exactly with what became of it, once, and is settled eventually, although
\* the call that launched it may be gone.
ImplementsLedger == Ledger!Spec

\* Its safety part.
ImplementsLedgerSafely == Ledger!SafeSpec
=============================================================================
