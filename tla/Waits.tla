------------------------------- MODULE Waits -------------------------------
(***************************************************************************)
(* Server-side watchers (waits.go, run of waitfor.go, remote_wait_for of   *)
(* mcp_jobs.go): a call plans a wait, starts a goroutine that polls its    *)
(* probe, and answers with the outcome or, after the call budget, with     *)
(* pending; later calls resume or cancel the watcher by its id. The map of *)
(* waits is pruned by everyone who starts or looks up a wait.              *)
(*                                                                         *)
(* One step is one critical section (wm.mu, w.mu), one probe, one select   *)
(* or the close of done. A wait stands for one call that starts one, and   *)
(* the calls with its wait_id, one after the other. What a probe sees is   *)
(* left open.                                                              *)
(***************************************************************************)
EXTENDS Integers, FiniteSets

CONSTANTS
  WaitIds,         \* the waits
  MaxActiveWaits,  \* watchers at work
  MaxKeptWaits,    \* resolved waits kept
  WaitRetention,   \* how long a resolved wait is kept
  MaxTime          \* bound: the clock stops here

ASSUME WaitsAssumption ==
  /\ MaxActiveWaits \in Nat /\ MaxKeptWaits \in Nat
  /\ WaitRetention \in Nat /\ MaxTime \in Nat

Outcomes == {"satisfied", "timed_out", "cancelled", "error"}

VARIABLES
  now,        \* the clock, in the unit of WaitRetention
  starts,     \* number of starts so far; orders StartedAt
  call,       \* the call at work: "idle", "refused", "awaiting", "stopping", "told"
  ctx,        \* the watcher's context: "live", "deadline", "cancelled"
  loop,       \* run: "none", "checking", "resting", "resolving", "published", "closed"
  verdict,    \* what run returned; "none" before
  final,      \* Wait.final or Wait.err; "none" while nil
  startedAt,  \* Wait.StartedAt: position in the order of starts
  endedAt,    \* Wait.endedAt
  waits,      \* WaitManager.waits
  answer,     \* the state last told to the client: "none", "pending", "lost" or an outcome
  down        \* the shutdown has called CancelAll

runVars == <<loop, verdict>>
waitVars == <<final, endedAt>>
vars == <<now, starts, call, ctx, runVars, waitVars, startedAt, waits, answer, down>>

TypeOK ==
  /\ now \in Nat /\ starts \in Nat /\ down \in BOOLEAN
  /\ call \in [WaitIds -> {"idle", "refused", "awaiting", "stopping", "told"}]
  /\ ctx \in [WaitIds -> {"live", "deadline", "cancelled"}]
  /\ loop \in [WaitIds -> {"none", "checking", "resting", "resolving", "published", "closed"}]
  /\ verdict \in [WaitIds -> Outcomes \cup {"none"}]
  /\ final \in [WaitIds -> Outcomes \cup {"none"}]
  /\ startedAt \in [WaitIds -> Nat] /\ endedAt \in [WaitIds -> Nat]
  /\ waits \subseteq WaitIds
  /\ answer \in [WaitIds -> Outcomes \cup {"none", "pending", "lost"}]

Init ==
  /\ now = 0 /\ starts = 0 /\ down = FALSE
  /\ call = [w \in WaitIds |-> "idle"]
  /\ ctx = [w \in WaitIds |-> "live"]
  /\ loop = [w \in WaitIds |-> "none"]
  /\ verdict = [w \in WaitIds |-> "none"]
  /\ final = [w \in WaitIds |-> "none"]
  /\ startedAt = [w \in WaitIds |-> 0] /\ endedAt = [w \in WaitIds |-> 0]
  /\ waits = {}
  /\ answer = [w \in WaitIds |-> "none"]

-----------------------------------------------------------------------------
(* The map of waits.                                                       *)

\* resolved: done is closed.
Resolved(w) == loop[w] = "closed"

\* pruneLocked, first pass.
Young == {w \in waits : Resolved(w) => now - endedAt[w] <= WaitRetention}

\* The resolved waits before w in the order of pruneLocked, newest first.
Newer(w) == {v \in Young : Resolved(v) /\ startedAt[v] > startedAt[w]}

\* pruneLocked: what is left of the map.
PruneLocked == {w \in Young : Resolved(w) => Cardinality(Newer(w)) < MaxKeptWaits}

Active == {w \in PruneLocked : ~Resolved(w)}

-----------------------------------------------------------------------------
(* remote_wait_for without a wait_id.                                      *)

\* planWait fails: a bad condition, target, pattern or path.
PlanFails(w) ==
  /\ call[w] = "idle"
  /\ call' = [call EXCEPT ![w] = "refused"]
  /\ UNCHANGED <<now, starts, ctx, runVars, waitVars, startedAt, waits, answer, down>>

\* Too many active waits. The prune has happened all the same.
StartRefused(w) ==
  /\ call[w] = "idle"
  /\ Cardinality(Active) >= MaxActiveWaits
  /\ call' = [call EXCEPT ![w] = "refused"]
  /\ waits' = PruneLocked
  /\ UNCHANGED <<now, starts, ctx, runVars, waitVars, startedAt, answer, down>>

\* Mutant: one too many.
StartOffByOne(w) ==
  /\ call[w] = "idle"
  /\ Cardinality(Active) <= MaxActiveWaits
  /\ call' = [call EXCEPT ![w] = "awaiting"]
  /\ waits' = PruneLocked \cup {w}
  /\ starts' = starts + 1
  /\ startedAt' = [startedAt EXCEPT ![w] = starts + 1]
  /\ loop' = [loop EXCEPT ![w] = "checking"]
  /\ UNCHANGED <<now, ctx, verdict, waitVars, answer, down>>

Start(w) ==
  /\ call[w] = "idle"
  /\ Cardinality(Active) < MaxActiveWaits
  /\ call' = [call EXCEPT ![w] = "awaiting"]
  /\ waits' = PruneLocked \cup {w}
  /\ starts' = starts + 1
  /\ startedAt' = [startedAt EXCEPT ![w] = starts + 1]
  /\ loop' = [loop EXCEPT ![w] = "checking"]
  /\ UNCHANGED <<now, ctx, verdict, waitVars, answer, down>>

\* Mutant: what run has returned, before the goroutine has stored it.
SnapshotEarly(w) ==
  IF verdict[w] # "none" /\ answer[w] = "none" THEN verdict[w]
  ELSE IF final[w] = "none" THEN "pending" ELSE final[w]

Snapshot(w) == IF final[w] = "none" THEN "pending" ELSE final[w]

\* Await ends when the watcher resolves, after the call budget, or when the
\* connection is gone: at any time, with what is known then.
Answer(w) ==
  /\ call[w] = "awaiting"
  /\ call' = [call EXCEPT ![w] = "told"]
  /\ answer' = [answer EXCEPT ![w] = Snapshot(w)]
  /\ UNCHANGED <<now, starts, ctx, runVars, waitVars, startedAt, waits, down>>

-----------------------------------------------------------------------------
(* remote_wait_for with a wait_id.                                         *)

Resume(w) ==
  /\ call[w] = "told"
  /\ waits' = PruneLocked
  /\ \/ /\ w \in PruneLocked
        /\ call' \in {[call EXCEPT ![w] = "awaiting"], [call EXCEPT ![w] = "stopping"]}
        /\ UNCHANGED answer
     \/ /\ w \notin PruneLocked
        /\ answer' = [answer EXCEPT ![w] = "lost"]
        /\ UNCHANGED call
  /\ UNCHANGED <<now, starts, ctx, runVars, waitVars, startedAt, down>>

\* A context ends once, by its deadline or by a cancel.
Ends(w, how) == IF ctx[w] = "live" THEN how ELSE ctx[w]

\* cancel=true.
CancelWait(w) ==
  /\ call[w] = "stopping"
  /\ call' = [call EXCEPT ![w] = "awaiting"]
  /\ ctx' = [ctx EXCEPT ![w] = Ends(w, "cancelled")]
  /\ UNCHANGED <<now, starts, runVars, waitVars, startedAt, waits, answer, down>>

\* The shutdown stops every active watcher, once. Calls in flight go on.
CancelAll ==
  /\ ~down
  /\ down' = TRUE
  /\ ctx' = [w \in WaitIds |->
               IF w \in waits /\ ~Resolved(w) THEN Ends(w, "cancelled") ELSE ctx[w]]
  /\ UNCHANGED <<now, starts, call, runVars, waitVars, startedAt, waits, answer>>

CallStep(w) ==
  PlanFails(w) \/ StartRefused(w) \/ Start(w) \/ Answer(w) \/ Resume(w) \/ CancelWait(w)

-----------------------------------------------------------------------------
(* The watcher.                                                            *)

DeadlinePasses(w) ==
  /\ loop[w] \in {"checking", "resting"} /\ ctx[w] = "live"
  /\ ctx' = [ctx EXCEPT ![w] = "deadline"]
  /\ UNCHANGED <<now, starts, call, runVars, waitVars, startedAt, waits, answer, down>>

\* One probe: it holds, it fails for good, or the loop goes on.
Check(w) ==
  /\ loop[w] = "checking"
  /\ \/ /\ loop' = [loop EXCEPT ![w] = "resolving"]
        /\ \E v \in {"satisfied", "error"} : verdict' = [verdict EXCEPT ![w] = v]
     \/ /\ loop' = [loop EXCEPT ![w] = "resting"]
        /\ UNCHANGED verdict
  /\ UNCHANGED <<now, starts, call, ctx, waitVars, startedAt, waits, answer, down>>

\* The ticker wins the select, perhaps although the context has ended.
NextCheck(w) ==
  /\ loop[w] = "resting"
  /\ loop' = [loop EXCEPT ![w] = "checking"]
  /\ UNCHANGED <<now, starts, call, ctx, verdict, waitVars, startedAt, waits, answer, down>>

\* Mutant: every end of the context is a timeout.
CtxVerdictTimeout(w) == "timed_out"

CtxVerdict(w) == IF ctx[w] = "deadline" THEN "timed_out" ELSE "cancelled"

\* Mutant: a cancel is not looked at.
CtxDoneTimeoutOnly(w) ==
  /\ loop[w] = "resting" /\ ctx[w] = "deadline"
  /\ loop' = [loop EXCEPT ![w] = "resolving"]
  /\ verdict' = [verdict EXCEPT ![w] = CtxVerdict(w)]
  /\ UNCHANGED <<now, starts, call, ctx, waitVars, startedAt, waits, answer, down>>

CtxDone(w) ==
  /\ loop[w] = "resting" /\ ctx[w] # "live"
  /\ loop' = [loop EXCEPT ![w] = "resolving"]
  /\ verdict' = [verdict EXCEPT ![w] = CtxVerdict(w)]
  /\ UNCHANGED <<now, starts, call, ctx, waitVars, startedAt, waits, answer, down>>

Publish(w) ==
  /\ loop[w] = "resolving"
  /\ loop' = [loop EXCEPT ![w] = "published"]
  /\ final' = [final EXCEPT ![w] = verdict[w]]
  /\ endedAt' = [endedAt EXCEPT ![w] = now]
  /\ UNCHANGED <<now, starts, call, ctx, verdict, startedAt, waits, answer, down>>

CloseDone(w) ==
  /\ loop[w] = "published"
  /\ loop' = [loop EXCEPT ![w] = "closed"]
  /\ UNCHANGED <<now, starts, call, ctx, verdict, waitVars, startedAt, waits, answer, down>>

WatchStep(w) ==
  DeadlinePasses(w) \/ Check(w) \/ NextCheck(w) \/ CtxDone(w) \/ Publish(w) \/ CloseDone(w)

Tick ==
  /\ now < MaxTime
  /\ now' = now + 1
  /\ UNCHANGED <<starts, call, ctx, runVars, waitVars, startedAt, waits, answer, down>>

Next ==
  \/ \E w \in WaitIds : CallStep(w) \/ WatchStep(w)
  \/ CancelAll
  \/ Tick

Spec == Init /\ [][Next]_vars

\* The Go runtime runs the watcher, every probe returns (its work is bounded or
\* bound to the context), and a select that finds the context ended and the
\* ticker ready, again and again, does not always take the ticker. Nothing is
\* assumed of deadlines or of clients.
Fairness ==
  \A w \in WaitIds :
    /\ WF_vars(Check(w)) /\ WF_vars(Publish(w)) /\ WF_vars(CloseDone(w))
    /\ SF_vars(CtxDone(w))

FairSpec == Spec /\ Fairness

-----------------------------------------------------------------------------
(* Properties.                                                             *)

Running == {w \in WaitIds : loop[w] \notin {"none", "closed"}}

\* Start's limit and pruneLocked: never more than MaxActiveWaits watchers run,
\* and each can be resumed and cancelled, whatever is pruned while watchers
\* resolve and others start.
RunningBounded == Cardinality(Running) <= MaxActiveWaits /\ Running \subseteq waits

\* snapshot: the outcome a client was told is never taken back nor replaced;
\* it can only be forgotten. A wait that is forgotten stays so.
AnswersNeverRegress ==
  [][\A w \in WaitIds : /\ answer[w] \in Outcomes => answer'[w] \in {answer[w], "lost"}
                        /\ answer[w] = "lost" => answer'[w] = "lost"]_vars

\* run and snapshot: a wait is told to be cancelled only after a cancel, and to
\* be timed out only after its deadline; the first of the two decides.
OutcomeNamesCause ==
  \A w \in WaitIds : /\ answer[w] = "cancelled" => ctx[w] = "cancelled"
                     /\ answer[w] = "timed_out" => ctx[w] = "deadline"

\* pruneLocked: a wait is forgotten only after its outcome can be read, and
\* only for its age or for MaxKeptWaits resolved waits that started later.
ForgottenForCause ==
  [][\A w \in waits \ waits' :
       /\ final[w] # "none" /\ loop[w] = "closed"
       /\ \/ now - endedAt[w] > WaitRetention
          \/ \E S \in SUBSET (waits \ {w}) :
               /\ Cardinality(S) = MaxKeptWaits
               /\ \A v \in S : final[v] # "none" /\ startedAt[v] > startedAt[w]]_vars

\* What a client was told of a wait stays true, and the wait is there to be
\* asked about until its age or newer ones push it out (snapshot, pruneLocked).
ToldForGood == AnswersNeverRegress /\ ForgottenForCause

\* Why the invariants hold. The map has waits that started only, the result is
\* that of run, and what was told is the result.
Started(w) ==
  /\ call[w] \in {"idle", "refused"} <=> loop[w] = "none"
  /\ loop[w] = "none" => w \notin waits /\ answer[w] = "none"
  /\ verdict[w] # "none" <=> loop[w] \in {"resolving", "published", "closed"}
  /\ final[w] = (IF loop[w] \in {"published", "closed"} THEN verdict[w] ELSE "none")
  /\ verdict[w] = "cancelled" => ctx[w] = "cancelled"
  /\ verdict[w] = "timed_out" => ctx[w] = "deadline"
  /\ answer[w] \in Outcomes => answer[w] = final[w]
  /\ answer[w] = "lost" => w \notin waits /\ call[w] = "told"

IInv ==
  /\ TypeOK
  /\ RunningBounded
  /\ IsFiniteSet(Running)
  /\ \A w \in WaitIds : Started(w)

\* Cancel, "stops the watcher; it then resolves": once its context has ended,
\* by remote_wait_for, by the shutdown or by its deadline, a watcher resolves.
StoppedResolves ==
  \A w \in WaitIds : (loop[w] # "none" /\ ctx[w] # "live") ~> Resolved(w)
=============================================================================
