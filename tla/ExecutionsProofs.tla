-------------------------- MODULE ExecutionsProofs --------------------------
(***************************************************************************)
(* The safety of the detached executions for any number of executions and  *)
(* any retention limits: IInv is inductive (one lemma per action), and     *)
(* gives the invariants and the action property; with the order of starts  *)
(* it gives the retention limits, and the audit log refines the ledger of  *)
(* outcomes.  The shutdown, which composes with them, comes last.          *)
(***************************************************************************)
EXTENDS Shutdown, SequenceTheorems, Counting

USE DEF callVars, regVars, exVars, toolVars

\* The server starts with no execution.
LEMMA InitInv == Init => IInv
  BY ConstantsAssumption DEF Init, IInv, TypeOK, Lifecycle, Ownership, AuditShape, Known

\* The second line of a log of two.
LEMMA AppendPair ==
  ASSUME NEW S, NEW a \in S, NEW b \in S
  PROVE  Append(<<a>>, b) = <<a, b>>
<1>1. <<a>> \in Seq(S) /\ Len(<<a>>) = 1 /\ <<a>>[1] = a
  OBVIOUS
<1>2. Append(<<a>>, b) \in Seq(S) /\ Len(Append(<<a>>, b)) = 2
  BY <1>1
<1>3. Append(<<a>>, b)[1] = a /\ Append(<<a>>, b)[2] = b
  BY <1>1
<1>4. <<a, b>> \in Seq(S) /\ Len(<<a, b>>) = 2 /\ <<a, b>>[1] = a /\ <<a, b>>[2] = b
  OBVIOUS
<1>5. \A i \in 1..2 : Append(<<a>>, b)[i] = <<a, b>>[i]
  BY <1>3, <1>4
<1> QED
  BY <1>2, <1>4, <1>5, SeqEqual

\* net/http hands over a request.
LEMMA AcceptPreserves ==
  ASSUME IInv, NEW x \in Execs, Accept(x)
  PROVE  IInv'
<1>1. TypeOK'
  BY ConstantsAssumption DEF IInv, TypeOK, Accept
<1>2. ASSUME NEW e \in Execs PROVE Lifecycle(e)' /\ Ownership(e)'
  BY <1>2, ConstantsAssumption DEF
        IInv, TypeOK, Lifecycle, Ownership, Known, Accept
<1>3. ASSUME NEW e \in Execs PROVE AuditShape(e)'
  BY <1>3, ConstantsAssumption DEF
        IInv, TypeOK, Lifecycle, Ownership, AuditShape, Known, Accept
<1>4. ASSUME NEW e \in Execs PROVE (answer[e] \in States => answer[e] = result[e])'
  BY <1>4, ConstantsAssumption DEF
        IInv, TypeOK, Lifecycle, Ownership, Known, Accept
<1> QED
  BY <1>1, <1>2, <1>3, <1>4 DEF IInv

\* Launch stamps the execution and stores its cancel function.
LEMMA LaunchStorePreserves ==
  ASSUME IInv, NEW x \in Execs, LaunchStore(x)
  PROVE  IInv'
<1>1. TypeOK'
  BY ConstantsAssumption DEF IInv, TypeOK, LaunchStore
<1>2. ASSUME NEW e \in Execs PROVE Lifecycle(e)' /\ Ownership(e)'
  BY <1>2, ConstantsAssumption DEF
        IInv, TypeOK, Lifecycle, Ownership, Known, LaunchStore
<1>3. ASSUME NEW e \in Execs PROVE AuditShape(e)'
  BY <1>3, ConstantsAssumption DEF
        IInv, TypeOK, Lifecycle, Ownership, AuditShape, Known, LaunchStore
<1>4. ASSUME NEW e \in Execs PROVE (answer[e] \in States => answer[e] = result[e])'
  BY <1>4, ConstantsAssumption DEF
        IInv, TypeOK, Lifecycle, Ownership, Known, LaunchStore
<1> QED
  BY <1>1, <1>2, <1>3, <1>4 DEF IInv

\* Launch registers the execution and starts the goroutine; the prune before it
\* touches no execution without a result.
LEMMA LaunchRegisterPreserves ==
  ASSUME IInv, NEW x \in Execs, LaunchRegister(x)
  PROVE  IInv'
<1>1. TypeOK'
  BY ConstantsAssumption DEF IInv, TypeOK, LaunchRegister,
        PruneLocked, Listed, Finished, Overflowing
<1>2. ASSUME NEW e \in Execs PROVE Lifecycle(e)' /\ Ownership(e)'
  BY <1>2, ConstantsAssumption DEF
        IInv, TypeOK, Lifecycle, Ownership, Known, LaunchRegister, PruneLocked,
        Listed, Finished
<1>3. ASSUME NEW e \in Execs PROVE AuditShape(e)'
  BY <1>3, ConstantsAssumption DEF
        IInv, TypeOK, Lifecycle, Ownership, AuditShape, Known, LaunchRegister,
        PruneLocked, Listed, Finished
<1>4. ASSUME NEW e \in Execs PROVE (answer[e] \in States => answer[e] = result[e])'
  BY <1>4, ConstantsAssumption DEF
        IInv, TypeOK, Lifecycle, Ownership, Known, LaunchRegister, PruneLocked,
        Listed, Finished
<1> QED
  BY <1>1, <1>2, <1>3, <1>4 DEF IInv

\* claim: the result is seen or the execution is handed off, never both.
LEMMA ClaimPreserves ==
  ASSUME IInv, NEW x \in Execs, Claim(x)
  PROVE  IInv'
<1>1. TypeOK'
  BY ConstantsAssumption DEF IInv, TypeOK, Claim
<1>2. ASSUME NEW e \in Execs PROVE Lifecycle(e)' /\ Ownership(e)'
  BY <1>2, ConstantsAssumption DEF
        IInv, TypeOK, Lifecycle, Ownership, Known, Claim
<1>3. ASSUME NEW e \in Execs PROVE AuditShape(e)'
  BY <1>3, ConstantsAssumption DEF
        IInv, TypeOK, Lifecycle, Ownership, AuditShape, Known, Claim
<1>4. ASSUME NEW e \in Execs PROVE (answer[e] \in States => answer[e] = result[e])'
  BY <1>4, ConstantsAssumption DEF
        IInv, TypeOK, Lifecycle, Ownership, Known, Claim
<1> QED
  BY <1>1, <1>2, <1>3, <1>4 DEF IInv

\* The call computes its answer, with info() if it was handed off.
LEMMA CallReplyPreserves ==
  ASSUME IInv, NEW x \in Execs, CallReply(x)
  PROVE  IInv'
<1>1. TypeOK'
  BY ConstantsAssumption DEF IInv, TypeOK, CallReply, Info
<1>2. ASSUME NEW e \in Execs PROVE Lifecycle(e)' /\ Ownership(e)'
  BY <1>2, ConstantsAssumption DEF
        IInv, TypeOK, Lifecycle, Ownership, Known, CallReply, Info
<1>3. ASSUME NEW e \in Execs PROVE AuditShape(e)'
  BY <1>3, ConstantsAssumption DEF
        IInv, TypeOK, Lifecycle, Ownership, AuditShape, Known, CallReply, Info
<1>4. ASSUME NEW e \in Execs PROVE (answer[e] \in States => answer[e] = result[e])'
  BY <1>4, ConstantsAssumption DEF
        IInv, TypeOK, Lifecycle, Ownership, Known, CallReply, Info
<1> QED
  BY <1>1, <1>2, <1>3, <1>4 DEF IInv

\* The call writes its line.
LEMMA CallAuditPreserves ==
  ASSUME IInv, NEW x \in Execs, CallAudit(x)
  PROVE  IInv'
<1>1. TypeOK'
  BY ConstantsAssumption DEF IInv, TypeOK, CallAudit
<1>2. ASSUME NEW e \in Execs PROVE Lifecycle(e)' /\ Ownership(e)'
  BY <1>2, ConstantsAssumption DEF
        IInv, TypeOK, Lifecycle, Ownership, Known, CallAudit
<1>3. ASSUME NEW e \in Execs PROVE AuditShape(e)'
  <2>1. CASE e # x
    BY <1>3, <2>1 DEF IInv, TypeOK, AuditShape, CallAudit
  <2>2. CASE e = x
    <3>1. audit'[x] = Append(audit[x], IF got[x] = None THEN "running" ELSE got[x])
      BY DEF IInv, TypeOK, CallAudit
    <3>2. call[x] = "replied" /\ call'[x] = "done"
      BY DEF IInv, TypeOK, CallAudit
    <3>3. CASE worker[x] \in {"reported", "gone"} /\ x \in late
      <4>1. got[x] = None /\ audit[x] = <<result[x]>>
        BY <3>2, <3>3 DEF IInv, Ownership, AuditShape
      <4>2. audit'[x] = Append(<<result[x]>>, "running")
        BY <3>1, <4>1
      <4>3. result[x] \in States
        BY <3>3 DEF IInv, TypeOK, Ownership
      <4>4. audit'[x] = <<result[x], "running">>
        BY <4>2, <4>3, result[x] \in States \cup {"running"}, "running" \in States \cup {"running"},
           AppendPair
      <4> QED
        BY <2>2, <3>2, <3>3, <4>4 DEF AuditShape, CallAudit
    <3>4. CASE ~(worker[x] \in {"reported", "gone"} /\ x \in late)
      <4>1. audit[x] = <<>>
        BY <3>2, <3>4 DEF IInv, AuditShape
      <4>2. audit'[x] = <<IF got[x] = None THEN "running" ELSE got[x]>>
        BY <3>1, <4>1
      <4> QED
        BY <2>2, <3>2, <3>4, <4>2 DEF AuditShape, CallAudit
    <3> QED
      BY <3>3, <3>4
  <2> QED
    BY <2>1, <2>2
<1>4. ASSUME NEW e \in Execs PROVE (answer[e] \in States => answer[e] = result[e])'
  BY <1>4, ConstantsAssumption DEF
        IInv, TypeOK, Lifecycle, Ownership, Known, CallAudit
<1> QED
  BY <1>1, <1>2, <1>3, <1>4 DEF IInv

\* The goroutine publishes the result and reads handedOff under the same lock.
LEMMA WorkerPublishPreserves ==
  ASSUME IInv, NEW x \in Execs, WorkerPublish(x)
  PROVE  IInv'
<1>1. TypeOK'
  BY ConstantsAssumption DEF IInv, TypeOK, WorkerPublish
<1>2. ASSUME NEW e \in Execs PROVE Lifecycle(e)' /\ Ownership(e)'
  BY <1>2, ConstantsAssumption DEF
        IInv, TypeOK, Lifecycle, Ownership, Known, WorkerPublish
<1>3. ASSUME NEW e \in Execs PROVE AuditShape(e)'
  BY <1>3, ConstantsAssumption DEF
        IInv, TypeOK, Lifecycle, Ownership, AuditShape, Known, WorkerPublish
<1>4. ASSUME NEW e \in Execs PROVE (answer[e] \in States => answer[e] = result[e])'
  BY <1>4, ConstantsAssumption DEF
        IInv, TypeOK, Lifecycle, Ownership, Known, WorkerPublish
<1> QED
  BY <1>1, <1>2, <1>3, <1>4 DEF IInv

\* onLate writes the final line of a handed-off execution.
LEMMA WorkerReportPreserves ==
  ASSUME IInv, NEW x \in Execs, WorkerReport(x)
  PROVE  IInv'
<1>6. result[x] \in States
  BY DEF IInv, TypeOK, Lifecycle, WorkerReport
<1>1. TypeOK'
  BY <1>6, ConstantsAssumption DEF IInv, TypeOK, WorkerReport
<1>2. ASSUME NEW e \in Execs PROVE Lifecycle(e)' /\ Ownership(e)'
  BY <1>2, ConstantsAssumption DEF
        IInv, TypeOK, Lifecycle, Ownership, Known, WorkerReport
<1>3. ASSUME NEW e \in Execs PROVE AuditShape(e)'
  <2>1. CASE e # x
    BY <1>3, <2>1 DEF IInv, TypeOK, AuditShape, WorkerReport
  <2>2. CASE e = x /\ x \notin late
    BY <2>2 DEF IInv, TypeOK, AuditShape, WorkerReport
  <2>3. CASE e = x /\ x \in late
    <3>1. audit'[x] = Append(audit[x], result[x]) /\ got[x] = None
      BY <2>3 DEF IInv, TypeOK, Ownership, WorkerReport
    <3>2. worker[x] = "published" /\ worker'[x] = "reported" /\ late' = late
      BY DEF IInv, TypeOK, WorkerReport
    <3>3. audit[x] = IF call[x] = "done" THEN <<"running">> ELSE <<>>
      BY <3>1, <3>2 DEF IInv, AuditShape
    <3>4. audit'[x] = IF call[x] = "done" THEN <<"running", result[x]>> ELSE <<result[x]>>
      BY <3>1, <3>3
    <3> QED
      BY <2>3, <3>2, <3>4 DEF AuditShape, WorkerReport
  <2> QED
    BY <2>1, <2>2, <2>3
<1>4. ASSUME NEW e \in Execs PROVE (answer[e] \in States => answer[e] = result[e])'
  BY <1>4, ConstantsAssumption DEF
        IInv, TypeOK, Lifecycle, Ownership, Known, WorkerReport
<1> QED
  BY <1>1, <1>2, <1>3, <1>4 DEF IInv

\* running.Delete, last.
LEMMA WorkerRetirePreserves ==
  ASSUME IInv, NEW x \in Execs, WorkerRetire(x)
  PROVE  IInv'
<1>1. TypeOK'
  BY ConstantsAssumption DEF IInv, TypeOK, WorkerRetire
<1>2. ASSUME NEW e \in Execs PROVE Lifecycle(e)' /\ Ownership(e)'
  BY <1>2, ConstantsAssumption DEF
        IInv, TypeOK, Lifecycle, Ownership, Known, WorkerRetire
<1>3. ASSUME NEW e \in Execs PROVE AuditShape(e)'
  BY <1>3, ConstantsAssumption DEF
        IInv, TypeOK, Lifecycle, Ownership, AuditShape, Known, WorkerRetire
<1>4. ASSUME NEW e \in Execs PROVE (answer[e] \in States => answer[e] = result[e])'
  BY <1>4, ConstantsAssumption DEF
        IInv, TypeOK, Lifecycle, Ownership, Known, WorkerRetire
<1> QED
  BY <1>1, <1>2, <1>3, <1>4 DEF IInv

\* remote_cancel looks the execution up.
LEMMA CancelLookupPreserves ==
  ASSUME IInv, NEW x \in Execs, CancelLookup(x)
  PROVE  IInv'
<1>6. /\ execs' \subseteq Execs
      /\ dropped' \subseteq Execs
      /\ \A e \in Execs : e \in execs /\ result[e] = None => e \in execs'
  BY DEF IInv, TypeOK, CancelLookup, PruneLocked, Listed, Finished, Overflowing
<1>5. /\ cancelled' \subseteq Execs
      /\ cancelling' \in [Execs -> {"idle", "live", "fired"}]
      /\ answer' = answer \/ (result[x] # None /\ answer' = [answer EXCEPT ![x] = result[x]])
  <2>1. CASE x \notin execs'
    BY <2>1 DEF IInv, TypeOK, CancelLookup, Cancel
  <2>2. CASE x \in execs' /\ result[x] = None
    BY <2>2 DEF IInv, TypeOK, CancelLookup
  <2>3. CASE x \in execs' /\ result[x] # None
    BY <2>3 DEF IInv, TypeOK, CancelLookup
  <2> QED
    BY <2>1, <2>2, <2>3
<1>1. TypeOK'
  BY <1>6, <1>5, ConstantsAssumption DEF IInv, TypeOK, CancelLookup
<1>2. ASSUME NEW e \in Execs PROVE Lifecycle(e)' /\ Ownership(e)'
  BY <1>6, <1>2 DEF IInv, Lifecycle, Ownership, Known, CancelLookup
<1>3. ASSUME NEW e \in Execs PROVE AuditShape(e)'
  BY <1>3 DEF IInv, AuditShape, CancelLookup
<1>4. ASSUME NEW e \in Execs PROVE (answer[e] \in States => answer[e] = result[e])'
  <2>1. answer'[e] \in {answer[e], result[e]}
    BY <1>5, <1>4 DEF IInv, TypeOK
  <2>2. result' = result
    BY DEF CancelLookup
  <2> QED
    BY <2>1, <2>2, <1>4 DEF IInv
<1> QED
  BY <1>1, <1>2, <1>3, <1>4 DEF IInv

\* remote_cancel calls the cancel function.
LEMMA CancelFirePreserves ==
  ASSUME IInv, NEW x \in Execs, CancelFire(x)
  PROVE  IInv'
<1>1. TypeOK'
  BY ConstantsAssumption DEF IInv, TypeOK, CancelFire, Cancel
<1>2. ASSUME NEW e \in Execs PROVE Lifecycle(e)' /\ Ownership(e)'
  BY <1>2, ConstantsAssumption DEF
        IInv, TypeOK, Lifecycle, Ownership, Known, CancelFire, Cancel
<1>3. ASSUME NEW e \in Execs PROVE AuditShape(e)'
  BY <1>3, ConstantsAssumption DEF
        IInv, TypeOK, Lifecycle, Ownership, AuditShape, Known, CancelFire, Cancel
<1>4. ASSUME NEW e \in Execs PROVE (answer[e] \in States => answer[e] = result[e])'
  BY <1>4, ConstantsAssumption DEF
        IInv, TypeOK, Lifecycle, Ownership, Known, CancelFire, Cancel
<1> QED
  BY <1>1, <1>2, <1>3, <1>4 DEF IInv

\* remote_cancel answers info().
LEMMA CancelReplyPreserves ==
  ASSUME IInv, NEW x \in Execs, CancelReply(x)
  PROVE  IInv'
<1>1. TypeOK'
  BY ConstantsAssumption DEF IInv, TypeOK, CancelReply, Info
<1>2. ASSUME NEW e \in Execs PROVE Lifecycle(e)' /\ Ownership(e)'
  BY <1>2, ConstantsAssumption DEF
        IInv, TypeOK, Lifecycle, Ownership, Known, CancelReply, Info
<1>3. ASSUME NEW e \in Execs PROVE AuditShape(e)'
  BY <1>3, ConstantsAssumption DEF
        IInv, TypeOK, Lifecycle, Ownership, AuditShape, Known, CancelReply, Info
<1>4. ASSUME NEW e \in Execs PROVE (answer[e] \in States => answer[e] = result[e])'
  BY <1>4, ConstantsAssumption DEF
        IInv, TypeOK, Lifecycle, Ownership, Known, CancelReply, Info
<1> QED
  BY <1>1, <1>2, <1>3, <1>4 DEF IInv

\* remote_execution_result looks the execution up.
LEMMA FetchLookupPreserves ==
  ASSUME IInv, NEW x \in Execs, FetchLookup(x)
  PROVE  IInv'
<1>1. TypeOK'
  BY ConstantsAssumption DEF IInv, TypeOK, FetchLookup, PruneLocked,
        Listed, Finished, Overflowing
<1>2. ASSUME NEW e \in Execs PROVE Lifecycle(e)' /\ Ownership(e)'
  BY <1>2, ConstantsAssumption DEF
        IInv, TypeOK, Lifecycle, Ownership, Known, FetchLookup, PruneLocked, Listed,
        Finished
<1>3. ASSUME NEW e \in Execs PROVE AuditShape(e)'
  BY <1>3, ConstantsAssumption DEF
        IInv, TypeOK, Lifecycle, Ownership, AuditShape, Known, FetchLookup,
        PruneLocked, Listed, Finished
<1>4. ASSUME NEW e \in Execs PROVE (answer[e] \in States => answer[e] = result[e])'
  BY <1>4, ConstantsAssumption DEF
        IInv, TypeOK, Lifecycle, Ownership, Known, FetchLookup, PruneLocked, Listed,
        Finished
<1> QED
  BY <1>1, <1>2, <1>3, <1>4 DEF IInv

\* remote_execution_result has waited.
LEMMA FetchAwaitPreserves ==
  ASSUME IInv, NEW x \in Execs, FetchAwait(x)
  PROVE  IInv'
<1>1. TypeOK'
  BY ConstantsAssumption DEF IInv, TypeOK, FetchAwait
<1>2. ASSUME NEW e \in Execs PROVE Lifecycle(e)' /\ Ownership(e)'
  BY <1>2, ConstantsAssumption DEF
        IInv, TypeOK, Lifecycle, Ownership, Known, FetchAwait
<1>3. ASSUME NEW e \in Execs PROVE AuditShape(e)'
  BY <1>3, ConstantsAssumption DEF
        IInv, TypeOK, Lifecycle, Ownership, AuditShape, Known, FetchAwait
<1>4. ASSUME NEW e \in Execs PROVE (answer[e] \in States => answer[e] = result[e])'
  BY <1>4, ConstantsAssumption DEF
        IInv, TypeOK, Lifecycle, Ownership, Known, FetchAwait
<1> QED
  BY <1>1, <1>2, <1>3, <1>4 DEF IInv

\* info() of a pending fetch or of a list entry.
LEMMA FetchPendingPreserves ==
  ASSUME IInv, NEW x \in Execs, FetchPending(x)
  PROVE  IInv'
<1>1. TypeOK'
  BY ConstantsAssumption DEF IInv, TypeOK, FetchPending, Info
<1>2. ASSUME NEW e \in Execs PROVE Lifecycle(e)' /\ Ownership(e)'
  BY <1>2, ConstantsAssumption DEF
        IInv, TypeOK, Lifecycle, Ownership, Known, FetchPending, Info
<1>3. ASSUME NEW e \in Execs PROVE AuditShape(e)'
  BY <1>3, ConstantsAssumption DEF
        IInv, TypeOK, Lifecycle, Ownership, AuditShape, Known, FetchPending, Info
<1>4. ASSUME NEW e \in Execs PROVE (answer[e] \in States => answer[e] = result[e])'
  BY <1>4, ConstantsAssumption DEF
        IInv, TypeOK, Lifecycle, Ownership, Known, FetchPending, Info
<1> QED
  BY <1>1, <1>2, <1>3, <1>4 DEF IInv

\* remote_execution_result lists.
LEMMA ListPreserves ==
  ASSUME IInv, List
  PROVE  IInv'
<1>1. TypeOK'
  BY ConstantsAssumption DEF IInv, TypeOK, List, PruneLocked, Listed,
        Finished, Overflowing
<1>2. ASSUME NEW e \in Execs PROVE Lifecycle(e)' /\ Ownership(e)'
  BY <1>2, ConstantsAssumption DEF
        IInv, TypeOK, Lifecycle, Ownership, Known, List, PruneLocked, Listed,
        Finished
<1>3. ASSUME NEW e \in Execs PROVE AuditShape(e)'
  BY <1>3, ConstantsAssumption DEF
        IInv, TypeOK, Lifecycle, Ownership, AuditShape, Known, List, PruneLocked,
        Listed, Finished
<1>4. ASSUME NEW e \in Execs PROVE (answer[e] \in States => answer[e] = result[e])'
  BY <1>4, ConstantsAssumption DEF
        IInv, TypeOK, Lifecycle, Ownership, Known, List, PruneLocked, Listed,
        Finished
<1> QED
  BY <1>1, <1>2, <1>3, <1>4 DEF IInv

\* Time passes.
LEMMA TickPreserves ==
  ASSUME IInv, Tick
  PROVE  IInv'
<1>1. TypeOK'
  BY ConstantsAssumption DEF IInv, TypeOK, Tick
<1>2. ASSUME NEW e \in Execs PROVE Lifecycle(e)' /\ Ownership(e)'
  BY <1>2, ConstantsAssumption DEF
        IInv, TypeOK, Lifecycle, Ownership, Known, Tick
<1>3. ASSUME NEW e \in Execs PROVE AuditShape(e)'
  BY <1>3, ConstantsAssumption DEF
        IInv, TypeOK, Lifecycle, Ownership, AuditShape, Known, Tick
<1>4. ASSUME NEW e \in Execs PROVE (answer[e] \in States => answer[e] = result[e])'
  BY <1>4, ConstantsAssumption DEF
        IInv, TypeOK, Lifecycle, Ownership, Known, Tick
<1> QED
  BY <1>1, <1>2, <1>3, <1>4 DEF IInv
\* Every step of the server and of its clients preserves the invariant.
LEMMA NextPreserves == IInv /\ [Next]_vars => IInv'
<1> SUFFICES ASSUME IInv, [Next]_vars PROVE IInv'
  OBVIOUS
<1>1. CASE \E x \in Execs : Accept(x) \/ CallStep(x)
  BY <1>1, AcceptPreserves, LaunchStorePreserves, LaunchRegisterPreserves, ClaimPreserves,
     CallReplyPreserves, CallAuditPreserves DEF CallStep
<1>2. CASE \E x \in Execs : WorkerStep(x)
  BY <1>2, WorkerPublishPreserves, WorkerReportPreserves, WorkerRetirePreserves DEF WorkerStep
<1>3. CASE \E x \in Execs : ToolStep(x)
  BY <1>3, CancelLookupPreserves, CancelFirePreserves, CancelReplyPreserves,
     FetchLookupPreserves, FetchAwaitPreserves, FetchPendingPreserves DEF ToolStep
<1>4. CASE List \/ Tick
  BY <1>4, ListPreserves, TickPreserves
<1>5. CASE UNCHANGED vars
  BY <1>5 DEF vars, IInv, TypeOK, Lifecycle, Ownership, AuditShape, Known
<1> QED
  BY <1>1, <1>2, <1>3, <1>4, <1>5 DEF Next

\* The inductive invariant holds of the server.
THEOREM Inductive == Spec => []IInv
  BY InitInv, NextPreserves, PTL DEF Spec

\* The state of the executions always has its type.
THEOREM TypeCorrect == Spec => []TypeOK
<1>1. IInv => TypeOK
  BY DEF IInv
<1> QED
  BY <1>1, Inductive, PTL

\* The shape of the log leaves room for one final line, the outcome.
LEMMA OnceFromIInv == IInv => OutcomeReportedOnce
<1> SUFFICES ASSUME IInv, NEW e \in Execs
             PROVE /\ \A i, j \in Lines(e) :
                        audit[e][i] \in States /\ audit[e][j] \in States => i = j
                   /\ \A i \in Lines(e) : audit[e][i] \in {"running", result[e]}
                   /\ call[e] = "done" /\ worker[e] \in {"reported", "gone"} =>
                        HasFinalLine(e)
  BY DEF OutcomeReportedOnce
<1> DEFINE calls == call[e] = "done"
           lates == worker[e] \in {"reported", "gone"} /\ e \in late
<1>1. "running" \notin States /\ "running" # None /\ None \notin States
  BY ConstantsAssumption
<1>2. result[e] \in States \cup {None} /\ got[e] \in States \cup {None}
  BY DEF IInv, TypeOK
<1>3. worker[e] \in {"reported", "gone"} => result[e] \in States
  BY <1>2 DEF IInv, Lifecycle
<1>4. calls /\ worker[e] \in {"reported", "gone"} /\ ~lates => got[e] \in States
  BY <1>2, <1>3 DEF IInv, Ownership
<1>5. calls /\ got[e] # None => got[e] = result[e]
  BY DEF IInv, Ownership
<1>6. CASE ~calls /\ ~lates
  BY <1>6 DEF Lines, IInv, AuditShape
<1>7. CASE ~calls /\ lates
  <2>1. audit[e] = <<result[e]>>
    BY <1>7 DEF IInv, AuditShape
  <2> QED
    BY <1>3, <1>7, <2>1 DEF Lines, HasFinalLine
<1>8. CASE calls /\ ~lates
  <2>1. audit[e] = <<IF got[e] = None THEN "running" ELSE got[e]>>
    BY <1>8 DEF IInv, AuditShape
  <2>2. PICK s \in {"running", result[e]} :
          audit[e] = <<s>> /\ (worker[e] \in {"reported", "gone"} => s \in States)
    <3>1. CASE got[e] = None
      BY <1>1, <1>4, <1>8, <2>1, <3>1
    <3>2. CASE got[e] # None
      BY <1>2, <1>5, <1>8, <2>1, <3>2
    <3> QED
      BY <3>1, <3>2
  <2> QED
    BY <1>8, <2>2 DEF Lines, HasFinalLine
<1>9. CASE calls /\ lates
  <2>1. audit[e] \in {<<"running", result[e]>>, <<result[e], "running">>}
    BY <1>9 DEF IInv, AuditShape
  <2> QED
    BY <1>1, <1>3, <1>9, <2>1 DEF Lines, HasFinalLine
<1> QED
  BY <1>6, <1>7, <1>8, <1>9

\* However the call and the goroutine interleave, exactly one of them reports
\* the outcome, and reports what the command returned (claim's comment).
THEOREM ReportedOnce == Spec => []OutcomeReportedOnce
  BY OnceFromIInv, Inductive, PTL

\* No prune hides a running command, and its cancel function is in place for
\* as long as it runs.
THEOREM Reachable == Spec => []RunningReachable
<1>1. IInv => RunningReachable
  BY DEF IInv, TypeOK, Lifecycle, Known, RunningReachable
<1> QED
  BY <1>1, Inductive, PTL

\* A handed-off execution that has left the map of running executions has its
\* final audit line, so a shutdown that waits for the map loses none.
THEOREM DrainAudited == Spec => []DrainImpliesAudited
<1>1. IInv => DrainImpliesAudited
  <2> SUFFICES ASSUME IInv, NEW e \in handedOff, e \notin running
               PROVE HasFinalLine(e)
    BY DEF DrainImpliesAudited
  <2>1. e \in Execs /\ worker[e] = "gone" /\ result[e] \in States /\ e \in late
    BY DEF IInv, TypeOK, Lifecycle, Ownership, Known
  <2>2. audit[e] \in {<<result[e]>>, <<"running", result[e]>>, <<result[e], "running">>}
    BY <2>1 DEF IInv, AuditShape
  <2> QED
    BY <2>1, <2>2 DEF HasFinalLine, Lines
<1> QED
  BY <1>1, Inductive, PTL

\* No reply, whoever computes it, takes back an outcome a client was told.
THEOREM NeverRegress == Spec => AnswersNeverRegress
<1>1. IInv /\ IInv' /\ [Next]_vars =>
        [\A e \in Execs : answer[e] \in States => answer'[e] = answer[e]]_vars
  <2> SUFFICES ASSUME IInv, IInv', [Next]_vars, NEW e \in Execs, answer[e] \in States
               PROVE  answer'[e] = answer[e]
    OBVIOUS
  <2>1. result[e] = answer[e] /\ worker[e] \notin {"none", "running"}
    BY ConstantsAssumption DEF IInv, Lifecycle
  <2>2. CASE \E x \in Execs : Accept(x) \/ CallStep(x)
    BY <2>1, <2>2, ConstantsAssumption DEF IInv, TypeOK, Ownership, Info, CallStep,
      Accept, LaunchStore, LaunchRegister, Claim, CallReply, CallAudit
  <2>3. CASE \E x \in Execs : WorkerStep(x)
    BY <2>3 DEF WorkerStep, WorkerPublish, WorkerReport, WorkerRetire
  <2>4. CASE \E x \in Execs : CancelLookup(x)
    <3>1. PICK x \in Execs : CancelLookup(x)
      BY <2>4
    <3>2. UNCHANGED answer \/ answer' = [answer EXCEPT ![x] = result[x]]
      <4>1. CASE x \notin execs'
        BY <3>1, <4>1 DEF CancelLookup
      <4>2. CASE x \in execs' /\ result[x] = None
        BY <3>1, <4>2 DEF CancelLookup
      <4>3. CASE x \in execs' /\ result[x] # None
        BY <3>1, <4>3 DEF CancelLookup
      <4> QED
        BY <4>1, <4>2, <4>3
    <3> QED
      BY <2>1, <3>2 DEF IInv, TypeOK
  <2>5. CASE \E x \in Execs : CancelFire(x) \/ CancelReply(x)
    BY <2>1, <2>5, ConstantsAssumption DEF IInv, TypeOK, Info, CancelFire, CancelReply
  <2>6. CASE \E x \in Execs : FetchLookup(x) \/ FetchAwait(x) \/ FetchPending(x)
    BY <2>1, <2>6, ConstantsAssumption
       DEF IInv, TypeOK, Info, FetchLookup, FetchAwait, FetchPending
  <2>7. CASE List \/ Tick \/ UNCHANGED vars
    BY <2>7 DEF List, Tick, vars
  <2> QED
    BY <2>2, <2>3, <2>4, <2>5, <2>6, <2>7 DEF Next, ToolStep
<1> QED
  BY <1>1, Inductive, PTL DEF Spec, AnswersNeverRegress

-----------------------------------------------------------------------------
(* Retention. RetentionForCause is preserved by a prune only because what  *)
(* pruneLocked counts is finite and ordered by the starts: RetentionInv    *)
(* says so, together with IInv.                                            *)

\* What has ended was launched, so what is counted is finite.
LEMMA EndedFinite ==
  ASSUME IInv, StartOrder, NEW T \in SUBSET {f \in Execs : result[f] # None}
  PROVE  T \in SUBSET Launched /\ IsFiniteSet(T) /\ Cardinality(T) \in Nat
<1>1. T \in SUBSET Launched
  BY DEF IInv, Lifecycle, Launched, Known
<1> QED
  BY <1>1, FS_Subset, FS_CardinalityType DEF StartOrder

\* Nothing but Launch starts an execution, and it starts one at a time.
LEMMA StartOrderPreserved ==
  ASSUME IInv, StartOrder, [Next]_vars
  PROVE  StartOrder'
<1>1. CASE \E x \in Execs : LaunchStore(x)
  <2>1. PICK x \in Execs : LaunchStore(x)
    BY <1>1
  <2>2. Launched' = Launched \cup {x} /\ x \notin Launched
    BY <2>1 DEF LaunchStore, Launched, IInv, TypeOK
  <2>3. IsFiniteSet(Launched')
    BY <2>2, FS_AddElement DEF StartOrder
  <2>4. \A e \in Launched : startedAt'[e] = startedAt[e] /\ startedAt[e] \in 1..launches
    BY <2>1, <2>2 DEF LaunchStore, IInv, TypeOK, Launched, StartOrder
  <2>5. launches' = launches + 1 /\ startedAt'[x] = launches + 1 /\ launches \in Nat
    BY <2>1 DEF LaunchStore, IInv, TypeOK
  <2>6. \A e \in execs' : Known(e)'
    BY <2>1 DEF LaunchStore, IInv, TypeOK, StartOrder, Known
  <2>7. \A e \in Launched' : startedAt'[e] \in 1..launches'
    BY <2>2, <2>4, <2>5
  <2>8. ASSUME NEW e \in Launched', NEW f \in Launched', startedAt'[e] = startedAt'[f]
        PROVE  e = f
    BY <2>2, <2>4, <2>5, <2>8 DEF StartOrder
  <2> QED
    BY <2>3, <2>6, <2>7, <2>8 DEF StartOrder
<1>2. CASE UNCHANGED <<startedAt, launches>> /\ Launched' = Launched /\ \A e \in execs' : Known(e)'
  BY <1>2 DEF StartOrder
<1>3. ASSUME NEW x \in Execs, Accept(x) \/ Claim(x) \/ CallReply(x) \/ CallAudit(x)
      PROVE  StartOrder'
  <2>1. UNCHANGED <<startedAt, launches>> /\ Launched' = Launched /\ \A e \in execs' : Known(e)'
    BY <1>3 DEF Accept, Claim, CallReply, CallAudit, Launched, Known, IInv, TypeOK, StartOrder
  <2> QED
    BY <1>2, <2>1
<1>4. ASSUME NEW x \in Execs, LaunchRegister(x)
      PROVE  StartOrder'
  <2>1. Launched' = Launched /\ \A e \in Execs : e = x \/ Known(e) => Known(e)'
    BY <1>4 DEF LaunchRegister, Launched, Known, IInv, TypeOK
  <2>2. execs' \in SUBSET (execs \cup {x})
    BY <1>4 DEF LaunchRegister, PruneLocked, Listed, Finished
  <2>3. \A e \in execs' : Known(e)'
    BY <2>1, <2>2 DEF IInv, TypeOK, StartOrder
  <2> QED
    BY <1>2, <1>4, <2>1, <2>3 DEF LaunchRegister
<1>5. ASSUME UNCHANGED call, execs' \in SUBSET execs, UNCHANGED <<startedAt, launches>>
      PROVE  StartOrder'
  BY <1>2, <1>5 DEF StartOrder, Known, Launched
<1>6. ASSUME NEW x \in Execs, WorkerStep(x)
      PROVE  StartOrder'
  BY <1>5, <1>6 DEF WorkerStep, WorkerPublish, WorkerReport, WorkerRetire
<1>7. CASE (\E x \in Execs : ToolStep(x)) \/ List
  BY <1>5, <1>7 DEF ToolStep, CancelLookup, CancelFire, CancelReply, FetchLookup, FetchAwait,
     FetchPending, List, PruneLocked, Listed, Finished
<1>8. CASE Tick \/ UNCHANGED vars
  BY <1>5, <1>8 DEF Tick, vars
<1> QED
  BY <1>1, <1>3, <1>4, <1>6, <1>7, <1>8 DEF Next, CallStep

\* More only ends: what has ended keeps its outcome and its time, and what is
\* newer than a known execution stays newer.
LEMMA EndedGrows ==
  ASSUME IInv, [Next]_vars, NEW e \in Execs, Known(e)
  PROVE  /\ result[e] # None => result'[e] # None /\ endedAt'[e] = endedAt[e]
         /\ NewerEnded(e) \in SUBSET NewerEnded(e)'
         /\ now' >= now
<1> DEFINE Kept == /\ result[e] # None => result'[e] # None /\ endedAt'[e] = endedAt[e]
                   /\ \A f \in Execs : result[f] # None /\ startedAt[f] > startedAt[e] =>
                                         result'[f] # None /\ startedAt'[f] > startedAt'[e]
                   /\ now' >= now
<1> SUFFICES Kept
  BY DEF NewerEnded
<1>0. /\ now \in Int /\ call[e] # "accepted"
      /\ \A f \in Execs : result[f] # None => worker[f] # "running" /\ call[f] # "accepted"
  BY DEF IInv, TypeOK, Lifecycle, Known
<1>1. ASSUME NEW x \in Execs, LaunchStore(x) PROVE Kept
  BY <1>0, <1>1 DEF LaunchStore, IInv, TypeOK
<1>2. ASSUME NEW x \in Execs, WorkerPublish(x) PROVE Kept
  BY <1>0, <1>2, ConstantsAssumption DEF WorkerPublish, IInv, TypeOK
<1>3. CASE UNCHANGED <<result, endedAt, startedAt>> /\ now' >= now
  BY <1>3
<1>4. CASE Tick
  BY <1>0, <1>3, <1>4 DEF Tick
<1>5. CASE UNCHANGED <<result, endedAt, startedAt, now>>
  BY <1>0, <1>3, <1>5
<1>6. CASE (\E x \in Execs : ToolStep(x)) \/ List \/ UNCHANGED vars
  BY <1>5, <1>6 DEF ToolStep, CancelLookup, CancelFire, CancelReply, FetchLookup, FetchAwait,
     FetchPending, List, vars
<1>7. ASSUME NEW x \in Execs, \/ Accept(x) \/ LaunchRegister(x) \/ Claim(x) \/ CallReply(x)
                              \/ CallAudit(x) \/ WorkerReport(x) \/ WorkerRetire(x)
      PROVE  UNCHANGED <<result, endedAt, startedAt, now>>
  BY <1>7 DEF Accept, LaunchRegister, Claim, CallReply, CallAudit, WorkerReport, WorkerRetire
<1> QED
  BY <1>1, <1>2, <1>4, <1>5, <1>6, <1>7 DEF Next, CallStep, WorkerStep

\* A prune drops what it may, whoever it is for.
LEMMA PruneForCause ==
  ASSUME IInv, StartOrder, RetentionForCause, NEW added, PruneLocked(added),
         UNCHANGED <<now, result, endedAt, startedAt>>,
         \A e \in Execs \ added : Known(e)' => Known(e)
  PROVE  RetentionForCause'
<1> SUFFICES ASSUME NEW e \in Execs
             PROVE  /\ Known(e)' /\ e \notin execs' =>
                         /\ result[e] # None
                         /\ \/ now - endedAt[e] > ExecRetention
                            \/ Cardinality(NewerEnded(e)) >= MaxRetainedExecs
                    /\ e \in dropped' =>
                         result[e] # None /\ Cardinality(NewerEnded(e)) >= MaxRetainedOutputs
  BY DEF RetentionForCause, NewerEnded
<1>1. IsFiniteSet(NewerEnded(e)) /\ Cardinality(NewerEnded(e)) \in Nat
  BY EndedFinite DEF NewerEnded
<1>2. ASSUME NEW T \in SUBSET NewerEnded(e), NEW k \in Nat, Cardinality(T) >= k
      PROVE  Cardinality(NewerEnded(e)) >= k
  BY <1>1, <1>2, FS_Subset, FS_CardinalityType
<1>3. Finished \in SUBSET {f \in Execs : result[f] # None}
  BY DEF Finished, IInv, TypeOK
<1>4. ASSUME e \in execs, e \notin execs'
      PROVE  /\ result[e] # None
             /\ \/ now - endedAt[e] > ExecRetention
                \/ Cardinality(NewerEnded(e)) >= MaxRetainedExecs
  <2>1. result[e] # None /\ e \notin Listed
    BY <1>4 DEF PruneLocked
  <2>2. CASE e \in Finished
    <3>1. Newer(e, Finished) \in SUBSET NewerEnded(e)
      BY <1>3 DEF Newer, NewerEnded
    <3>2. Cardinality(Newer(e, Finished)) \in Nat
      BY <1>1, <3>1, FS_Subset, FS_CardinalityType
    <3>3. Cardinality(Newer(e, Finished)) >= MaxRetainedExecs
      BY <2>1, <2>2, <3>2, ConstantsAssumption DEF Listed
    <3> QED
      BY <1>2, <2>1, <3>1, <3>3, ConstantsAssumption
  <2>3. CASE e \notin Finished
    <3>1. now \in Int /\ endedAt[e] \in Int
      BY ConstantsAssumption DEF IInv, TypeOK
    <3> QED
      BY <1>4, <2>1, <2>3, <3>1, ConstantsAssumption DEF Finished
  <2> QED
    BY <2>2, <2>3
<1>5. ASSUME Known(e)', e \notin execs'
      PROVE  /\ result[e] # None
             /\ \/ now - endedAt[e] > ExecRetention
                \/ Cardinality(NewerEnded(e)) >= MaxRetainedExecs
  BY <1>4, <1>5 DEF PruneLocked, RetentionForCause
<1>6. ASSUME e \in Overflowing
      PROVE  result[e] # None /\ Cardinality(NewerEnded(e)) >= MaxRetainedOutputs
  <2>1. Newer(e, Listed) \ dropped \in SUBSET NewerEnded(e)
    BY <1>3 DEF Newer, NewerEnded, Listed
  <2>2. Cardinality(Newer(e, Listed) \ dropped) >= MaxRetainedOutputs /\ result[e] # None
    BY <1>3, <1>6 DEF Overflowing, Listed
  <2> QED
    BY <1>2, <2>1, <2>2, ConstantsAssumption
<1> QED
  BY <1>5, <1>6 DEF PruneLocked, RetentionForCause

\* pruneLocked forgets executions and drops outputs for its reasons only.
LEMMA RetentionPreserved ==
  ASSUME IInv, IInv', StartOrder, StartOrder', RetentionForCause, [Next]_vars
  PROVE  RetentionForCause'
<1>1. CASE UNCHANGED regVars /\ \A e \in Execs : Known(e)' => Known(e)
  <2> SUFFICES ASSUME NEW e \in Execs, Known(e), e \notin execs \/ e \in dropped
               PROVE  /\ Known(e)' /\ e \notin execs' =>
                           /\ result'[e] # None
                           /\ \/ now' - endedAt'[e] > ExecRetention
                              \/ Cardinality(NewerEnded(e)') >= MaxRetainedExecs
                      /\ e \in dropped' =>
                           /\ result'[e] # None
                           /\ Cardinality(NewerEnded(e)') >= MaxRetainedOutputs
    BY <1>1 DEF RetentionForCause, IInv, Lifecycle
  <2>1. IsFiniteSet(NewerEnded(e)') /\ Cardinality(NewerEnded(e)') \in Nat
    <3>1. NewerEnded(e)' \in SUBSET Launched'
      BY DEF NewerEnded, IInv, Lifecycle, Launched, Known
    <3>2. IsFiniteSet(Launched')
      BY DEF StartOrder
    <3> QED
      BY <3>1, <3>2, FS_Subset, FS_CardinalityType
  <2>2. Cardinality(NewerEnded(e)) \in Nat
    BY EndedFinite DEF NewerEnded
  <2>3. Cardinality(NewerEnded(e)') >= Cardinality(NewerEnded(e))
    BY <2>1, <2>2, EndedGrows, FS_Subset
  <2>4. now \in Int /\ now' \in Int /\ endedAt[e] \in Int
    BY ConstantsAssumption DEF IInv, TypeOK
  <2>5. now' >= now /\ (result[e] # None => result'[e] # None /\ endedAt'[e] = endedAt[e])
    BY EndedGrows
  <2> QED
    BY <1>1, <2>1, <2>2, <2>3, <2>4, <2>5, ConstantsAssumption DEF RetentionForCause
<1>2. ASSUME NEW x \in Execs, LaunchRegister(x)
      PROVE  RetentionForCause'
  <2>1. \A e \in Execs \ {x} : Known(e)' => Known(e)
    BY <1>2 DEF LaunchRegister, Known, IInv, TypeOK
  <2> QED
    BY <1>2, <2>1, PruneForCause DEF LaunchRegister
<1>3. ASSUME NEW x \in Execs, CancelLookup(x) \/ FetchLookup(x)
      PROVE  RetentionForCause'
  <2>1. PruneLocked({}) /\ UNCHANGED <<now, result, endedAt, startedAt, call>>
    BY <1>3 DEF CancelLookup, FetchLookup
  <2> QED
    BY <2>1, PruneForCause DEF Known
<1>4. CASE List
  <2>1. PruneLocked({}) /\ UNCHANGED <<now, result, endedAt, startedAt, call>>
    BY <1>4 DEF List
  <2> QED
    BY <2>1, PruneForCause DEF Known
<1>5. ASSUME NEW x \in Execs, Accept(x) \/ LaunchStore(x) \/ Claim(x) \/ CallReply(x) \/ CallAudit(x)
      PROVE  RetentionForCause'
  BY <1>1, <1>5 DEF Accept, LaunchStore, Claim, CallReply, CallAudit, Known, IInv, TypeOK
<1>6. ASSUME NEW x \in Execs, WorkerStep(x)
      PROVE  RetentionForCause'
  BY <1>1, <1>6 DEF WorkerStep, WorkerPublish, WorkerReport, WorkerRetire, Known
<1>7. ASSUME NEW x \in Execs, CancelFire(x) \/ CancelReply(x) \/ FetchAwait(x) \/ FetchPending(x)
      PROVE  RetentionForCause'
  BY <1>1, <1>7 DEF CancelFire, CancelReply, FetchAwait, FetchPending, Known
<1>8. CASE Tick \/ UNCHANGED vars
  BY <1>1, <1>8 DEF Tick, vars, Known
<1> QED
  BY <1>2, <1>3, <1>4, <1>5, <1>6, <1>7, <1>8 DEF Next, CallStep, ToolStep

\* The limits hold right after a prune, for what has ended and for the outputs
\* still held.
LEMMA PruneBounds ==
  ASSUME IInv, StartOrder
  PROVE  /\ Cardinality(Listed) <= MaxRetainedExecs
         /\ Cardinality(Listed \ (dropped \cup Overflowing)) <= MaxRetainedOutputs
<1>1. /\ IsFiniteSet(Finished)
      /\ \A e \in Finished : startedAt[e] \in Nat
      /\ \A e, f \in Finished : startedAt[e] = startedAt[f] => e = f
  <2>1. Finished \in SUBSET {f \in Execs : result[f] # None}
    BY DEF Finished, IInv, TypeOK
  <2> QED
    BY <2>1, EndedFinite DEF StartOrder, IInv, TypeOK
<1>2. Cardinality(Listed) <= MaxRetainedExecs
  <2>1. Listed = {e \in Finished :
                    Cardinality({f \in Finished : startedAt[f] > startedAt[e]}) < MaxRetainedExecs}
    BY DEF Listed, Newer
  <2> QED
    BY <1>1, <2>1, NewestBounded, ConstantsAssumption
<1>3. Cardinality(Listed \ (dropped \cup Overflowing)) <= MaxRetainedOutputs
  <2> DEFINE S == Listed \ dropped
  <2>1. /\ IsFiniteSet(S)
        /\ \A e \in S : startedAt[e] \in Nat
        /\ \A e, f \in S : startedAt[e] = startedAt[f] => e = f
    BY <1>1, FS_Subset DEF Listed
  <2>2. ASSUME NEW e \in S
        PROVE  /\ {f \in S : startedAt[f] > startedAt[e]} = Newer(e, Listed) \ dropped
               /\ Cardinality(Newer(e, Listed) \ dropped) \in Nat
    <3>1. {f \in S : startedAt[f] > startedAt[e]} = Newer(e, Listed) \ dropped
      BY DEF Newer
    <3> QED
      BY <2>1, <3>1, FS_Subset, FS_CardinalityType
  <2>3. Listed \ (dropped \cup Overflowing)
          = {e \in S : Cardinality({f \in S : startedAt[f] > startedAt[e]}) < MaxRetainedOutputs}
    <3>1. ASSUME NEW e \in S
          PROVE  e \notin Overflowing
                 <=> Cardinality({f \in S : startedAt[f] > startedAt[e]}) < MaxRetainedOutputs
      <4>1. e \in Overflowing <=> Cardinality(Newer(e, Listed) \ dropped) >= MaxRetainedOutputs
        BY DEF Overflowing
      <4> QED
        BY <2>2, <4>1, ConstantsAssumption
    <3> QED
      BY <3>1, Zenon
  <2> HIDE DEF S
  <2> QED
    BY <2>1, <2>3, NewestBounded, ConstantsAssumption
<1> QED
  BY <1>2, <1>3

\* pruneLocked forgets an execution only after it ended, for its age or for
\* newer ended ones, and every launch restores both limits.
THEOREM RetentionKept == Spec => RetentionHolds
<1>1. Init => RetentionInv
  <2> SUFFICES ASSUME Init PROVE RetentionInv
    OBVIOUS
  <2>1. Launched = {}
    BY DEF Init, Launched
  <2> QED
    <3>1. IsFiniteSet(Launched)
      BY <2>1, FS_EmptySet
    <3>2. StartOrder
      BY <2>1, <3>1 DEF Init, StartOrder
    <3>3. RetentionForCause
      BY DEF Init, RetentionForCause, Known
    <3> QED
      BY <3>2, <3>3 DEF RetentionInv
<1>2. IInv /\ IInv' /\ RetentionInv /\ [Next]_vars => RetentionInv'
  BY StartOrderPreserved, RetentionPreserved DEF RetentionInv
<1>3. Spec => []RetentionInv
  BY <1>1, <1>2, Inductive, PTL DEF Spec
<1> DEFINE Bounds == \A e \in execs' \ execs :
              LET over == {f \in execs' : result[f] # None}
              IN  /\ Cardinality(over) <= MaxRetainedExecs
                  /\ Cardinality(over \ dropped') <= MaxRetainedOutputs
<1>4. IInv /\ RetentionInv /\ [Next]_vars => [Bounds]_vars
  <2> SUFFICES ASSUME IInv, StartOrder, [Next]_vars, NEW e \in execs' \ execs
               PROVE  LET over == {f \in execs' : result[f] # None}
                      IN  /\ Cardinality(over) <= MaxRetainedExecs
                          /\ Cardinality(over \ dropped') <= MaxRetainedOutputs
    BY DEF RetentionInv
  <2>1. PICK x \in Execs : LaunchRegister(x)
    <3>1. CASE execs' \in SUBSET execs
      BY <3>1
    <3>2. PruneLocked({}) => execs' \in SUBSET execs
      BY DEF PruneLocked, Listed, Finished
    <3> QED
      BY <3>1, <3>2 DEF Next, CallStep, WorkerStep, ToolStep, Accept, LaunchStore, Claim, CallReply,
        CallAudit, WorkerPublish, WorkerReport, WorkerRetire, CancelLookup, CancelFire,
        CancelReply, FetchLookup, FetchAwait, FetchPending, List, Tick, vars
  <2>2. result[x] = None
    BY <2>1 DEF LaunchRegister, IInv, Lifecycle, Known
  <2>3. {f \in execs' : result[f] # None} = Listed
    BY <2>1, <2>2 DEF LaunchRegister, PruneLocked, Listed, Finished
  <2>4. dropped' = dropped \cup Overflowing
    BY <2>1 DEF LaunchRegister, PruneLocked
  <2> QED
    BY <2>3, <2>4, PruneBounds
<1>5. RetentionInv => RetentionForCause
  BY DEF RetentionInv
<1> QED
  BY <1>3, <1>4, <1>5, Inductive, PTL DEF Spec, RetentionHolds, LaunchBoundsRetention

-----------------------------------------------------------------------------
(* Refinement. The audit log implements the ledger of outcomes (the safety *)
(* part of OutcomeLedger): registering opens an account, publishing        *)
(* decides the outcome, and the one final line settles it; every other     *)
(* step is invisible.                                                      *)

\* The final line has been written: by the call that claimed the result, or
\* by onLate.
Settled(e) ==
  \/ call[e] = "done" /\ got[e] # None
  \/ worker[e] \in {"reported", "gone"} /\ e \in late

\* What the ledger says of an execution, in terms of the call and the goroutine.
LedgerView(e) == IF Settled(e) THEN result[e] ELSE IF Known(e) THEN "open" ELSE "unstarted"

\* A final line is in the log exactly when one of the two has written it.
LEMMA FinalLineIffSettled ==
  ASSUME IInv, NEW e \in Execs
  PROVE  HasFinalLine(e) <=> Settled(e)
<1> DEFINE calls == call[e] = "done"
           lates == worker[e] \in {"reported", "gone"} /\ e \in late
<1>1. "running" \notin States /\ got[e] \in States \cup {None}
  BY ConstantsAssumption DEF IInv, TypeOK
<1>2. lates => result[e] \in States /\ (calls => got[e] = None)
  BY DEF IInv, TypeOK, Ownership
<1>3. CASE ~calls /\ ~lates
  BY <1>3 DEF Lines, HasFinalLine, Settled, IInv, AuditShape
<1>4. CASE ~calls /\ lates
  <2>1. audit[e] = <<result[e]>>
    BY <1>4 DEF IInv, AuditShape
  <2> QED
    BY <1>2, <1>4, <2>1 DEF Lines, HasFinalLine, Settled
<1>5. CASE calls /\ ~lates /\ got[e] = None
  <2>1. audit[e] = <<"running">>
    BY <1>5 DEF IInv, AuditShape
  <2> QED
    BY <1>1, <1>5, <2>1 DEF Lines, HasFinalLine, Settled
<1>6. CASE calls /\ ~lates /\ got[e] # None
  <2>1. audit[e] = <<got[e]>>
    BY <1>6 DEF IInv, AuditShape
  <2> QED
    BY <1>1, <1>6, <2>1 DEF Lines, HasFinalLine, Settled
<1>7. CASE calls /\ lates
  <2>1. audit[e] \in {<<"running", result[e]>>, <<result[e], "running">>}
    BY <1>7 DEF IInv, AuditShape
  <2> QED
    BY <1>2, <1>7, <2>1 DEF Lines, HasFinalLine, Settled
<1> QED
  BY <1>3, <1>4, <1>5, <1>6, <1>7

\* Reading the log gives the view.
LEMMA LedgerOfIsView == IInv => \A e \in Execs : LedgerOf(e) = LedgerView(e)
<1> SUFFICES ASSUME IInv, NEW e \in Execs PROVE LedgerOf(e) = LedgerView(e)
  OBVIOUS
<1>1. \A i \in Lines(e) : audit[e][i] \in States => audit[e][i] = result[e]
  BY OnceFromIInv, ConstantsAssumption DEF OutcomeReportedOnce
<1>2. CASE HasFinalLine(e)
  <2>1. \E i \in Lines(e) : audit[e][i] \in States
    BY <1>2 DEF HasFinalLine
  <2>2. LedgerOf(e) = result[e]
    BY <1>1, <1>2, <2>1 DEF LedgerOf
  <2> QED
    BY <1>2, <2>2, FinalLineIffSettled DEF LedgerView
<1>3. CASE ~HasFinalLine(e)
  BY <1>3, FinalLineIffSettled DEF LedgerOf, LedgerView, Known
<1> QED
  BY <1>2, <1>3

\* Every step of the executions is a step of the ledger or leaves it alone.
LEMMA StepRefines ==
  ASSUME IInv, [Next]_vars
  PROVE  [Ledger!Next]_(Ledger!vars)
<1> DEFINE view == [e \in Execs |-> LedgerView(e)]
<1>1. [e \in Execs |-> LedgerOf(e)] = view
  BY LedgerOfIsView
<1>2. [e \in Execs |-> LedgerOf(e)]' = view'
  <2>1. (IInv => \A e \in Execs : LedgerOf(e) = LedgerView(e))'
    BY LedgerOfIsView, PTL
  <2> QED
    BY <2>1, NextPreserves
<1> DEFINE others(x) == \A e \in Execs \ {x} : LedgerView(e)' = LedgerView(e)
<1>3. SUFFICES \/ /\ UNCHANGED result
                  /\ \A e \in Execs : LedgerView(e)' = LedgerView(e)
               \/ \E x \in Execs :
                    /\ others(x)
                    /\ \/ /\ LedgerView(x) = "unstarted" /\ LedgerView(x)' = "open"
                          /\ UNCHANGED result
                       \/ /\ LedgerView(x) = "open" /\ LedgerView(x)' = "open"
                          /\ result[x] = None
                          /\ \E s \in States : result' = [result EXCEPT ![x] = s]
                       \/ /\ LedgerView(x) = "open" /\ LedgerView(x)' = result[x]
                          /\ result[x] # None
                          /\ UNCHANGED result
  <2>1. CASE UNCHANGED result /\ \A e \in Execs : LedgerView(e)' = LedgerView(e)
    BY <1>1, <1>2, <2>1 DEF Ledger!vars
  <2>2. ASSUME NEW x \in Execs, others(x), UNCHANGED result,
               LedgerView(x) = "unstarted", LedgerView(x)' = "open"
        PROVE  Ledger!Open(x)
    <3>1. view' = [view EXCEPT ![x] = "open"]
      BY <2>2
    <3> QED
      BY <1>1, <1>2, <2>2, <3>1 DEF Ledger!Open
  <2>3. ASSUME NEW x \in Execs, others(x), result[x] = None,
               LedgerView(x) = "open", LedgerView(x)' = "open",
               \E s \in States : result' = [result EXCEPT ![x] = s]
        PROVE  Ledger!Decide(x)
    <3>1. view' = view
      BY <2>3
    <3> QED
      BY <1>1, <1>2, <2>3, <3>1 DEF Ledger!Decide
  <2>4. ASSUME NEW x \in Execs, others(x), UNCHANGED result, result[x] # None,
               LedgerView(x) = "open", LedgerView(x)' = result[x]
        PROVE  Ledger!Settle(x)
    <3>1. view' = [view EXCEPT ![x] = result[x]]
      BY <2>4
    <3> QED
      BY <1>1, <1>2, <2>4, <3>1 DEF Ledger!Settle
  <2> QED
    BY <2>1, <2>2, <2>3, <2>4 DEF Ledger!Next
<1>4. CASE \E x \in Execs : Accept(x) \/ LaunchStore(x) \/ Claim(x) \/ CallReply(x)
  <2>1. ASSUME NEW e \in Execs PROVE LedgerView(e)' = LedgerView(e)
    BY <1>4, <2>1 DEF IInv, TypeOK, LedgerView, Settled, Known, Ownership,
                      Accept, LaunchStore, Claim, CallReply
  <2> QED
    BY <1>4, <2>1 DEF Accept, LaunchStore, Claim, CallReply
<1>5. CASE \E x \in Execs : LaunchRegister(x)
  <2>1. PICK x \in Execs : LaunchRegister(x)
    BY <1>5
  <2>2. /\ others(x) /\ UNCHANGED result
        /\ LedgerView(x) = "unstarted" /\ LedgerView(x)' = "open"
    BY <2>1 DEF IInv, TypeOK, LedgerView, Settled, Known, Lifecycle, Ownership, LaunchRegister
  <2> QED
    BY <2>2
<1>6. CASE \E x \in Execs : CallAudit(x)
  <2>1. PICK x \in Execs : CallAudit(x)
    BY <1>6
  <2>2. CASE got[x] = None
    <3>1. UNCHANGED result /\ \A e \in Execs : LedgerView(e)' = LedgerView(e)
      BY <2>1, <2>2 DEF IInv, TypeOK, LedgerView, Settled, Known, CallAudit
    <3> QED
      BY <3>1
  <2>3. CASE got[x] # None
    <3>1. LedgerView(x) = "open" /\ result[x] # None
      BY <2>1, <2>3 DEF IInv, TypeOK, LedgerView, Settled, Known, Ownership, CallAudit
    <3>2. others(x) /\ LedgerView(x)' = result[x] /\ UNCHANGED result
      BY <2>1, <2>3 DEF IInv, TypeOK, LedgerView, Settled, Known, CallAudit
    <3> QED
      BY <3>1, <3>2
  <2> QED
    BY <2>2, <2>3
<1>7. CASE \E x \in Execs : WorkerPublish(x)
  <2>1. PICK x \in Execs : WorkerPublish(x)
    BY <1>7
  <2>2. LedgerView(x) = "open" /\ result[x] = None
    BY <2>1 DEF IInv, TypeOK, LedgerView, Settled, Known, Lifecycle, Ownership, WorkerPublish
  <2>3. /\ others(x) /\ LedgerView(x)' = "open"
        /\ \E s \in States : result' = [result EXCEPT ![x] = s]
    BY <2>1, <2>2 DEF IInv, TypeOK, LedgerView, Settled, Known, Ownership, WorkerPublish
  <2> QED
    BY <2>2, <2>3
<1>8. CASE \E x \in Execs : WorkerReport(x)
  <2>1. PICK x \in Execs : WorkerReport(x)
    BY <1>8
  <2>2. CASE x \notin late
    <3>1. UNCHANGED result /\ \A e \in Execs : LedgerView(e)' = LedgerView(e)
      BY <2>1, <2>2 DEF IInv, TypeOK, LedgerView, Settled, Known, WorkerReport
    <3> QED
      BY <3>1
  <2>3. CASE x \in late
    <3>1. LedgerView(x) = "open" /\ result[x] # None
      BY <2>1, <2>3 DEF IInv, TypeOK, LedgerView, Settled, Known, Lifecycle, Ownership, WorkerReport
    <3>2. others(x) /\ LedgerView(x)' = result[x] /\ UNCHANGED result
      BY <2>1, <2>3 DEF IInv, TypeOK, LedgerView, Settled, Known, WorkerReport
    <3> QED
      BY <3>1, <3>2
  <2> QED
    BY <2>2, <2>3
<1>9. CASE \E x \in Execs : WorkerRetire(x)
  <2>1. UNCHANGED result /\ \A e \in Execs : LedgerView(e)' = LedgerView(e)
    BY <1>9 DEF IInv, TypeOK, LedgerView, Settled, Known, WorkerRetire
  <2> QED
    BY <2>1
<1>10. CASE (\E x \in Execs : ToolStep(x)) \/ List \/ Tick \/ UNCHANGED vars
  <2>1. UNCHANGED <<call, got, worker, late, result>>
    BY <1>10 DEF ToolStep, CancelLookup, CancelFire, CancelReply, FetchLookup, FetchAwait,
                 FetchPending, List, Tick, vars
  <2> QED
    BY <2>1 DEF LedgerView, Settled, Known
<1> QED
  BY <1>4, <1>5, <1>6, <1>7, <1>8, <1>9, <1>10 DEF Next, CallStep, WorkerStep

\* The audit log settles every launched command once, with what became of it,
\* and never rewrites an entry: the executions implement the ledger's safety.
THEOREM RefinesLedger == Spec => ImplementsLedgerSafely
<1>1. Init => Ledger!Init
  <2> SUFFICES ASSUME Init PROVE Ledger!Init
    OBVIOUS
  <2>1. \A e \in Execs : LedgerOf(e) = "unstarted"
    BY DEF Init, LedgerOf, HasFinalLine, Lines
  <2> QED
    BY <2>1 DEF Init, Ledger!Init
<1>2. IInv /\ [Next]_vars => [Ledger!Next]_(Ledger!vars)
  BY StepRefines
<1> QED
  BY <1>1, <1>2, Inductive, PTL DEF Spec, ImplementsLedgerSafely, Ledger!SafeSpec

-----------------------------------------------------------------------------
(* The graceful shutdown, over the detached executions. *)

\* The server starts with no execution and no signal.
LEMMA ShutInitInv == ShutInit => ShutIInv
  BY InitInv DEF ShutInit, ShutIInv, ShutTypeOK, IInv

\* Once every handler has ended, no execution step makes one unended, and no
\* cancel function is added.
LEMMA EndedStaysEnded ==
  ASSUME IInv, HandlersEnded,
         \/ \E x \in Execs : CallStep(x) \/ ToolStep(x) \/ WorkerStep(x)
         \/ List \/ Tick
  PROVE  HandlersEnded' /\ running' \subseteq running
<1>1. CASE \E x \in Execs : CallStep(x)
  BY <1>1 DEF HandlersEnded, CallStep, LaunchStore, LaunchRegister, Claim, CallReply, CallAudit
<1>2. CASE \E x \in Execs : WorkerStep(x)
  BY <1>2 DEF HandlersEnded, WorkerStep, WorkerPublish, WorkerReport, WorkerRetire
<1>3. CASE (\E x \in Execs : ToolStep(x)) \/ List \/ Tick
  <2>1. UNCHANGED <<call, running>>
    BY <1>3 DEF ToolStep, CancelLookup, CancelFire, CancelReply, FetchLookup, FetchAwait,
                FetchPending, List, Tick
  <2> QED
    BY <2>1 DEF HandlersEnded
<1> QED
  BY <1>1, <1>2, <1>3

\* A step of the executions while the process lives.
LEMMA ServingPreserves ==
  ASSUME ShutIInv, AcceptWhileServing \/ HandlerStep \/ CommandStep
  PROVE  ShutIInv'
<1>1. UNCHANGED shutVars /\ phase # "exited" /\ Next
  BY DEF AcceptWhileServing, HandlerStep, CommandStep, Next
<1>2. IInv' /\ ShutTypeOK'
  BY <1>1, NextPreserves DEF ShutIInv, ShutTypeOK, IInv, shutVars
<1>3. phase \in {"settling", "checking"} /\ ~shutErr =>
        HandlersEnded' /\ running' \subseteq running
  BY EndedStaysEnded DEF ShutIInv, AcceptWhileServing, HandlerStep, CommandStep
<1> QED
  BY <1>1, <1>2, <1>3 DEF ShutIInv, shutVars

\* A step of the main goroutine or of its timer: it calls cancel functions and
\* changes nothing else of the executions.
LEMMA ShuttingPreserves ==
  ASSUME ShutIInv, Signal \/ GraceExpires \/ GracefulShutdown
  PROVE  ShutIInv'
<1>1. UNCHANGED <<call, running>>
  BY DEF Signal, GraceExpires, GracefulShutdown, ShutdownReturns, SettleEnds, ExitClean,
         KillRest, ExitForced, vars
<1>2. IInv'
  <2>1. CASE UNCHANGED vars
    BY <2>1, NextPreserves DEF ShutIInv
  <2>2. CASE KillRest
    BY <2>2 DEF KillRest, ShutIInv, IInv, TypeOK, Lifecycle, Ownership, AuditShape, Known
  <2> QED
    BY <2>1, <2>2 DEF Signal, GraceExpires, GracefulShutdown, ShutdownReturns, SettleEnds,
                      ExitClean, ExitForced
<1>3. HandlersEnded' <=> HandlersEnded
  BY <1>1 DEF HandlersEnded
<1>4. CASE Signal
  BY <1>1, <1>2, <1>3, <1>4 DEF Signal, ShutIInv, ShutTypeOK, IInv
<1>5. CASE GraceExpires
  BY <1>1, <1>2, <1>3, <1>5 DEF GraceExpires, ShutIInv, ShutTypeOK, IInv
<1>6. CASE ShutdownReturns
  <2>1. Drained => HandlersEnded
    BY DEF Drained, HandlersEnded
  <2> QED
    BY <1>1, <1>2, <1>3, <1>6, <2>1 DEF ShutdownReturns, ShutIInv, ShutTypeOK, IInv
<1>7. CASE SettleEnds
  BY <1>1, <1>2, <1>3, <1>7 DEF SettleEnds, ShutIInv, ShutTypeOK, IInv
<1>8. CASE ExitClean
  BY <1>1, <1>2, <1>3, <1>8 DEF ExitClean, ShutIInv, ShutTypeOK, IInv
<1>9. CASE KillRest
  BY <1>1, <1>2, <1>3, <1>9 DEF KillRest, ShutIInv, ShutTypeOK, IInv
<1>10. CASE ExitForced
  BY <1>1, <1>2, <1>3, <1>10 DEF ExitForced, ShutIInv, ShutTypeOK, IInv
<1> QED
  BY <1>4, <1>5, <1>6, <1>7, <1>8, <1>9, <1>10 DEF GracefulShutdown

\* The phases of the shutdown keep their promises.
THEOREM ShutInductive == ShutSpec => []ShutIInv
<1>1. ShutIInv /\ [ShutNext]_allVars => ShutIInv'
  <2> SUFFICES ASSUME ShutIInv, [ShutNext]_allVars PROVE ShutIInv'
    OBVIOUS
  <2>1. CASE ShutNext
    BY <2>1, ServingPreserves, ShuttingPreserves DEF ShutNext
  <2>2. CASE UNCHANGED allVars
    <3>1. IInv' /\ UNCHANGED <<call, running>> /\ UNCHANGED shutVars
      BY <2>2, NextPreserves DEF allVars, vars, ShutIInv
    <3> QED
      BY <3>1 DEF ShutIInv, ShutTypeOK, HandlersEnded, IInv, shutVars
  <2> QED
    BY <2>1, <2>2
<1> QED
  BY <1>1, ShutInitInv, PTL DEF ShutSpec

\* A shutdown that did not have to kill leaves no request, no command and no
\* outcome behind.
THEOREM CleanExit == ShutSpec => []CleanExitComplete
<1>1. ShutIInv => CleanExitComplete
  <2> SUFFICES ASSUME ShutIInv, phase = "exited", ~forced,
                      NEW e \in Execs, call[e] # "idle"
               PROVE  call[e] = "done" /\ worker[e] = "gone" /\ HasFinalLine(e)
    BY DEF CleanExitComplete
  <2>1. call[e] = "done" /\ e \notin running
    BY DEF ShutIInv, HandlersEnded
  <2>2. worker[e] = "gone" /\ result[e] # None
    BY <2>1 DEF ShutIInv, IInv, Lifecycle
  <2>3. Settled(e)
    BY <2>1, <2>2 DEF ShutIInv, IInv, Ownership, Settled
  <2> QED
    BY <2>1, <2>2, <2>3, FinalLineIffSettled DEF ShutIInv
<1> QED
  BY <1>1, ShutInductive, PTL

\* The shutdown kills nothing before the grace period is over.
THEOREM GraceGranted == ShutSpec => []GraceIsGranted
<1>1. ShutIInv => GraceIsGranted
  BY DEF ShutIInv, GraceIsGranted
<1> QED
  BY <1>1, ShutInductive, PTL
=============================================================================
