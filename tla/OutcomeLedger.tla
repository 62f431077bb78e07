--------------------------- MODULE OutcomeLedger ---------------------------
(***************************************************************************)
(* What the detached executions promise the audit log, without registry,   *)
(* calls, goroutines or retention: every launched command has one outcome, *)
(* and that outcome is entered once, unchanged, and eventually.            *)
(***************************************************************************)
CONSTANTS Execs, States, None

VARIABLES
  outcome,   \* what became of the command; None until it has returned
  ledger     \* the account of it: "unstarted", "open", or the state entered

Init ==
  /\ outcome = [e \in Execs |-> None]
  /\ ledger = [e \in Execs |-> "unstarted"]

Open(e) ==
  /\ ledger[e] = "unstarted"
  /\ ledger' = [ledger EXCEPT ![e] = "open"]
  /\ UNCHANGED outcome

Decide(e) ==
  /\ ledger[e] = "open"
  /\ outcome[e] = None
  /\ \E s \in States : outcome' = [outcome EXCEPT ![e] = s]
  /\ UNCHANGED ledger

Settle(e) ==
  /\ ledger[e] = "open"
  /\ outcome[e] # None
  /\ ledger' = [ledger EXCEPT ![e] = outcome[e]]
  /\ UNCHANGED outcome

Next == \E e \in Execs : Open(e) \/ Decide(e) \/ Settle(e)

vars == <<outcome, ledger>>

SafeSpec == Init /\ [][Next]_vars

Spec == SafeSpec /\ \A e \in Execs : WF_vars(Decide(e) \/ Settle(e))
=============================================================================
