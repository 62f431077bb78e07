------------------------------- MODULE MCLogs -------------------------------
(* One reader of one log at a time: a wait on the file (LogProbe) or a client *)
(* of remote_tail_log (TailLog).                                              *)
EXTENDS LogProbe, TailLog

vars == <<logVars, probeVars, tailVars>>

Init ==
  /\ LogInit
  /\ \/ ProbeStarts("none") /\ \E m \in {"tail", "line", "match"} : TailStarts(m)
     \/ TailStarts("none") /\ \E c \in Conditions : ProbeStarts(c)

Next ==
  \/ ProbeNext /\ UNCHANGED tailVars
  \/ TailNext /\ UNCHANGED probeVars

\* The reader goes on: the ticker of a wait starts the next check, the client of
\* remote_tail_log its next call. Nothing is assumed of the writers.
Reader == \/ cond # "none" /\ Probe /\ UNCHANGED tailVars
          \/ tmode # "none" /\ TailPoll /\ UNCHANGED probeVars

Spec == Init /\ [][Next]_vars /\ WF_vars(Reader)

\* Readers reach what is there to stay: a probe finds a match that stays in the
\* file, and the cursor of a tail client comes to its end (buildProbe, TailLog).
ReadersCatchUp == MatchIsFound /\ TailCatchesUp

=============================================================================
