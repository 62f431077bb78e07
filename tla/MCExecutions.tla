---- MODULE MCExecutions ----
(* Instances of Executions for TLC: executions are model values. *)
EXTENDS Executions

CONSTANTS e1, e2
====
