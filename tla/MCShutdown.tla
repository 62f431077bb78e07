---- MODULE MCShutdown ----
(* Instances of Shutdown for TLC. *)
EXTENDS Shutdown
CONSTANTS e1, e2
====
