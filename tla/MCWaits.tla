---- MODULE MCWaits ----
(* Instances of Waits for TLC. *)
EXTENDS Waits
CONSTANTS w1, w2
====
