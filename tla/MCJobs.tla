---- MODULE MCJobs ----
(* Instances of Jobs for TLC. *)
EXTENDS Jobs
CONSTANTS j1, j2
====
