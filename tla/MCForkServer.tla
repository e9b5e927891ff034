---------------------------- MODULE MCForkServer ----------------------------
(* ForkServer for TLC, as an implementation of the grading server the API relies on. *)
EXTENDS ForkServer

Service == INSTANCE JobServer WITH
  submitted <- sent,
  answers   <- {replies[i] : i \in DOMAIN replies},
  stopped   <- (pc = "exited")

(* Seen from outside, the select loop of serve(), its queues and its children are a      *)
(* JobServer: at most one answer per job, only for jobs handed in, none after it exited. *)
IsAJobServer == Service!Spec
=============================================================================
