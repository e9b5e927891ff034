----------------------------- MODULE MCSandbox -----------------------------
(* WarmSandbox for TLC: the grades are interchangeable. *)
EXTENDS WarmSandbox, TLC

GradesAlike == Permutations(Grades)
=============================================================================
