----------------------------- MODULE MCSessions -----------------------------
(* Sessions for TLC: requests are alike, and so are passwords. *)
EXTENDS Sessions, TLC

Symmetry == Permutations(Requests) \cup Permutations(Passwords)
=============================================================================
