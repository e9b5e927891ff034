----------------------------- MODULE JobServer -----------------------------
(***************************************************************************)
(* What the API may rely on in a grading server, and all it relies on:     *)
(* jobs are handed in once each, a job that was handed in gets at most one *)
(* answer, answers come in any order, and once the server has stopped      *)
(* there are no more of them.                                              *)
(***************************************************************************)
CONSTANTS Jobs, Outcomes

VARIABLES submitted, answers, stopped

Unanswered == {j \in submitted : \A a \in answers : a.job # j}

Submit == \E j \in Jobs \ submitted :
  submitted' = submitted \cup {j} /\ UNCHANGED <<answers, stopped>>

Answer == ~stopped /\ \E j \in Unanswered, o \in Outcomes :
  answers' = answers \cup {[job |-> j, outcome |-> o]} /\ UNCHANGED <<submitted, stopped>>

Stop == stopped' = TRUE /\ UNCHANGED <<submitted, answers>>

Spec == /\ submitted = {} /\ answers = {} /\ stopped = FALSE
        /\ [][Submit \/ Answer \/ Stop]_<<submitted, answers, stopped>>
=============================================================================
