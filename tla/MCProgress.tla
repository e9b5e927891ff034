----------------------------- MODULE MCProgress -----------------------------
(* LearnerProgress for TLC, with the grade book that one learner's requests, *)
(* one at a time, keep.                                                      *)
EXTENDS LearnerProgress

(* Every score a submission can get in the instance. *)
Attainable == {0} \cup
  {Graded(raw, hints, Threshold, PerTier).score : raw \in Raws, hints \in {0} \cup Tiers}

Book == INSTANCE GradeBook WITH
  Scores <- Attainable,
  count  <- row.count,
  best   <- row.best,
  stars  <- row.stars,
  passed <- (row.passedAt # Never)

(* One request at a time, the steps of every operation together keep the book: a graded *)
(* submission enters it in one step and the steps of the others leave it alone.         *)
KeepsTheBook == Book!Spec
=============================================================================
