----------------------------- MODULE MCGrpoTraining -----------------------------
(* Instances of GrpoTraining for TLC: the two jobs at a small scale. *)
EXTENDS GrpoTraining

MathJob == [kind |-> "math", last |-> 4, test |-> 1, save |-> 2, keep |-> 0,
            milestones |-> {}]
DocVqaJob == [kind |-> "docvqa", last |-> 5, test |-> 0, save |-> 1, keep |-> 1,
              milestones |-> {3, 5}]
MCJobs == {MathJob, DocVqaJob}
MCMathJob == {MathJob}
=============================================================================
