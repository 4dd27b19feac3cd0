-------------------------- MODULE MCQuestionControl --------------------------
(* Instance of QuestionControl for TLC: a root q0, two children q1 and q2,  *)
(* a grandchild q3 below q1, a Question q4 without a parent, and three      *)
(* operations.                                                              *)
EXTENDS QuestionControl, TLC

CONSTANTS q0, q1, q2, q3, q4, c1, c2, c3

MCQuestions == {q0, q1, q2, q3, q4}
MCParent == (q1 :> q0) @@ (q2 :> q0) @@ (q3 :> q1) @@ (q4 :> q4)
MCTwoParent == q1 :> q0
MCControls == {c1, c2, c3}

ControlSymmetry == Permutations(MCControls)

=============================================================================
