------------------------ MODULE MCForegroundControl ------------------------
(***************************************************************************)
(* Two Questions, the root q1 and its child q2, for checking               *)
(* ForegroundControl with TLC.                                             *)
(***************************************************************************)
EXTENDS ForegroundControl, TLC

CONSTANTS q1, q2

MCSubtree == (q1 :> {q1, q2}) @@ (q2 :> {q2})

(* Bound: a state with more Stage commits is checked, but not explored.      *)
FewCommits == Cardinality(commits) <= 5

OpSymmetry == Permutations(Ops)
=============================================================================
