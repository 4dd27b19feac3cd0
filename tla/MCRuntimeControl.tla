-------------------------- MODULE MCRuntimeControl --------------------------
(* Instances of RuntimeControl for TLC.                                    *)
EXTENDS RuntimeControl, TLC

RunSymmetry == Permutations(Runs)
=============================================================================
