---------------------------- MODULE MCControlSaga ----------------------------
(* Instance of ControlSaga for TLC: a root q0 and a child q1, two commands  *)
(* and the two drivers of the daemon.                                       *)
EXTENDS ControlSaga, TLC

CONSTANTS q0, q1, c1, c2, web, recovery

MCQuestions == {q0, q1}
MCParent == q1 :> q0
MCControls == {c1, c2}
MCDrivers == {web, recovery}

Asked(k) == {c \in Controls : kind[c] = k}
Others(k) == {kind[c] : c \in Controls} \ {"none", k}

Stranded(p) == kind[p] = "prune" /\ aeOps[p] = "prepared" /\ pending # p

AtWork == {d \in Drivers : ~At(d, "idle")}

(* The places where a second command makes a difference to a first one that *)
(* is being driven: a restore of what the first prunes, a switch beside a   *)
(* prune reserved at RG or stranded, a switch without its target, a forced  *)
(* switch over a waiting one.                                               *)
CommandsMeet ==
  \/ /\ Cardinality({c \in Controls : Works(c)}) = 2
     /\ Asked("normal_switch") # {}
     /\ \E p \in Asked("prune") : reserved[p] = "prepared"
  \/ Asked("restore") # {} /\ Cardinality({c \in Controls : Works(c)}) <= 1
  \/ \E c \in Controls, p \in Controls :
       kind[c] \in SwitchKinds /\ pending = c /\ Stranded(p)
  \/ \E c \in Controls : aeOps[c] = "invalidated"
  \/ /\ Asked("forced_switch") # {}
     /\ \E c \in Asked("normal_switch") : aeOps[c] = "handoff_pending"

(* Bounds: a state in which both commands ask for the same, in which a      *)
(* command for one Run is not alone or a forced switch meets anything but a *)
(* normal one, or in which both drivers are at work though two commands are *)
(* confirmed that do not meet, is checked but not explored.                 *)
Explored ==
  /\ Cardinality(AtWork) <= 1 \/ Asked("none") # {} \/ CommandsMeet
  /\ \A k \in Kinds : Cardinality(Asked(k)) <= 1
  /\ Asked("pause_run") # {} => Others("pause_run") = {}
  /\ Asked("forced_switch") # {} => Others("forced_switch") \subseteq {"normal_switch"}

CommandSymmetry == Permutations(MCControls)

=============================================================================
