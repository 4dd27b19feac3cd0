--------------------------- MODULE ControlOutcome ---------------------------
(***************************************************************************)
(* What a confirmed control command promises, whoever drives it and        *)
(* however often the daemon dies: its Owners act in one order, it is       *)
(* executed only when each of them has acted, and refused only when        *)
(* nothing but the Agent Runtime has; the runtime's part can be undone.    *)
(***************************************************************************)
EXTENDS Naturals

CONSTANT Commands

VARIABLES
  needs,     \* the Owners a command needs; none before it is confirmed
  effects,   \* the Owners whose effect is in place
  outcome    \* undecided, executed or refused

outcomeVars == <<needs, effects, outcome>>

Owners == {"runtime", "graph", "foreground"}

(* The Owners that must have acted before o does.                          *)
Before(c, o) ==
  CASE o = "runtime" -> {}
    [] o = "graph" -> {"runtime"}
    [] OTHER -> needs[c] \ {"foreground"}

InitOutcome ==
  /\ needs = [c \in Commands |-> {}]
  /\ effects = [c \in Commands |-> {}]
  /\ outcome = [c \in Commands |-> "undecided"]

Confirm(c) ==
  /\ needs[c] = {}
  /\ \E N \in SUBSET Owners :
       "runtime" \in N /\ needs' = [needs EXCEPT ![c] = N]
  /\ UNCHANGED <<effects, outcome>>

(* The runtime may still act for a command that another driver refuses at  *)
(* the same time; the graph and the foreground may not.                    *)
Act(c, o) ==
  /\ o \in needs[c] \ effects[c]
  /\ Before(c, o) \subseteq effects[c]
  /\ o = "runtime" \/ outcome[c] = "undecided"
  /\ outcome[c] # "executed"
  /\ effects' = [effects EXCEPT ![c] = @ \cup {o}]
  /\ UNCHANGED <<needs, outcome>>

Execute(c) ==
  /\ outcome[c] = "undecided"
  /\ needs[c] # {} /\ effects[c] = needs[c]
  /\ outcome' = [outcome EXCEPT ![c] = "executed"]
  /\ UNCHANGED <<needs, effects>>

OnlyRuntimeActed(c) == effects[c] \subseteq {"runtime"}

(* A command that needs only the runtime is decided by its effect.         *)
Refuse(c) ==
  /\ outcome[c] = "undecided"
  /\ OnlyRuntimeActed(c)
  /\ outcome' = [outcome EXCEPT ![c] = "refused"]
  /\ UNCHANGED <<needs, effects>>

Undo(c) ==
  /\ outcome[c] # "executed"
  /\ effects[c] = {"runtime"}
  /\ effects' = [effects EXCEPT ![c] = {}]
  /\ outcome' = [outcome EXCEPT ![c] = "refused"]
  /\ UNCHANGED needs

NextOutcome ==
  \E c \in Commands :
    \/ Confirm(c)
    \/ \E o \in Owners : Act(c, o)
    \/ Execute(c)
    \/ Refuse(c)
    \/ Undo(c)

SpecOutcome == InitOutcome /\ [][NextOutcome]_outcomeVars

-----------------------------------------------------------------------------
(* The promise: an executed command shows every effect, a refused one      *)
(* shows neither the graph's nor the foreground's.                         *)
AllOrNothing ==
  \A c \in Commands :
    /\ outcome[c] = "executed" => effects[c] = needs[c]
    /\ outcome[c] = "refused" => OnlyRuntimeActed(c)

(* A decision is final.                                                    *)
KeepsDecisions ==
  \A c \in Commands : outcome[c] # "undecided" => outcome'[c] = outcome[c]

DecidedOnce == [][KeepsDecisions]_outcomeVars

=============================================================================
