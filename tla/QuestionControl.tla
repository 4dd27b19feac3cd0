--------------------------- MODULE QuestionControl ---------------------------
(***************************************************************************)
(* The tree of Questions of one Quest, as the Research Graph (RG) keeps    *)
(* it: Questions are accepted below a parent and never removed, and a      *)
(* confirmed prune or restore changes the lifecycle of a set of them       *)
(* through preview, prepare, apply or abort.                               *)
(*                                                                         *)
(* The graph version and the owner revision of the code only grow and are  *)
(* only compared for equality, so `current` and `fresh` hold the           *)
(* operations for which the comparison still succeeds.                     *)
(*                                                                         *)
(* One action is one RG transaction.  A manual Question is accepted in two *)
(* steps because its parent is looked up in an earlier read.               *)
(***************************************************************************)
EXTENDS FiniteSets, Naturals

CONSTANTS
  Questions,    \* the Questions that may ever be accepted
  Root,         \* the root Question of the Quest
  Parent,       \* Parent[q]: the Question below which q is accepted, and
                \* q itself when it is accepted below none
  Controls,     \* the prune and restore operations humans confirm
  NoControl,    \* no operation
  SpentRecords  \* whether a restore may name an already restored record

ASSUME TreeAssumption ==
  /\ Root \in Questions
  /\ Parent \in [Questions \ {Root} -> Questions]
  /\ NoControl \notin Controls
  /\ SpentRecords \in BOOLEAN

VARIABLES
  lifecycle,    \* rg_question_lifecycle: absent, active or pruned
  drafts,       \* manual Questions whose parent was found active
  control,      \* what each operation asks for
  fresh,        \* operations still to prepare whose preview is current
  reserved,     \* rg_question_control_reservations: status
  affected,     \* rg_question_control_reservations: affected_refs
  current,      \* reserved operations whose graph version is current
  restored      \* prune operations named by a row of rg_restore_records

treeVars == <<lifecycle, drafts>>
controlVars == <<control, fresh, reserved, affected, current, restored>>
questionVars == <<lifecycle, drafts, control, fresh, reserved, affected,
                  current, restored>>

-----------------------------------------------------------------------------
(* The tree                                                                *)

Accepted == {q \in Questions : lifecycle[q] # "absent"}
Active == {q \in Questions : lifecycle[q] = "active"}
Pruned == {q \in Questions : lifecycle[q] = "pruned"}

ClosedBelow(S) ==
  \A q \in Accepted \ {Root} : Parent[q] \in S => q \in S

(* _question_subtree_refs: the Question and everything accepted below it,  *)
(* whatever its lifecycle.                                                 *)
SubtreeOf(root) ==
  {q \in Accepted :
     \A S \in SUBSET Questions : root \in S /\ ClosedBelow(S) => q \in S}

-----------------------------------------------------------------------------
(* Operations                                                              *)

Asks(c) == control[c].action

(* The PruneRecord of an applied prune, by its operation.                  *)
PruneRecords == {c \in Controls : Asks(c) = "prune" /\ reserved[c] = "applied"}
OpenRecords == PruneRecords \ restored

(* _question_control_affected_refs                                         *)
AffectedBy(c) ==
  IF Asks(c) = "prune" THEN SubtreeOf(control[c].root)
  ELSE affected[control[c].record]

Required(c) == IF Asks(c) = "prune" THEN "active" ELSE "pruned"
NextStatus(c) == IF Asks(c) = "prune" THEN "pruned" ELSE "active"

-----------------------------------------------------------------------------
InitQuestions ==
  /\ lifecycle = [q \in Questions |-> IF q = Root THEN "active" ELSE "absent"]
  /\ drafts = {}
  /\ control = [c \in Controls |->
                 [action |-> "none", root |-> Root, record |-> NoControl]]
  /\ fresh = {}
  /\ reserved = [c \in Controls |-> "none"]
  /\ affected = [c \in Controls |-> {}]
  /\ current = {}
  /\ restored = {}

(* The owner revision moves with every write of RG.                        *)
RevisionMoves == fresh' = {}

(* Mutant: only the owner revision moves.                                  *)
LeavesGraphVersion == UNCHANGED current /\ RevisionMoves

(* The graph version moves with every accepted Question and lifecycle      *)
(* change of the Quest.                                                    *)
GraphMoves == current' = {} /\ RevisionMoves

-----------------------------------------------------------------------------
(* Questions are accepted                                                  *)

(* ManualQuestionCreation._reconcile reads the parent through              *)
(* query_question_by_ref, which returns nothing for a pruned one ...       *)
CheckManualParent(q) ==
  /\ q # Root /\ lifecycle[q] = "absent"
  /\ Parent[q] \in Active
  /\ drafts' = drafts \cup {q}
  /\ UNCHANGED <<lifecycle, controlVars>>

(* ... and accept_manual_question later checks the parent's receipt only.  *)
AcceptManualQuestion(q) ==
  /\ q \in drafts /\ lifecycle[q] = "absent"
  /\ lifecycle' = [lifecycle EXCEPT ![q] = "active"]
  /\ drafts' = drafts \ {q}
  /\ GraphMoves
  /\ UNCHANGED <<control, reserved, affected, restored>>

(* An autonomous Question in the mode "new" has no parent; the parent of a  *)
(* "decompose" is looked up by its receipt, whatever its lifecycle.        *)
AutonomousParentKnown(q) == Parent[q] = q \/ Parent[q] \in Accepted

(* accept_autonomous_question, under the writer fence.                     *)
AcceptAutonomousQuestion(q) ==
  /\ q # Root /\ lifecycle[q] = "absent" /\ q \notin drafts
  /\ AutonomousParentKnown(q)
  /\ lifecycle' = [lifecycle EXCEPT ![q] = "active"]
  /\ GraphMoves
  /\ UNCHANGED <<drafts, control, reserved, affected, restored>>

(* Any other write of RG: a Quest, an Asset role, a goal revision.         *)
OtherGraphWrite ==
  /\ fresh # {}
  /\ RevisionMoves
  /\ UNCHANGED <<treeVars, control, reserved, affected, current, restored>>

-----------------------------------------------------------------------------
(* Prune and restore                                                       *)

(* preview_question_control for a prune, then the human's confirmation.    *)
(* The preview speaks of the active part of the subtree only.              *)
PreviewPrune(c, root) ==
  /\ Asks(c) = "none"
  /\ root \in Active
  /\ control' = [control EXCEPT ![c] =
                   [action |-> "prune", root |-> root, record |-> NoControl]]
  /\ fresh' = fresh \cup {c}
  /\ UNCHANGED <<treeVars, reserved, affected, current, restored>>

(* preview_question_control for a restore: every member of the record must *)
(* be pruned.  The record view of the web client offers open records; the  *)
(* Owner itself takes any record of the Quest.                             *)
PreviewRestore(c, r) ==
  /\ Asks(c) = "none"
  /\ r \in PruneRecords
  /\ r \in OpenRecords \/ SpentRecords
  /\ affected[r] \subseteq Pruned
  /\ control' = [control EXCEPT ![c] =
                   [action |-> "restore", root |-> control[r].root,
                    record |-> r]]
  /\ fresh' = fresh \cup {c}
  /\ UNCHANGED <<treeVars, reserved, affected, current, restored>>

(* Mutant: a prune takes its subtree whatever the members' status.         *)
MayReserveAny(c) == reserved[c] = "none" /\ c \in fresh

(* The conditions under which prepare_question_control reserves: all of    *)
(* the affected Questions are in the required status, a pruned descendant  *)
(* refuses a prune.                                                        *)
MayReserve(c) ==
  /\ reserved[c] = "none"
  /\ c \in fresh
  /\ \A q \in AffectedBy(c) : lifecycle[q] = Required(c)

PrepareQuestionControl(c) ==
  /\ Asks(c) # "none"
  /\ MayReserve(c)
  /\ reserved' = [reserved EXCEPT ![c] = "prepared"]
  /\ affected' = [affected EXCEPT ![c] = AffectedBy(c)]
  /\ current' = current \cup {c}
  /\ fresh' = fresh \ {c}
  /\ UNCHANGED <<treeVars, control, restored>>

(* abort_question_control: it refuses an applied operation and is silent   *)
(* about one that reserved nothing.                                        *)
AbortQuestionControl(c) ==
  /\ reserved[c] # "applied"
  /\ reserved' = [reserved EXCEPT ![c] =
                    IF @ = "prepared" THEN "aborted" ELSE @]
  /\ current' = current \ {c}
  /\ UNCHANGED <<treeVars, control, fresh, affected, restored>>

(* Mutant: the graph version is not compared.                              *)
MayApplyStale(c) == reserved[c] = "prepared"

(* The write of apply_question_control: the reservation still stands, the  *)
(* graph has not moved since, and a restored root has an active parent.  A *)
(* refusal rolls the transaction back, so the reservation stays prepared.  *)
MayApply(c) ==
  /\ reserved[c] = "prepared"
  /\ c \in current
  /\ Asks(c) = "restore" /\ control[c].root # Root =>
       \/ Parent[control[c].root] \in Active
       \/ Parent[control[c].root] \in affected[c]

(* Mutant: the restore record does not name the prune record.              *)
NamesNothing(c) == {}

NamedRecords(c) == IF Asks(c) = "restore" THEN {control[c].record} ELSE {}

ApplyQuestionControl(c) ==
  /\ MayApply(c)
  /\ lifecycle' = [q \in Questions |->
                     IF q \in affected[c] THEN NextStatus(c) ELSE lifecycle[q]]
  /\ reserved' = [reserved EXCEPT ![c] = "applied"]
  /\ restored' = restored \cup NamedRecords(c)
  /\ GraphMoves
  /\ UNCHANGED <<drafts, control, affected>>

-----------------------------------------------------------------------------
Growth ==
  \/ \E q \in Questions \ {Root} :
       \/ CheckManualParent(q)
       \/ AcceptManualQuestion(q)
       \/ AcceptAutonomousQuestion(q)
  \/ OtherGraphWrite

Control(c) ==
  \/ \E root \in Questions : PreviewPrune(c, root)
  \/ \E r \in Controls : PreviewRestore(c, r)
  \/ PrepareQuestionControl(c)
  \/ reserved[c] # "none" /\ AbortQuestionControl(c)
  \/ ApplyQuestionControl(c)

NextQuestions == Growth \/ \E c \in Controls : Control(c)

SpecQuestions == InitQuestions /\ [][NextQuestions]_questionVars

-----------------------------------------------------------------------------
(* Types                                                                   *)

(* Type invariant of RG's lifecycle rows and reservations; an operation    *)
(* that holds or held a reservation asked for something, and a restore     *)
(* names the record of an applied prune.                                   *)
QuestionTypeOK ==
  /\ lifecycle \in [Questions -> {"absent", "active", "pruned"}]
  /\ drafts \subseteq Questions \ {Root}
  /\ control \in [Controls -> [action : {"none", "prune", "restore"},
                               root : Questions,
                               record : Controls \cup {NoControl}]]
  /\ fresh \subseteq Controls
  /\ reserved \in [Controls -> {"none", "prepared", "applied", "aborted"}]
  /\ affected \in [Controls -> SUBSET Questions]
  /\ current \subseteq Controls
  /\ restored \subseteq Controls

-----------------------------------------------------------------------------
(* Properties                                                              *)

Holds(c) == reserved[c] = "prepared" /\ c \in current

(* A reservation the apply would accept still describes the graph: for a   *)
(* prune its frozen set is the whole subtree as it is now, and every       *)
(* member has the status it had when it was reserved.  No Question can     *)
(* slip in below the root, or change, between the reservation and the      *)
(* write without the graph version betraying it.                           *)
FrozenScopeHolds ==
  \A c \in Controls : Holds(c) =>
    /\ \A q \in affected[c] : lifecycle[q] = Required(c)
    /\ Asks(c) = "prune" => affected[c] = SubtreeOf(control[c].root)

(* query_restorable_prune_records "Expose[s] exact, still-current          *)
(* PruneRecords": every member of a record that no restore has named is    *)
(* pruned, else the whole recovery view of the Quest raises                *)
(* question_prune_record_not_current.                                      *)
OpenRecordsArePruned == \A r \in OpenRecords : affected[r] \subseteq Pruned

(* A pruned Question is covered by exactly one open record, so the         *)
(* recovery view shows the one restore that brings it back.                *)
PrunedIsRecoverable ==
  \A q \in Pruned : Cardinality({r \in OpenRecords : q \in affected[r]}) = 1

Orphaned(q) == q # Root /\ q \in Active /\ Parent[q] \in Pruned

(* Applying a control never leaves an active Question under a pruned       *)
(* parent that was not so before: a prune takes everything below its root, *)
(* a restore brings back nothing below a parent that stays pruned.         *)
ControlOrphansNothing ==
  [][\A c \in Controls : reserved'[c] = "applied" /\ reserved[c] # "applied" =>
       \A q \in Questions : Orphaned(q)' => Orphaned(q)]_questionVars

=============================================================================
