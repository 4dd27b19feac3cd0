------------------------ MODULE QuestionControlProofs ------------------------
(***************************************************************************)
(* Proofs about QuestionControl, for every tree of Questions and every set *)
(* of operations.                                                          *)
(***************************************************************************)
EXTENDS QuestionControl, FiniteSetTheorems, TLAPS

-----------------------------------------------------------------------------
(* The tree                                                                *)

(* A subtree depends on nothing but the lifecycle of the Questions.        *)
LEMMA SubtreeStable ==
  ASSUME lifecycle' = lifecycle
  PROVE  /\ Accepted' = Accepted
         /\ \A root : SubtreeOf(root)' = SubtreeOf(root)
  BY DEF Accepted, SubtreeOf, ClosedBelow

(* The root of a subtree is in it, and so is every Question accepted below *)
(* a member.                                                               *)
LEMMA SubtreeClosed ==
  ASSUME NEW root \in Accepted
  PROVE  /\ root \in SubtreeOf(root)
         /\ SubtreeOf(root) \subseteq Accepted
         /\ ClosedBelow(SubtreeOf(root))
  BY DEF SubtreeOf, ClosedBelow, Accepted

(* A subtree has no member but its root whose parent is outside: without   *)
(* such a member it would still be closed.                                 *)
LEMMA SubtreeConnected ==
  ASSUME NEW root \in Accepted, NEW q \in SubtreeOf(root),
         q # root, q # Root
  PROVE  Parent[q] \in SubtreeOf(root)
<1>1. SUFFICES ASSUME Parent[q] \notin SubtreeOf(root) PROVE FALSE
  OBVIOUS
<1> DEFINE S == SubtreeOf(root) \ {q}
<1>2. root \in S /\ S \in SUBSET Questions
  BY SubtreeClosed DEF Accepted
<1>3. ClosedBelow(S)
  BY <1>1, SubtreeClosed DEF ClosedBelow
<1>4. q \in S
  BY <1>2, <1>3 DEF SubtreeOf
<1> QED BY <1>4

-----------------------------------------------------------------------------
(* The invariant, whatever records a restore may name                      *)

(* What an operation asks for is known before it reserves anything, about  *)
(* a Question that was accepted; a restore names the record of a prune.    *)
AskedFirst ==
  \A c \in Controls :
    /\ Asks(c) = "none" => reserved[c] = "none" /\ c \notin fresh
    /\ Asks(c) # "none" => control[c].root \in Accepted
    /\ Asks(c) = "restore" =>
         /\ control[c].record \in PruneRecords
         /\ control[c].root = control[control[c].record].root

(* The frozen set of a prune is connected to its root, that of a restore   *)
(* is the one of its record.                                               *)
FrozenSets ==
  \A c \in Controls : reserved[c] \in {"prepared", "applied"} =>
    /\ Asks(c) = "restore" => affected[c] = affected[control[c].record]
    /\ Asks(c) = "prune" =>
         \A q \in affected[c] : q \in {control[c].root, Root} \/ Parent[q] \in affected[c]

(* A restore record names the record of an applied prune.                  *)
RestoredAreRecords == restored \subseteq PruneRecords

QuestionInvariant ==
  /\ QuestionTypeOK
  /\ AskedFirst
  /\ FrozenSets
  /\ RestoredAreRecords
  /\ FrozenScopeHolds

LEMMA QuestionInit == InitQuestions => QuestionInvariant
<1> SUFFICES ASSUME InitQuestions PROVE QuestionInvariant
  OBVIOUS
<1>1. QuestionTypeOK
  BY TreeAssumption DEF InitQuestions, QuestionTypeOK
<1>2. AskedFirst /\ FrozenSets /\ RestoredAreRecords /\ FrozenScopeHolds
  BY DEF InitQuestions, AskedFirst, FrozenSets, RestoredAreRecords,
         FrozenScopeHolds, Asks, Holds, PruneRecords
<1> QED BY <1>1, <1>2 DEF QuestionInvariant

-----------------------------------------------------------------------------
(* Steps that accept Questions or touch no operation                       *)

(* An accepted Question outdates every reservation.                        *)
LEMMA AcceptKeeps ==
  ASSUME QuestionInvariant, NEW q \in Questions, lifecycle[q] = "absent",
         lifecycle' = [lifecycle EXCEPT ![q] = "active"],
         drafts' \subseteq drafts, current' = {}, fresh' = {},
         UNCHANGED <<control, reserved, affected, restored>>
  PROVE  QuestionInvariant'
<1> USE DEF QuestionInvariant
<1>1. QuestionTypeOK'
  BY DEF QuestionTypeOK
<1>2. Accepted \subseteq Accepted'
  BY DEF QuestionTypeOK, Accepted
<1>3. AskedFirst'
  BY <1>2 DEF AskedFirst, Asks, PruneRecords
<1>4. FrozenSets' /\ RestoredAreRecords'
  BY DEF FrozenSets, RestoredAreRecords, Asks, PruneRecords
<1>5. FrozenScopeHolds'
  BY DEF FrozenScopeHolds, Holds
<1> QED BY <1>1, <1>3, <1>4, <1>5

LEMMA QuietKeeps ==
  ASSUME QuestionInvariant, drafts' \in SUBSET (Questions \ {Root}),
         fresh' \subseteq fresh, current' \subseteq current,
         UNCHANGED <<lifecycle, control, reserved, affected, restored>>
  PROVE  QuestionInvariant'
<1> USE DEF QuestionInvariant
<1>1. QuestionTypeOK'
  BY DEF QuestionTypeOK
<1>2. AskedFirst'
  BY SubtreeStable DEF AskedFirst, Asks, PruneRecords
<1>3. FrozenSets' /\ RestoredAreRecords'
  BY DEF FrozenSets, RestoredAreRecords, Asks, PruneRecords
<1>4. FrozenScopeHolds'
  BY SubtreeStable DEF FrozenScopeHolds, Holds, Asks, Required
<1> QED BY <1>1, <1>2, <1>3, <1>4

LEMMA GrowthKeeps ==
  ASSUME QuestionInvariant, Growth
  PROVE  QuestionInvariant'
<1>1. CASE OtherGraphWrite
  BY <1>1, QuietKeeps
     DEF OtherGraphWrite, RevisionMoves, treeVars, QuestionInvariant, QuestionTypeOK
<1>2. ASSUME NEW q \in Questions \ {Root}, CheckManualParent(q)
      PROVE  QuestionInvariant'
  BY <1>2, QuietKeeps
     DEF CheckManualParent, controlVars, QuestionInvariant, QuestionTypeOK
<1>3. ASSUME NEW q \in Questions \ {Root}, AcceptManualQuestion(q)
      PROVE  QuestionInvariant'
  BY <1>3, AcceptKeeps DEF AcceptManualQuestion, GraphMoves, RevisionMoves
<1>4. ASSUME NEW q \in Questions \ {Root}, AcceptAutonomousQuestion(q)
      PROVE  QuestionInvariant'
  BY <1>4, AcceptKeeps DEF AcceptAutonomousQuestion, GraphMoves, RevisionMoves
<1> QED BY <1>1, <1>2, <1>3, <1>4 DEF Growth

-----------------------------------------------------------------------------
(* Steps of an operation                                                   *)

(* An operation that asks for the first time has reserved nothing.         *)
LEMMA AskKeeps ==
  ASSUME QuestionInvariant, NEW c \in Controls, Asks(c) = "none",
         NEW a \in {"prune", "restore"}, NEW root \in Accepted,
         NEW r \in Controls \cup {NoControl},
         a = "restore" => r \in PruneRecords /\ root = control[r].root,
         control' = [control EXCEPT ![c] = [action |-> a, root |-> root, record |-> r]],
         fresh' = fresh \cup {c},
         UNCHANGED <<treeVars, reserved, affected, current, restored>>
  PROVE  QuestionInvariant'
<1> USE DEF QuestionInvariant
<1>1. QuestionTypeOK'
  BY DEF QuestionTypeOK, treeVars, Accepted
<1>2. control'[c] = [action |-> a, root |-> root, record |-> r]
      /\ \A d \in Controls \ {c} : control'[d] = control[d]
  BY DEF QuestionTypeOK
<1>3. reserved[c] = "none" /\ c \notin PruneRecords
  BY DEF AskedFirst, PruneRecords
<1>4. PruneRecords' = PruneRecords
  BY <1>2, <1>3 DEF PruneRecords, Asks
<1>5. AskedFirst'
  <2> SUFFICES ASSUME NEW d \in Controls
               PROVE  /\ Asks(d)' = "none" => reserved'[d] = "none" /\ d \notin fresh'
                      /\ Asks(d)' # "none" => control'[d].root \in Accepted'
                      /\ Asks(d)' = "restore" =>
                           /\ control'[d].record \in PruneRecords'
                           /\ control'[d].root = control'[control'[d].record].root
    BY DEF AskedFirst
  <2>1. CASE d = c
    BY <2>1, <1>2, <1>3, <1>4, SubtreeStable DEF Asks, treeVars, PruneRecords
  <2>2. CASE d # c
    BY <2>2, <1>2, <1>3, <1>4, SubtreeStable
       DEF AskedFirst, Asks, treeVars, PruneRecords
  <2> QED BY <2>1, <2>2
<1>6. FrozenSets' /\ RestoredAreRecords'
  BY <1>2, <1>3, <1>4 DEF FrozenSets, RestoredAreRecords, Asks
<1>7. FrozenScopeHolds'
  BY <1>2, <1>3, SubtreeStable
     DEF FrozenScopeHolds, Holds, Asks, Required, treeVars
<1> QED BY <1>1, <1>5, <1>6, <1>7

LEMMA PreviewKeeps ==
  ASSUME QuestionInvariant, NEW c \in Controls,
         \/ \E root \in Questions : PreviewPrune(c, root)
         \/ \E r \in Controls : PreviewRestore(c, r)
  PROVE  QuestionInvariant'
<1>1. ASSUME NEW root \in Questions, PreviewPrune(c, root)
      PROVE  QuestionInvariant'
  <2>1. root \in Accepted
    BY <1>1 DEF PreviewPrune, Active, Accepted
  <2> QED BY <1>1, <2>1, AskKeeps DEF PreviewPrune
<1>2. ASSUME NEW r \in Controls, PreviewRestore(c, r)
      PROVE  QuestionInvariant'
  <2>1. control[r].root \in Accepted /\ r \in PruneRecords
    BY <1>2 DEF PreviewRestore, QuestionInvariant, AskedFirst, PruneRecords
  <2> QED BY <1>2, <2>1, AskKeeps DEF PreviewRestore
<1> QED BY <1>1, <1>2

(* The reservation freezes a connected set in the required status.         *)
LEMMA PrepareKeeps ==
  ASSUME QuestionInvariant, NEW c \in Controls, PrepareQuestionControl(c)
  PROVE  QuestionInvariant'
<1> USE DEF QuestionInvariant
<1>1. reserved[c] = "none" /\ Asks(c) \in {"prune", "restore"}
      /\ \A q \in AffectedBy(c) : lifecycle[q] = Required(c)
  BY DEF PrepareQuestionControl, MayReserve, QuestionTypeOK, Asks
<1>2. AffectedBy(c) \subseteq Questions
  BY <1>1 DEF AffectedBy, AskedFirst, PruneRecords, QuestionTypeOK, SubtreeOf, Accepted
<1>3. /\ reserved'[c] = "prepared" /\ affected'[c] = AffectedBy(c)
      /\ \A d \in Controls \ {c} : reserved'[d] = reserved[d] /\ affected'[d] = affected[d]
      /\ lifecycle' = lifecycle /\ control' = control /\ restored' = restored
      /\ current' = current \cup {c} /\ fresh' \subseteq fresh /\ drafts' = drafts
  BY DEF PrepareQuestionControl, QuestionTypeOK, treeVars
<1>4. QuestionTypeOK'
  BY <1>2, <1>3 DEF PrepareQuestionControl, QuestionTypeOK
<1>5. PruneRecords' = PruneRecords /\ c \notin PruneRecords
  BY <1>1, <1>3 DEF PruneRecords, Asks
<1>6. AskedFirst'
  BY <1>1, <1>3, <1>5, SubtreeStable DEF AskedFirst, Asks
<1>7. RestoredAreRecords'
  BY <1>3, <1>5 DEF RestoredAreRecords
<1>8. FrozenSets'
  <2>1. Asks(c) = "restore" => affected'[c] = affected'[control[c].record]
    BY <1>3, <1>5 DEF AffectedBy, AskedFirst, PruneRecords
  <2>2. Asks(c) = "prune" =>
          \A q \in affected'[c] : q \in {control[c].root, Root} \/ Parent[q] \in affected'[c]
    BY <1>3, SubtreeConnected DEF AffectedBy, AskedFirst
  <2>3. \A d \in Controls \ {c} : Asks(d) = "restore" /\ reserved[d] # "none" =>
          affected'[control[d].record] = affected[control[d].record]
    BY <1>3, <1>5 DEF AskedFirst, PruneRecords
  <2> QED BY <1>3, <2>1, <2>2, <2>3 DEF FrozenSets, Asks
<1>9. FrozenScopeHolds'
  <2>1. Asks(c) = "prune" => affected'[c] = SubtreeOf(control[c].root)
    BY <1>3 DEF AffectedBy
  <2> QED BY <1>1, <1>3, <2>1, SubtreeStable DEF FrozenScopeHolds, Holds, Asks, Required
<1> QED BY <1>4, <1>6, <1>7, <1>8, <1>9

LEMMA AbortKeeps ==
  ASSUME QuestionInvariant, NEW c \in Controls, AbortQuestionControl(c)
  PROVE  QuestionInvariant'
<1> USE DEF QuestionInvariant
<1>1. /\ reserved[c] # "applied" /\ reserved'[c] \notin {"prepared", "applied"}
      /\ (reserved[c] = "none" => reserved'[c] = "none")
      /\ \A d \in Controls \ {c} : reserved'[d] = reserved[d]
      /\ current' \subseteq current /\ fresh' = fresh
      /\ UNCHANGED <<lifecycle, drafts, control, affected, restored>>
  BY DEF AbortQuestionControl, QuestionTypeOK, treeVars
<1>2. QuestionTypeOK'
  BY DEF AbortQuestionControl, QuestionTypeOK, treeVars
<1>3. PruneRecords' = PruneRecords
  BY <1>1 DEF PruneRecords, Asks
<1>4. AskedFirst'
  BY <1>1, <1>3, SubtreeStable DEF AskedFirst, Asks
<1>5. FrozenSets' /\ RestoredAreRecords'
  BY <1>1, <1>3 DEF FrozenSets, RestoredAreRecords, Asks
<1>6. FrozenScopeHolds'
  BY <1>1, SubtreeStable DEF FrozenScopeHolds, Holds, Asks, Required
<1> QED BY <1>2, <1>4, <1>5, <1>6

(* What the write changes: the frozen set gets the next status.            *)
LEMMA ApplyChanges ==
  ASSUME QuestionInvariant, NEW c \in Controls, ApplyQuestionControl(c)
  PROVE  /\ Asks(c) \in {"prune", "restore"} /\ Holds(c) /\ MayApply(c)
         /\ \A q \in Questions : lifecycle'[q] =
              IF q \in affected[c] THEN NextStatus(c) ELSE lifecycle[q]
         /\ reserved'[c] = "applied"
         /\ \A d \in Controls \ {c} : reserved'[d] = reserved[d]
         /\ restored' = restored \cup NamedRecords(c)
         /\ current' = {} /\ fresh' = {}
         /\ UNCHANGED <<drafts, control, affected>>
  BY DEF QuestionInvariant, QuestionTypeOK, AskedFirst, ApplyQuestionControl,
         MayApply, Holds, GraphMoves, RevisionMoves, Asks

LEMMA ApplyKeeps ==
  ASSUME QuestionInvariant, NEW c \in Controls, ApplyQuestionControl(c)
  PROVE  QuestionInvariant'
<1> USE DEF QuestionInvariant
<1>1. QuestionTypeOK'
  <2>1. NextStatus(c) \in {"active", "pruned"}
    BY DEF NextStatus
  <2>2. NamedRecords(c) \subseteq Controls
    BY DEF NamedRecords, AskedFirst, PruneRecords
  <2> QED BY <2>1, <2>2, ApplyChanges
      DEF ApplyQuestionControl, QuestionTypeOK, GraphMoves, RevisionMoves
<1>2. Accepted' = Accepted
  <2>1. \A q \in affected[c] : lifecycle[q] # "absent"
    BY ApplyChanges DEF FrozenScopeHolds, Required
  <2> QED BY <2>1, ApplyChanges DEF Accepted, NextStatus
<1>3. PruneRecords \subseteq PruneRecords' /\ NamedRecords(c) \subseteq PruneRecords
      /\ c \notin PruneRecords
  BY ApplyChanges DEF PruneRecords, Asks, NamedRecords, AskedFirst, Holds
<1>4. AskedFirst'
  BY ApplyChanges, <1>2, <1>3 DEF AskedFirst, Asks
<1>5. FrozenSets'
  BY ApplyChanges DEF FrozenSets, Asks, Holds
<1>6. RestoredAreRecords'
  BY ApplyChanges, <1>3 DEF RestoredAreRecords
<1>7. FrozenScopeHolds'
  BY ApplyChanges DEF FrozenScopeHolds, Holds
<1> QED BY <1>1, <1>4, <1>5, <1>6, <1>7

LEMMA QuestionStep ==
  QuestionInvariant /\ [NextQuestions]_questionVars => QuestionInvariant'
<1> SUFFICES ASSUME QuestionInvariant, [NextQuestions]_questionVars
             PROVE  QuestionInvariant'
  OBVIOUS
<1>1. CASE Growth
  BY <1>1, GrowthKeeps
<1>2. ASSUME NEW c \in Controls, Control(c)
      PROVE  QuestionInvariant'
  BY <1>2, PreviewKeeps, PrepareKeeps, AbortKeeps, ApplyKeeps DEF Control
<1>3. CASE UNCHANGED questionVars
  BY <1>3, QuietKeeps DEF questionVars, QuestionInvariant, QuestionTypeOK
<1> QED BY <1>1, <1>2, <1>3 DEF NextQuestions

(* The lifecycle rows and reservations are well typed, a reservation that  *)
(* can be applied describes the graph as it is, and each frozen set is     *)
(* connected: for every tree, and whatever records restores name.          *)
THEOREM QuestionsInvariant == SpecQuestions => []QuestionInvariant
  BY QuestionInit, QuestionStep, PTL DEF SpecQuestions

THEOREM QuestionTypeCorrect == SpecQuestions => []QuestionTypeOK
  BY QuestionsInvariant, PTL DEF QuestionInvariant

(* No Question slips in below the root of a prune, or changes, between     *)
(* prepare_question_control and the write of apply_question_control.       *)
THEOREM FrozenScope == SpecQuestions => []FrozenScopeHolds
  BY QuestionsInvariant, PTL DEF QuestionInvariant

-----------------------------------------------------------------------------
(* The records, when restores name open records only                       *)

(* A restore that can still go on names an open record.                    *)
RestoresOpen ==
  \A c \in Controls :
    Asks(c) = "restore" /\ (c \in fresh \/ Holds(c)) => control[c].record \in OpenRecords

OpenDisjoint ==
  \A r, s \in OpenRecords : r # s => affected[r] \cap affected[s] = {}

PrunedCovered == \A q \in Pruned : \E r \in OpenRecords : q \in affected[r]

RecordsInvariant ==
  RestoresOpen /\ OpenRecordsArePruned /\ OpenDisjoint /\ PrunedCovered

LEMMA RecordsInit == InitQuestions => RecordsInvariant
  BY DEF InitQuestions, RecordsInvariant, RestoresOpen, OpenRecordsArePruned,
         OpenDisjoint, PrunedCovered, OpenRecords, PruneRecords, Pruned, Asks

(* A step that keeps the records, the pruned Questions and what recorded   *)
(* prunes froze needs to worry about the restores alone.                   *)
LEMMA RecordsFrame ==
  ASSUME RecordsInvariant, RestoresOpen',
         PruneRecords' = PruneRecords, restored' = restored, Pruned' = Pruned,
         \A r \in PruneRecords : affected'[r] = affected[r]
  PROVE  RecordsInvariant'
<1> USE DEF RecordsInvariant
<1>1. OpenRecords' = OpenRecords /\ OpenRecords \subseteq PruneRecords
  BY DEF OpenRecords
<1>2. OpenRecordsArePruned'
  BY <1>1 DEF OpenRecordsArePruned
<1>3. OpenDisjoint'
  BY <1>1 DEF OpenDisjoint
<1>4. PrunedCovered'
  BY <1>1 DEF PrunedCovered
<1> QED BY <1>2, <1>3, <1>4

LEMMA RecordsGrowth ==
  ASSUME QuestionInvariant, RecordsInvariant, Growth
  PROVE  RecordsInvariant'
<1> USE DEF QuestionInvariant
<1>1. /\ UNCHANGED <<control, reserved, affected, restored>>
      /\ fresh' \subseteq fresh /\ current' \subseteq current
  BY DEF Growth, CheckManualParent, AcceptManualQuestion, AcceptAutonomousQuestion,
         OtherGraphWrite, GraphMoves, RevisionMoves, controlVars
<1>2. Pruned' = Pruned
  BY DEF Growth, CheckManualParent, AcceptManualQuestion, AcceptAutonomousQuestion,
         OtherGraphWrite, treeVars, Pruned, QuestionTypeOK
<1>3. PruneRecords' = PruneRecords
  BY <1>1 DEF PruneRecords, Asks
<1>4. RestoresOpen'
  BY <1>1, <1>3 DEF RecordsInvariant, RestoresOpen, Holds, Asks, OpenRecords
<1> QED BY <1>1, <1>2, <1>3, <1>4, RecordsFrame

LEMMA RecordsPreview ==
  ASSUME ~SpentRecords, QuestionInvariant, RecordsInvariant, NEW c \in Controls,
         \/ \E root \in Questions : PreviewPrune(c, root)
         \/ \E r \in Controls : PreviewRestore(c, r)
  PROVE  RecordsInvariant'
<1> USE DEF QuestionInvariant
<1>1. /\ Asks(c) = "none" /\ reserved[c] = "none"
      /\ fresh' = fresh \cup {c}
      /\ \A d \in Controls \ {c} : control'[d] = control[d]
      /\ control'[c].action = "restore" => control'[c].record \in OpenRecords
      /\ UNCHANGED <<lifecycle, reserved, affected, current, restored>>
  BY DEF PreviewPrune, PreviewRestore, AskedFirst, QuestionTypeOK, treeVars
<1>2. PruneRecords' = PruneRecords
  BY <1>1 DEF PruneRecords, Asks
<1>3. RestoresOpen'
  BY <1>1, <1>2 DEF RecordsInvariant, RestoresOpen, Holds, Asks, OpenRecords
<1>4. Pruned' = Pruned
  BY <1>1 DEF Pruned
<1> QED BY <1>1, <1>2, <1>3, <1>4, RecordsFrame

LEMMA RecordsPrepare ==
  ASSUME QuestionInvariant, RecordsInvariant, NEW c \in Controls,
         PrepareQuestionControl(c)
  PROVE  RecordsInvariant'
<1> USE DEF QuestionInvariant
<1>1. /\ reserved[c] = "none" /\ c \in fresh
      /\ \A d \in Controls \ {c} : reserved'[d] = reserved[d] /\ affected'[d] = affected[d]
      /\ reserved'[c] = "prepared" /\ current' = current \cup {c} /\ fresh' \subseteq fresh
      /\ UNCHANGED <<lifecycle, control, restored>>
  BY DEF PrepareQuestionControl, MayReserve, QuestionTypeOK, treeVars
<1>2. PruneRecords' = PruneRecords /\ c \notin PruneRecords
  BY <1>1 DEF PruneRecords, Asks
<1>3. RestoresOpen'
  BY <1>1, <1>2 DEF RecordsInvariant, RestoresOpen, Holds, Asks, OpenRecords
<1>4. Pruned' = Pruned
  BY <1>1 DEF Pruned
<1>5. \A r \in PruneRecords : affected'[r] = affected[r]
  BY <1>1, <1>2 DEF PruneRecords
<1> QED BY <1>1, <1>2, <1>3, <1>4, <1>5, RecordsFrame

LEMMA RecordsAbort ==
  ASSUME QuestionInvariant, RecordsInvariant, NEW c \in Controls,
         AbortQuestionControl(c)
  PROVE  RecordsInvariant'
<1> USE DEF QuestionInvariant
<1>1. /\ reserved[c] # "applied" /\ reserved'[c] \notin {"prepared", "applied"}
      /\ \A d \in Controls \ {c} : reserved'[d] = reserved[d]
      /\ current' \subseteq current
      /\ UNCHANGED <<lifecycle, control, fresh, affected, restored>>
  BY DEF AbortQuestionControl, QuestionTypeOK, treeVars
<1>2. PruneRecords' = PruneRecords
  BY <1>1 DEF PruneRecords, Asks
<1>3. RestoresOpen'
  BY <1>1, <1>2 DEF RecordsInvariant, RestoresOpen, Holds, Asks, OpenRecords
<1>4. Pruned' = Pruned
  BY <1>1 DEF Pruned
<1> QED BY <1>1, <1>2, <1>3, <1>4, RecordsFrame

(* A prune adds a record of Questions that were active, so in no open      *)
(* record; a restore closes the one record that has its Questions.         *)
LEMMA RecordsApply ==
  ASSUME QuestionInvariant, RecordsInvariant, NEW c \in Controls,
         ApplyQuestionControl(c)
  PROVE  RecordsInvariant'
<1> USE DEF QuestionInvariant, RecordsInvariant
<1>1. RestoresOpen'
  BY ApplyChanges DEF RestoresOpen, Holds
<1>2. CASE Asks(c) = "prune"
  <2>1. OpenRecords' = OpenRecords \cup {c} /\ c \notin OpenRecords
    BY <1>2, ApplyChanges
       DEF OpenRecords, PruneRecords, Asks, NamedRecords, RestoredAreRecords, Holds
  <2>2. Pruned' = Pruned \cup affected[c]
    BY <1>2, ApplyChanges DEF Pruned, NextStatus, QuestionTypeOK
  <2>3. affected[c] \cap Pruned = {}
    BY <1>2, ApplyChanges DEF FrozenScopeHolds, Required, Pruned
  <2>4. affected' = affected
    BY ApplyChanges
  <2>5. OpenRecordsArePruned' /\ OpenDisjoint'
    BY <2>1, <2>2, <2>3, <2>4 DEF OpenRecordsArePruned, OpenDisjoint
  <2>6. PrunedCovered'
    BY <2>1, <2>2, <2>4 DEF PrunedCovered
  <2> QED BY <1>1, <2>5, <2>6
<1>3. CASE Asks(c) = "restore"
  <2> DEFINE p == control[c].record
  <2>1. p \in OpenRecords /\ affected[c] = affected[p]
    BY <1>3, ApplyChanges DEF RestoresOpen, FrozenSets, Holds
  <2>2. OpenRecords' = OpenRecords \ {p}
    BY <1>3, ApplyChanges DEF OpenRecords, PruneRecords, Asks, NamedRecords, Holds
  <2>3. Pruned' = Pruned \ affected[p]
    BY <1>3, <2>1, ApplyChanges DEF Pruned, NextStatus, QuestionTypeOK
  <2>4. affected' = affected
    BY ApplyChanges
  <2>5. OpenRecordsArePruned' /\ OpenDisjoint'
    BY <2>1, <2>2, <2>3, <2>4 DEF OpenRecordsArePruned, OpenDisjoint
  <2>6. PrunedCovered'
    BY <2>2, <2>3, <2>4 DEF PrunedCovered
  <2> QED BY <1>1, <2>5, <2>6
<1> QED BY <1>2, <1>3, ApplyChanges

LEMMA RecordsStep ==
  ASSUME ~SpentRecords, QuestionInvariant, RecordsInvariant,
         [NextQuestions]_questionVars
  PROVE  RecordsInvariant'
<1>1. CASE Growth
  BY <1>1, RecordsGrowth
<1>2. ASSUME NEW c \in Controls, Control(c)
      PROVE  RecordsInvariant'
  BY <1>2, RecordsPreview, RecordsPrepare, RecordsAbort, RecordsApply DEF Control
<1>3. CASE UNCHANGED questionVars
  <2>1. RestoresOpen' /\ PruneRecords' = PruneRecords /\ Pruned' = Pruned
    BY <1>3 DEF questionVars, RecordsInvariant, RestoresOpen, Holds, Asks,
                OpenRecords, PruneRecords, Pruned
  <2> QED BY <1>3, <2>1, RecordsFrame DEF questionVars
<1> QED BY <1>1, <1>2, <1>3 DEF NextQuestions

LEMMA RecordsHold ==
  ASSUME ~SpentRecords
  PROVE  SpecQuestions => []RecordsInvariant
<1>1. QuestionInvariant /\ RecordsInvariant /\ [NextQuestions]_questionVars
        => RecordsInvariant'
  BY RecordsStep
<1> QED BY <1>1, RecordsInit, QuestionsInvariant, PTL DEF SpecQuestions

(* query_restorable_prune_records never raises, and shows each pruned      *)
(* Question in exactly one record, as long as restores name the records it *)
(* shows.                                                                  *)
THEOREM RecoveryIsExact ==
  ASSUME ~SpentRecords
  PROVE  SpecQuestions => [](OpenRecordsArePruned /\ PrunedIsRecoverable)
<1>1. RecordsInvariant => OpenRecordsArePruned /\ PrunedIsRecoverable
  <2> SUFFICES ASSUME RecordsInvariant, NEW q \in Pruned
               PROVE  Cardinality({r \in OpenRecords : q \in affected[r]}) = 1
    BY DEF RecordsInvariant, PrunedIsRecoverable
  <2>1. PICK r \in OpenRecords : q \in affected[r]
    BY DEF RecordsInvariant, PrunedCovered
  <2>2. {s \in OpenRecords : q \in affected[s]} = {r}
    BY <2>1 DEF RecordsInvariant, OpenDisjoint
  <2> QED BY <2>2, FS_Singleton
<1> QED BY <1>1, RecordsHold, PTL

(* As long as restores name the records the recovery view shows, a pruned  *)
(* Question is in exactly one of them (query_restorable_prune_records).    *)
THEOREM PrunedStaysRecoverable ==
  ASSUME ~SpentRecords
  PROVE  SpecQuestions => []PrunedIsRecoverable
  BY RecoveryIsExact, PTL

-----------------------------------------------------------------------------
(* A control leaves nothing below a pruned parent                          *)

LEMMA ApplyOrphansNothing ==
  ASSUME QuestionInvariant, NEW c \in Controls, ApplyQuestionControl(c),
         NEW q \in Questions, Orphaned(q)'
  PROVE  Orphaned(q)
<1> USE DEF QuestionInvariant
<1>1. q # Root /\ Parent[q] \in Questions
      /\ lifecycle'[q] = "active" /\ lifecycle'[Parent[q]] = "pruned"
  BY DEF Orphaned, Active, Pruned
<1>2. CASE Asks(c) = "prune"
  <2>1. q \notin affected[c] /\ lifecycle[q] = "active"
    BY <1>1, <1>2, ApplyChanges DEF NextStatus
  <2>2. Parent[q] \notin affected[c]
    <3>1. affected[c] = SubtreeOf(control[c].root) /\ control[c].root \in Accepted
      BY <1>2, ApplyChanges DEF FrozenScopeHolds, AskedFirst
    <3>2. q \in Accepted
      BY <2>1 DEF Accepted
    <3> QED BY <1>1, <2>1, <3>1, <3>2, SubtreeClosed DEF ClosedBelow
  <2> QED BY <1>1, <2>1, <2>2, ApplyChanges DEF Orphaned, Active, Pruned
<1>3. CASE Asks(c) = "restore"
  <2> DEFINE p == control[c].record
  <2>1. /\ p \in PruneRecords /\ control[p].root = control[c].root
        /\ affected[c] = affected[p]
    BY <1>3, ApplyChanges DEF AskedFirst, FrozenSets, Holds
  <2>2. Parent[q] \notin affected[c] /\ lifecycle[Parent[q]] = "pruned"
    BY <1>1, <1>3, ApplyChanges DEF NextStatus
  <2>3. q # control[c].root
    BY <1>1, <1>3, <2>2, ApplyChanges DEF MayApply, Active
  <2>4. q \notin affected[c]
    <3>1. \A x \in affected[p] : x \in {control[p].root, Root} \/ Parent[x] \in affected[p]
      BY <2>1 DEF FrozenSets, PruneRecords
    <3> QED BY <1>1, <2>1, <2>2, <2>3, <3>1
  <2> QED BY <1>1, <2>2, <2>4, ApplyChanges DEF Orphaned, Active, Pruned
<1> QED BY <1>2, <1>3, ApplyChanges

(* A prune takes everything below its root, and a restore brings back      *)
(* nothing below a parent that stays pruned.                               *)
THEOREM OrphansNothing == SpecQuestions => ControlOrphansNothing
<1> DEFINE Kept ==
      \A c \in Controls : reserved'[c] = "applied" /\ reserved[c] # "applied" =>
        \A q \in Questions : Orphaned(q)' => Orphaned(q)
<1>1. ASSUME QuestionInvariant, NextQuestions
      PROVE  Kept
  <2> SUFFICES ASSUME NEW c \in Controls,
                      reserved'[c] = "applied", reserved[c] # "applied"
               PROVE  ApplyQuestionControl(c)
    BY <1>1, ApplyOrphansNothing
  <2>1. ~Growth
    BY DEF Growth, CheckManualParent, AcceptManualQuestion, AcceptAutonomousQuestion,
           OtherGraphWrite, controlVars
  <2>2. PICK d \in Controls : Control(d)
    BY <1>1, <2>1 DEF NextQuestions
  <2>3. ~PrepareQuestionControl(d)
    BY <1>1 DEF PrepareQuestionControl, QuestionInvariant, QuestionTypeOK
  <2>4. ~AbortQuestionControl(d)
    BY <1>1 DEF AbortQuestionControl, QuestionInvariant, QuestionTypeOK
  <2>5. ApplyQuestionControl(d)
    BY <2>2, <2>3, <2>4 DEF Control, PreviewPrune, PreviewRestore
  <2>6. d = c
    BY <1>1, <2>5 DEF ApplyQuestionControl, QuestionInvariant, QuestionTypeOK
  <2> QED BY <2>5, <2>6
<1>2. QuestionInvariant /\ [NextQuestions]_questionVars => [Kept]_questionVars
  BY <1>1
<1> QED BY <1>2, QuestionsInvariant, PTL DEF SpecQuestions, ControlOrphansNothing

=============================================================================
