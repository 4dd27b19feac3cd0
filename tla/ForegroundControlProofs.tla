----------------------- MODULE ForegroundControlProofs -----------------------
(***************************************************************************)
(* Type correctness and the safety of the foreground, for every set of     *)
(* Questions, every Question tree, every set of operations and every       *)
(* bound: all of the properties of ForegroundControl that a run checks.    *)
(*                                                                         *)
(* IInv - a completed operation writes the Cycle and the Epoch it was      *)
(* prepared for, so what it writes is right only because it still holds    *)
(* the head it was prepared for (PendingIsCurrent), found an Epoch left    *)
(* when it may sign one, and recorded a target Cycle of its target         *)
(* Question (OpenOperationsRecorded); a resume revives the Grant of the    *)
(* head's Epoch, which must be the Grant of the head's Cycle (GrantOfHead).*)
(*                                                                         *)
(* On top of it three invariants, each inductive with IInv alone:          *)
(*   CommitsInOrder   Stage commits and the Stages of the Cycles;          *)
(*   LeftBehind       what a switch, a successor and an abort leave;       *)
(*   HeadCanWork      the Grant and the Question of an active head.        *)
(***************************************************************************)
EXTENDS ForegroundControl, TLAPS

(* What an open operation recorded when it was prepared.                   *)
OpenOperationsRecorded ==
  \A o \in Ops : Open(o) =>
    /\ ops[o].action \in Actions
    /\ ops[o].cycle \in CycleIds
    /\ ops[o].epoch \in Epochs
    /\ ops[o].action \in SwitchActions \cup {"resume"} =>
         ops[o].epoch < MaxEpoch
    /\ ops[o].target # 0 =>
         /\ cycles[ops[o].target].status # "none"
         /\ cycles[ops[o].target].question = ops[o].question

(* The Grant of the head's Epoch was signed for the head's Cycle.          *)
GrantOfHead == grants[head.epoch].cycle = head.cycle

IInv ==
  /\ TypeOK
  /\ OpenOperationsRecorded
  /\ PendingIsCurrent
  /\ SoleActiveGrant
  /\ GrantOfHead
  /\ HeadMatchesCycle

-----------------------------------------------------------------------------
(* Type correctness                                                        *)

(* The initial Cycle is active in Epoch 1 under the only Grant             *)
(* (activate_initial_cycle).                                               *)
LEMMA InitIInv == Init => IInv
<1>. SUFFICES ASSUME Init PROVE IInv
  OBVIOUS
<1>. USE ConstantsAssumption DEF Init
<1>1. TypeOK
  <2>1. head \in Head
    BY DEF Head, CycleIds, Epochs, Stages, HeadStatus
  <2>2. ActiveGrant(1, "idea") \in Grant /\ NoGrant \in Grant
    BY DEF ActiveGrant, NoGrant, Grant, GrantStatus, CycleIds, Stages
  <2>3. grants \in [Epochs -> Grant]
    BY <2>2
  <2>4. /\ NoCycle \in Cycle
        /\ [NoCycle EXCEPT !.status = "ongoing"] \in Cycle
    BY DEF NoCycle, Cycle, CycleStatus, CycleIds, Stages, SuspensionReason
  <2>5. cycles \in [CycleIds -> Cycle]
    BY <2>4
  <2>6. NoOperation \in Operation
    BY DEF NoOperation, Operation, OpStatus, Stages
  <2>7. ops \in [Ops -> Operation]
    BY <2>6
  <2>. QED
    BY <2>1, <2>3, <2>5, <2>7 DEF TypeOK
<1>2. OpenOperationsRecorded
  BY DEF OpenOperationsRecorded, Open, NoOperation
<1>3. PendingIsCurrent
  BY DEF PendingIsCurrent
<1>4. SoleActiveGrant
  BY DEF SoleActiveGrant, NoGrant, ActiveGrant, Epochs
<1>5. GrantOfHead
  BY DEF GrantOfHead, ActiveGrant, Epochs
<1>6. HeadMatchesCycle
  BY DEF HeadMatchesCycle, NoCycle, CycleIds
<1>. QED
  BY <1>1, <1>2, <1>3, <1>4, <1>5, <1>6 DEF IInv

(* The records of the model, and the constants they are made of.           *)
LEMMA Typed ==
  ASSUME NEW c \in CycleIds, NEW s \in Stages, NEW e \in Epochs
  PROVE  /\ ActiveGrant(c, s) \in Grant
         /\ NoOp \notin Ops
         /\ MaxEpoch \in Nat /\ MaxCycle \in Nat
         /\ e < MaxEpoch => e + 1 \in Epochs
BY ConstantsAssumption
   DEF ActiveGrant, Grant, GrantStatus, Stages, CycleIds, Epochs

(* Writing a suspension reason changes nothing else of the Cycles          *)
(* (UPDATE ae_cycles SET suspension_reason).                               *)
LEMMA ReasonOnly ==
  ASSUME NEW cs \in [CycleIds -> Cycle], NEW c \in CycleIds,
         NEW r \in SuspensionReason
  PROVE  /\ WithReason(cs, c, r) \in [CycleIds -> Cycle]
         /\ \A d \in CycleIds :
              /\ WithReason(cs, c, r)[d].question = cs[d].question
              /\ WithReason(cs, c, r)[d].stage = cs[d].stage
              /\ WithReason(cs, c, r)[d].status = cs[d].status
              /\ WithReason(cs, c, r)[d].successor = cs[d].successor
BY DEF WithReason, Cycle

(* A Stage commit moves the head and its Cycle to the same Stage           *)
(* (_advance_cycle_after_stage_commit).                                    *)
LEMMA AdvanceKeepsTypes ==
  ASSUME TypeOK, NEW p \in Position, NEW next \in Stages, Advance(p, next)
  PROVE  /\ head' \in Head
         /\ grants' \in [Epochs -> Grant]
         /\ cycles' \in [CycleIds -> Cycle]
<1>. USE DEF TypeOK, Advance, Position
<1>1. head' \in Head
  BY DEF Head
<1>2. grants' \in [Epochs -> Grant]
  BY DEF Grant
<1>3. cycles' \in [CycleIds -> Cycle]
  BY DEF Cycle, SuspensionReason
<1>. QED
  BY <1>1, <1>2, <1>3

(* What stands in `inflight` has a position.                               *)
LEMMA InFlightPosition ==
  ASSUME TypeOK, NEW f \in inflight
  PROVE  /\ PositionOf(f) \in Position
         /\ PositionOf(f).cycle = f.cycle
         /\ PositionOf(f).stage = f.stage
         /\ PositionOf(f).epoch = f.epoch
         /\ f.cycle \in CycleIds /\ f.stage \in Stages /\ f.epoch \in Epochs
BY DEF TypeOK, PositionOf, Position, InFlight

(* The Stages a commit leads to come after the Stage it closes.            *)
LEMMA SuccessorsAreLater ==
  ASSUME NEW s \in Stages \ {"reasoning"}
  PROVE  /\ NextStage[s] \in Stages
         /\ StageRank[s] < StageRank[NextStage[s]]
         /\ \A next \in RunSuccessors[s] :
              next \in Stages /\ StageRank[s] < StageRank[next]
<1>1. CASE s = "idea"
  BY <1>1 DEF NextStage, RunSuccessors, StageRank, Stages
<1>2. CASE s = "plan"
  BY <1>2 DEF NextStage, RunSuccessors, StageRank, Stages
<1>3. CASE s = "bundle"
  BY <1>3 DEF NextStage, RunSuccessors, StageRank, Stages
<1>. QED
  BY <1>1, <1>2, <1>3 DEF Stages

-----------------------------------------------------------------------------
(* Stage steps                                                             *)

(* A step that writes only requests, commits, calls in flight or RG.       *)
LEMMA SameForeground ==
  ASSUME IInv, TypeOK', UNCHANGED <<head, grants, cycles, ops>>
  PROVE  IInv'
BY DEF IInv, OpenOperationsRecorded, Open, PendingIsCurrent, SoleActiveGrant,
       GrantOfHead, HeadMatchesCycle

(* A commit at the head's own position keeps the Grant, the pending        *)
(* operation and the Cycle in agreement with the head.                     *)
LEMMA AdvanceKeepsIInv ==
  ASSUME IInv, TypeOK', NEW p \in Position, NEW next \in Stages,
         Advance(p, next), ops' = ops,
         StageRank[p.stage] < StageRank[next]
  PROVE  IInv'
<1>. USE DEF IInv, Advance, HeadPosition
<1>1. p.cycle = head.cycle /\ p.stage = head.stage /\ p.epoch = head.epoch
  OBVIOUS
<1>2. /\ head'.cycle = head.cycle /\ head'.epoch = head.epoch
      /\ head'.question = head.question /\ head'.pending = head.pending
      /\ head'.stage = next /\ head'.status = head.status
  BY DEF TypeOK, Head
<1>3. \A c \in CycleIds : /\ cycles'[c].status = cycles[c].status
                          /\ cycles'[c].question = cycles[c].question
  BY DEF TypeOK, Cycle
<1>4. \A e \in Epochs : /\ grants'[e].status = grants[e].status
                        /\ grants'[e].cycle = grants[e].cycle
  BY DEF TypeOK, Grant
<1>5. OpenOperationsRecorded'
  BY <1>3 DEF TypeOK, OpenOperationsRecorded, Open, Operation
<1>6. PendingIsCurrent'
  BY <1>1, <1>2 DEF TypeOK, PendingIsCurrent, Open, Operation, Stages,
                    StageRank, Head
<1>7. SoleActiveGrant'
  BY <1>2, <1>4 DEF SoleActiveGrant
<1>8. GrantOfHead'
  BY <1>2, <1>4 DEF GrantOfHead, TypeOK, Head
<1>9. HeadMatchesCycle'
  BY <1>1, <1>2, <1>3 DEF HeadMatchesCycle, TypeOK, Head, Cycle
<1>. QED
  BY <1>5, <1>6, <1>7, <1>8, <1>9

(* commit_idea_stage, commit_plan_stage, commit_stage_disposition.         *)
LEMMA RunCommitKeepsIInv ==
  ASSUME IInv, NEW f \in inflight, NEW next \in Stages,
         FinishRunCommit(f, next)
  PROVE  IInv'
<1>. USE DEF IInv
<1>. DEFINE p == PositionOf(f)
<1>1. /\ p \in Position /\ p.stage = f.stage /\ f \in InFlight
      /\ StageRank[p.stage] < StageRank[next]
  BY InFlightPosition, SuccessorsAreLater DEF FinishRunCommit, TypeOK
<1>2. Advance(p, next)
  BY DEF FinishRunCommit
<1>3. TypeOK'
  <2>1. commits' \subseteq StageCommit
    BY <1>1 DEF FinishRunCommit, RecordCommit, TypeOK, StageCommit,
                InFlight, CommitKind
  <2>. QED
    BY <1>1, <1>2, <2>1, AdvanceKeepsTypes
       DEF FinishRunCommit, TypeOK, graph
<1>. HIDE DEF p
<1>. QED
  BY <1>1, <1>2, <1>3, AdvanceKeepsIInv DEF FinishRunCommit

(* commit_stage_disposition('skipped').                                    *)
LEMMA SkipKeepsIInv ==
  ASSUME IInv, NEW f \in inflight, FinishSkip(f)
  PROVE  IInv'
<1>. USE DEF IInv
<1>. DEFINE p == PositionOf(f)
            next == NextStage[f.stage]
<1>1. /\ p \in Position /\ p.stage = f.stage /\ f \in InFlight
      /\ next \in Stages /\ StageRank[p.stage] < StageRank[next]
  <2>1. f.stage # "reasoning"
    BY DEF TypeOK, InFlight, FinishSkip
  <2>. QED
    BY <2>1, InFlightPosition, SuccessorsAreLater DEF TypeOK
<1>2. Advance(p, next)
  BY DEF FinishSkip
<1>3. TypeOK'
  <2>1. commits' \subseteq StageCommit
    BY <1>1 DEF FinishSkip, RecordCommit, TypeOK, StageCommit, InFlight,
                CommitKind
  <2>. QED
    BY <1>1, <1>2, <2>1, AdvanceKeepsTypes DEF FinishSkip, TypeOK, graph
<1>. HIDE DEF p, next
<1>. QED
  BY <1>1, <1>2, <1>3, AdvanceKeepsIInv DEF FinishSkip

(* commit_bundle_stage, skip_bundle_stage.                                 *)
LEMMA BundleKeepsIInv ==
  ASSUME IInv, NEW kind \in {"closed", "skipped"}, CommitBundle(kind)
  PROVE  IInv'
<1>. USE DEF IInv
<1>1. /\ HeadPosition \in Position
      /\ HeadPosition.stage = "bundle"
      /\ HeadPosition.cycle = head.cycle
      /\ HeadPosition.epoch = head.epoch
  BY DEF HeadPosition, Position, TypeOK, Head, CommitBundle
<1>2. /\ "reasoning" \in Stages
      /\ StageRank[HeadPosition.stage] < StageRank["reasoning"]
  BY <1>1 DEF StageRank, Stages
<1>3. Advance(HeadPosition, "reasoning")
  BY DEF CommitBundle
<1>4. TypeOK'
  <2>1. commits' \subseteq StageCommit
    BY <1>1 DEF CommitBundle, RecordCommit, TypeOK, StageCommit, Position,
                CommitKind
  <2>. QED
    BY <1>1, <1>2, <1>3, <2>1, AdvanceKeepsTypes
       DEF CommitBundle, TypeOK, graph
<1>. QED
  BY <1>1, <1>2, <1>3, <1>4, AdvanceKeepsIInv DEF CommitBundle

(* commit_reasoning_stage with a candidate completion.                     *)
LEMMA CandidateKeepsIInv ==
  ASSUME IInv, NEW f \in inflight, FinishCandidateCompletion(f)
  PROVE  IInv'
<1>1. TypeOK'
  BY InFlightPosition
     DEF IInv, FinishCandidateCompletion, RecordCommit, TypeOK, StageCommit,
         CommitKind, graph
<1>. QED
  BY <1>1, SameForeground DEF FinishCandidateCompletion

(* commit_reasoning_stage with a next Cycle: a fresh Cycle under a fresh   *)
(* Grant, and no pending operation.                                        *)
LEMMA NextCycleKeepsIInv ==
  ASSUME IInv, NEW f \in inflight, NEW q \in Questions,
         NEW entry \in Stages, NEW c \in CycleIds,
         FinishNextCycle(f, q, entry, c)
  PROVE  IInv'
<1>. USE DEF IInv, FinishNextCycle
<1>1. /\ f.cycle \in CycleIds /\ f.epoch \in Epochs
      /\ f.cycle = head.cycle /\ f.epoch = head.epoch
      /\ f.epoch + 1 \in Epochs /\ c # f.cycle
      /\ ActiveGrant(c, entry) \in Grant
  BY InFlightPosition, Typed DEF HeadPosition, PositionOf, IsNewCycle
<1>2. TypeOK'
  <2>1. head' \in Head
    BY <1>1 DEF Head, HeadStatus
  <2>2. grants' \in [Epochs -> Grant]
    BY <1>1 DEF TypeOK, Grant, GrantStatus
  <2>3. cycles' \in [CycleIds -> Cycle]
    BY <1>1 DEF TypeOK, Cycle, CycleStatus, SuspensionReason
  <2>4. commits' \subseteq StageCommit
    <3>1. EarlierStages[entry] \subseteq Stages
      BY DEF EarlierStages, Stages
    <3>2. "reasoning" \in Stages
      BY DEF Stages
    <3>. QED
      BY <1>1, <3>1, <3>2 DEF TypeOK, StageCommit, CommitKind
  <2>. QED
    BY <2>1, <2>2, <2>3, <2>4 DEF TypeOK, graph
<1>3. \A d \in CycleIds \ {c} :
        /\ cycles'[d].question = cycles[d].question
        /\ cycles[d].status # "none" => cycles'[d].status # "none"
  BY <1>1 DEF TypeOK, Cycle
<1>4. OpenOperationsRecorded'
  <2>1. cycles[c].status = "none"
    BY DEF IsNewCycle
  <2>2. ASSUME NEW o \in Ops, Open(o), ops[o].target # 0
        PROVE  ops[o].target \in CycleIds \ {c}
    BY <2>1, <2>2 DEF OpenOperationsRecorded, TypeOK, Operation
  <2>. QED
    BY <1>3, <2>2 DEF OpenOperationsRecorded, Open
<1>5. PendingIsCurrent'
  BY DEF PendingIsCurrent
<1>6. SoleActiveGrant'
  BY <1>1 DEF SoleActiveGrant, TypeOK, Grant, Epochs, ActiveGrant, Head
<1>7. GrantOfHead'
  BY <1>1 DEF GrantOfHead, TypeOK, Grant, ActiveGrant
<1>8. HeadMatchesCycle'
  BY <1>1 DEF HeadMatchesCycle, TypeOK, Cycle
<1>. QED
  BY <1>2, <1>4, <1>5, <1>6, <1>7, <1>8

(* ensure_goal_reasoning_reassessment signs a new Epoch for the same Cycle.*)
LEMMA ReassessKeepsIInv ==
  ASSUME IInv, ReassessGoal
  PROVE  IInv'
<1>. USE DEF IInv, ReassessGoal
<1>1. /\ head.cycle \in CycleIds /\ head.epoch \in Epochs
      /\ head.epoch + 1 \in Epochs /\ "reasoning" \in Stages
      /\ ActiveGrant(head.cycle, "reasoning") \in Grant
      /\ head'.cycle = head.cycle /\ head'.epoch = head.epoch + 1
      /\ head'.pending = NoOp
  BY Typed DEF TypeOK, Head, Stages, StageHeadCurrent
<1>2. TypeOK'
  <2>1. head' \in Head
    BY <1>1 DEF TypeOK, Head
  <2>2. grants' \in [Epochs -> Grant]
    BY <1>1 DEF TypeOK, Grant, GrantStatus
  <2>. QED
    BY <2>1, <2>2 DEF TypeOK, graph
<1>3. OpenOperationsRecorded'
  BY DEF OpenOperationsRecorded, Open
<1>4. PendingIsCurrent'
  BY <1>1 DEF PendingIsCurrent
<1>5. SoleActiveGrant'
  BY <1>1 DEF SoleActiveGrant, TypeOK, Grant, Epochs, ActiveGrant, Head
<1>6. GrantOfHead'
  BY <1>1 DEF GrantOfHead, TypeOK, Grant, ActiveGrant
<1>7. HeadMatchesCycle'
  BY DEF HeadMatchesCycle, TypeOK, Head
<1>. QED
  BY <1>2, <1>3, <1>4, <1>5, <1>6, <1>7

(* end_quest completes the head, its Grant and its Cycle together.         *)
LEMMA EndKeepsIInv ==
  ASSUME IInv, EndQuest
  PROVE  IInv'
<1>. USE DEF IInv, EndQuest
<1>1. head.cycle \in CycleIds /\ head.epoch \in Epochs
  BY DEF TypeOK, Head
<1>2. TypeOK'
  <2>1. head' \in Head
    BY DEF TypeOK, Head, HeadStatus
  <2>2. grants' \in [Epochs -> Grant]
    BY <1>1 DEF TypeOK, Grant, GrantStatus
  <2>3. cycles' \in [CycleIds -> Cycle]
    BY <1>1 DEF TypeOK, Cycle, CycleStatus, SuspensionReason
  <2>4. UNCHANGED <<requests, commits, ops, inflight, graph>> /\ ended' = TRUE
    OBVIOUS
  <2>. QED
    BY <2>1, <2>2, <2>3, <2>4 DEF TypeOK, graph
<1>3. OpenOperationsRecorded'
  BY DEF OpenOperationsRecorded, Open, TypeOK, Operation, Cycle
<1>4. PendingIsCurrent'
  BY DEF PendingIsCurrent, Open, TypeOK, Head
<1>5. SoleActiveGrant'
  BY <1>1 DEF SoleActiveGrant, TypeOK, Grant, Head
<1>6. GrantOfHead'
  BY DEF GrantOfHead, TypeOK, Grant, Head
<1>7. HeadMatchesCycle'
  BY DEF HeadMatchesCycle, TypeOK, Head, Cycle
<1>. QED
  BY <1>2, <1>3, <1>4, <1>5, <1>6, <1>7

(* Every step that is not a control.                                       *)
LEMMA StageStepKeepsIInv ==
  ASSUME IInv, StageStep
  PROVE  IInv'
<1>1. CASE EnsureStageRequest
  <2>1. TypeOK'
    BY <1>1 DEF IInv, EnsureStageRequest, HeadPosition, Position, TypeOK,
                Head, graph
  <2>. QED
    BY <1>1, <2>1, SameForeground DEF EnsureStageRequest
<1>2. CASE BeginStageCommit
  <2>1. TypeOK'
    BY <1>2 DEF IInv, BeginStageCommit, TypeOK, InFlight, Head, graph
  <2>. QED
    BY <1>2, <2>1, SameForeground DEF BeginStageCommit
<1>3. CASE BeginSkip
  <2>1. TypeOK'
    BY <1>3 DEF IInv, BeginSkip, TypeOK, InFlight, Head, graph
  <2>. QED
    BY <1>3, <2>1, SameForeground DEF BeginSkip
<1>4. CASE Crash
  <2>1. TypeOK'
    BY <1>4 DEF IInv, Crash, TypeOK, graph
  <2>. QED
    BY <1>4, <2>1, SameForeground DEF Crash
<1>5. ASSUME NEW f \in inflight, NEW next \in Stages,
             FinishRunCommit(f, next)
      PROVE  IInv'
  BY <1>5, RunCommitKeepsIInv
<1>6. ASSUME NEW f \in inflight, FinishSkip(f)
      PROVE  IInv'
  BY <1>6, SkipKeepsIInv
<1>7. ASSUME NEW f \in inflight, FinishCandidateCompletion(f)
      PROVE  IInv'
  BY <1>7, CandidateKeepsIInv
<1>8. ASSUME NEW f \in inflight, NEW q \in Questions, NEW entry \in Stages,
             NEW c \in CycleIds, FinishNextCycle(f, q, entry, c)
      PROVE  IInv'
  BY <1>8, NextCycleKeepsIInv
<1>9. ASSUME NEW kind \in {"closed", "skipped"}, CommitBundle(kind)
      PROVE  IInv'
  BY <1>9, BundleKeepsIInv
<1>10. CASE ReassessGoal
  BY <1>10, ReassessKeepsIInv
<1>11. CASE EndQuest
  BY <1>11, EndKeepsIInv
<1>. QED
  BY <1>1, <1>2, <1>3, <1>4, <1>5, <1>6, <1>7, <1>8, <1>9, <1>10, <1>11
     DEF StageStep

-----------------------------------------------------------------------------
(* Controls                                                                *)

(* An operation that is closed or just prepared is in the operation table. *)
LEMMA ClosedTyped ==
  ASSUME NEW status \in OpStatus
  PROVE  /\ Closed(status) \in Operation
         /\ Closed(status).status = status
  BY ConstantsAssumption
     DEF Closed, NoOperation, Operation, Stages

(* The operation that holds the head was prepared for the head's Cycle and *)
(* Epoch.                                                                  *)
LEMMA HeldOperation ==
  ASSUME IInv, NEW o \in Ops, Holds(o)
  PROVE  /\ head.pending = o
         /\ Open(o)
         /\ ops[o].cycle = head.cycle /\ ops[o].epoch = head.epoch
         /\ ops[o].cycle \in CycleIds /\ ops[o].epoch \in Epochs
BY Typed DEF IInv, TypeOK, Head, Holds, Open, PendingIsCurrent

(* Closing operations loses no record of those that stay open.             *)
LEMMA ClosingKeepsRecords ==
  ASSUME IInv, TypeOK',
         \A o \in Ops : \/ ops'[o] = ops[o]
                        \/ ops'[o].status \in {"none", "completed", "aborted"},
         \A c \in CycleIds : cycles[c].status # "none" =>
           /\ cycles'[c].status # "none"
           /\ cycles'[c].question = cycles[c].question
  PROVE  OpenOperationsRecorded'
<1>. SUFFICES ASSUME NEW o \in Ops, Open(o)'
              PROVE  /\ ops'[o] = ops[o]
                     /\ Open(o)
                     /\ ops[o].target \in CycleIds \cup {0}
  BY DEF IInv, OpenOperationsRecorded
<1>. QED
  BY DEF IInv, Open, TypeOK, Operation

(* prepare_foreground_control.                                             *)
LEMMA PrepareKeepsIInv ==
  ASSUME IInv, NEW o \in Ops, NEW a \in Actions, NEW q \in Questions,
         NEW t \in CycleIds \cup {0}, Prepare(o, a, q, t)
  PROVE  IInv'
<1>. USE DEF IInv, Prepare
<1>. DEFINE row == [action |-> a, status |-> "prepared",
                    cycle |-> head.cycle, epoch |-> head.epoch,
                    stage |-> head.stage, question |-> q, target |-> t]
<1>1. row \in Operation
  BY ConstantsAssumption DEF Operation, OpStatus, TypeOK, Head
<1>2. ops'[o] = row
  BY DEF TypeOK
<1>3. \A p \in Ops \ {o} : ops'[p] \in {ops[p], Closed("aborted")}
  BY DEF TypeOK
<1>4. Closed("aborted") \in Operation /\ Closed("aborted").status = "aborted"
  BY ClosedTyped DEF OpStatus
<1>5. head' \in Head /\ head' = [head EXCEPT !.pending = o]
  BY DEF TypeOK, Head
<1>6. TypeOK'
  <2>1. ops' \in [Ops -> Operation]
    BY <1>1, <1>4 DEF TypeOK
  <2>. QED
    BY <1>5, <2>1 DEF TypeOK, graph
<1>7. OpenOperationsRecorded'
  <2>1. ASSUME NEW p \in Ops \ {o}, Open(p)'
        PROVE  ops'[p] = ops[p] /\ Open(p)
    BY <1>3, <1>4, <2>1 DEF Open
  <2>2. t # 0 => /\ cycles[t].status # "none"
                 /\ cycles[t].question = q
    BY DEF IsSwitchTarget, IsLatestOngoing
  <2>3. a \in SwitchActions \cup {"resume"} => head.epoch < MaxEpoch
    BY DEF EpochLeft
  <2>4. head.cycle \in CycleIds /\ head.epoch \in Epochs
    BY DEF TypeOK, Head
  <2>. QED
    BY <1>2, <2>1, <2>2, <2>3, <2>4 DEF OpenOperationsRecorded, Open
<1>8. PendingIsCurrent'
  BY <1>2, <1>5 DEF PendingIsCurrent, Open, TypeOK, Head, Stages, StageRank
<1>9. SoleActiveGrant' /\ GrantOfHead' /\ HeadMatchesCycle'
  BY <1>5 DEF SoleActiveGrant, GrantOfHead, HeadMatchesCycle, TypeOK, Head
<1>. QED
  BY <1>6, <1>7, <1>8, <1>9

(* abort_foreground_control, and a switch whose target is gone: the        *)
(* operation is closed and the head is free.                               *)
LEMMA AbortKeepsIInv ==
  ASSUME IInv, NEW o \in Ops, Abort(o) \/ InvalidateSwitchTarget(o)
  PROVE  IInv'
<1>. USE DEF IInv
<1>1. /\ ops' = [ops EXCEPT ![o] = Closed("aborted")]
      /\ UNCHANGED <<grants, cycles, requests, commits, inflight, ended, graph>>
  BY DEF Abort, InvalidateSwitchTarget
<1>2. /\ head' \in Head
      /\ head'.cycle = head.cycle /\ head'.epoch = head.epoch
      /\ head'.stage = head.stage /\ head'.status = head.status
      /\ head'.question = head.question
      /\ head'.pending \in {NoOp, head.pending} \ {o}
  BY Typed, HeldOperation
     DEF Abort, InvalidateSwitchTarget, SwitchReady, TypeOK, Head
<1>3. Closed("aborted") \in Operation /\ Closed("aborted").status = "aborted"
  BY ClosedTyped DEF OpStatus
<1>4. TypeOK'
  BY <1>1, <1>2, <1>3 DEF TypeOK, graph
<1>5. OpenOperationsRecorded'
  BY <1>1, <1>3, <1>4, ClosingKeepsRecords DEF TypeOK
<1>6. PendingIsCurrent'
  BY <1>1, <1>2 DEF PendingIsCurrent, Open, TypeOK, Head
<1>7. SoleActiveGrant' /\ GrantOfHead' /\ HeadMatchesCycle'
  BY <1>1, <1>2 DEF SoleActiveGrant, GrantOfHead, HeadMatchesCycle
<1>. QED
  BY <1>4, <1>5, <1>6, <1>7

(* A normal switch that waits keeps what it recorded.                      *)
LEMMA AwaitKeepsIInv ==
  ASSUME IInv, NEW o \in Ops, AwaitHandoff(o)
  PROVE  IInv'
<1>. USE DEF IInv, AwaitHandoff
<1>1. \A p \in Ops :
        /\ Open(p)' <=> Open(p)
        /\ ops'[p].action = ops[p].action /\ ops'[p].cycle = ops[p].cycle
        /\ ops'[p].epoch = ops[p].epoch /\ ops'[p].stage = ops[p].stage
        /\ ops'[p].target = ops[p].target
        /\ ops'[p].question = ops[p].question
  BY DEF TypeOK, Operation, Open, Holds
<1>2. TypeOK'
  BY DEF TypeOK, Operation, OpStatus, graph
<1>3. OpenOperationsRecorded'
  BY <1>1 DEF OpenOperationsRecorded
<1>4. PendingIsCurrent'
  BY <1>1 DEF PendingIsCurrent, TypeOK, Head
<1>5. SoleActiveGrant' /\ GrantOfHead' /\ HeadMatchesCycle'
  BY DEF SoleActiveGrant, GrantOfHead, HeadMatchesCycle
<1>. QED
  BY <1>2, <1>3, <1>4, <1>5

(* A completed control that stays in its Cycle and Epoch: the head may be  *)
(* suspended or abandoned, together with its Grant.                        *)
LEMMA StandingControlKeepsIInv ==
  ASSUME IInv, TypeOK', NEW o \in Ops, Holds(o), CompleteOp(o),
         head'.cycle = head.cycle, head'.question = head.question,
         head'.stage = head.stage, head'.epoch = head.epoch,
         head'.pending = NoOp,
         head'.status = "active" => cycles'[head.cycle].status = "ongoing",
         \A c \in CycleIds :
           /\ cycles'[c].question = cycles[c].question
           /\ cycles'[c].stage = cycles[c].stage
           /\ (cycles'[c].status = "none") <=> (cycles[c].status = "none"),
         \A e \in Epochs : grants'[e].cycle = grants[e].cycle,
         \A e \in Epochs \ {head.epoch} : grants'[e].status = grants[e].status,
         grants'[head.epoch].status # "none",
         grants'[head.epoch].status = "active" => head'.status = "active"
  PROVE  IInv'
<1>. USE DEF IInv
<1>1. head.cycle \in CycleIds /\ head.epoch \in Epochs
  BY DEF TypeOK, Head
<1>2. Closed("completed").status = "completed"
  BY ClosedTyped DEF OpStatus
<1>3. OpenOperationsRecorded'
  <2>1. \A p \in Ops : \/ ops'[p] = ops[p]
                       \/ ops'[p].status \in {"none", "completed", "aborted"}
    BY <1>2 DEF CompleteOp, TypeOK
  <2>. QED
    BY <2>1, ClosingKeepsRecords
<1>4. PendingIsCurrent'
  BY DEF PendingIsCurrent
<1>5. SoleActiveGrant'
  BY <1>1 DEF SoleActiveGrant, GrantOfHead, Epochs
<1>6. GrantOfHead'
  BY <1>1 DEF GrantOfHead
<1>7. HeadMatchesCycle'
  BY <1>1 DEF HeadMatchesCycle
<1>. QED
  BY <1>3, <1>4, <1>5, <1>6, <1>7

(* The operation table after a completion.                                 *)
LEMMA CompleteTyped ==
  ASSUME TypeOK, NEW o \in Ops, CompleteOp(o)
  PROVE  ops' \in [Ops -> Operation]
BY ClosedTyped DEF CompleteOp, TypeOK, OpStatus

(* pause, cancel and abandon.                                              *)
LEMMA SuspendingControlKeepsIInv ==
  ASSUME IInv, NEW o \in Ops,
         ApplyPause(o) \/ ApplyCancel(o) \/ ApplyAbandon(o)
  PROVE  IInv'
<1>. USE DEF IInv, ApplyPause, ApplyCancel, ApplyAbandon
<1>1. /\ Holds(o) /\ CompleteOp(o)
      /\ ops[o].cycle = head.cycle /\ ops[o].epoch = head.epoch
      /\ head.cycle \in CycleIds /\ head.epoch \in Epochs
      /\ UNCHANGED <<requests, commits, inflight, ended, graph>>
  BY HeldOperation
<1>2. /\ head' \in Head
      /\ head'.cycle = head.cycle /\ head'.question = head.question
      /\ head'.stage = head.stage /\ head'.epoch = head.epoch
      /\ head'.pending = NoOp /\ head'.status # "active"
  BY DEF TypeOK, Head, HeadStatus
<1>3. /\ grants' \in [Epochs -> Grant]
      /\ \A e \in Epochs : grants'[e].cycle = grants[e].cycle
      /\ \A e \in Epochs \ {head.epoch} :
           grants'[e].status = grants[e].status
      /\ grants'[head.epoch].status \notin {"none", "active"}
  BY <1>1 DEF TypeOK, Grant, GrantStatus
<1>4. /\ cycles' \in [CycleIds -> Cycle]
      /\ \A c \in CycleIds :
           /\ cycles'[c].question = cycles[c].question
           /\ cycles'[c].stage = cycles[c].stage
           /\ (cycles'[c].status = "none") <=> (cycles[c].status = "none")
  <2>1. CASE ApplyPause(o) \/ ApplyCancel(o)
    <3>1. /\ "human_paused" \in SuspensionReason
          /\ "human_cancelled" \in SuspensionReason
      BY DEF SuspensionReason
    <3>. QED
      BY <1>1, <2>1, <3>1, ReasonOnly DEF TypeOK
  <2>2. CASE ApplyAbandon(o)
    BY <1>1, <2>2 DEF TypeOK, Cycle, CycleStatus, HeadMatchesCycle
  <2>. QED
    BY <2>1, <2>2
<1>5. TypeOK'
  BY <1>1, <1>2, <1>3, <1>4, CompleteTyped DEF TypeOK, graph
<1>. HIDE DEF IInv, ApplyPause, ApplyCancel, ApplyAbandon
<1>. QED
  BY <1>1, <1>2, <1>3, <1>4, <1>5, StandingControlKeepsIInv
     DEF TypeOK

(* prune and restore, whether or not they reach the head's Question.       *)
LEMMA GraphControlKeepsIInv ==
  ASSUME IInv, NEW o \in Ops, ApplyPrune(o) \/ ApplyRestore(o)
  PROVE  IInv'
<1>. USE DEF IInv, ApplyPrune, ApplyRestore
<1>1. /\ Holds(o) /\ CompleteOp(o)
      /\ ops[o].epoch = head.epoch
      /\ head.cycle \in CycleIds /\ head.epoch \in Epochs
      /\ UNCHANGED <<requests, commits, inflight, ended, graph>>
  BY HeldOperation DEF TypeOK, Head
<1>2. /\ head' \in Head
      /\ head'.cycle = head.cycle /\ head'.question = head.question
      /\ head'.stage = head.stage /\ head'.epoch = head.epoch
      /\ head'.pending = NoOp
      /\ head'.status \in {head.status, "suspended"}
  BY DEF TypeOK, Head, HeadStatus
<1>3. /\ grants' \in [Epochs -> Grant]
      /\ \A e \in Epochs : grants'[e].cycle = grants[e].cycle
      /\ \A e \in Epochs \ {head.epoch} :
           grants'[e].status = grants[e].status
      /\ \/ grants'[head.epoch].status = "suspended"
         \/ /\ grants'[head.epoch].status = grants[head.epoch].status
            /\ head'.status = head.status
  BY <1>1 DEF TypeOK, Grant, GrantStatus, Head
<1>4. /\ cycles' \in [CycleIds -> Cycle]
      /\ \A c \in CycleIds :
           /\ cycles'[c].question = cycles[c].question
           /\ cycles'[c].stage = cycles[c].stage
           /\ cycles'[c].status = cycles[c].status
  <2>1. /\ "question_pruned" \in SuspensionReason
        /\ "question_restored_revalidation_required" \in SuspensionReason
    BY DEF SuspensionReason
  <2>. QED
    BY <1>1, <2>1, ReasonOnly DEF TypeOK
<1>5. TypeOK'
  BY <1>1, <1>2, <1>3, <1>4, CompleteTyped DEF TypeOK, graph
<1>6. /\ head'.status = "active" => cycles'[head.cycle].status = "ongoing"
      /\ grants'[head.epoch].status # "none"
      /\ grants'[head.epoch].status = "active" => head'.status = "active"
  BY <1>1, <1>2, <1>3, <1>4
     DEF HeadMatchesCycle, SoleActiveGrant, TypeOK, Head, Epochs
<1>. HIDE DEF IInv, ApplyPrune, ApplyRestore
<1>. QED
  BY <1>1, <1>2, <1>3, <1>4, <1>5, <1>6, StandingControlKeepsIInv

(* resume: the Grant of the head's Epoch becomes active again, or, after a *)
(* cancel, the next Epoch is signed.                                       *)
LEMMA ResumeKeepsIInv ==
  ASSUME IInv, NEW o \in Ops, ApplyResume(o)
  PROVE  IInv'
<1>. USE DEF IInv
<1>. DEFINE e == ops[o].epoch
            resigns == /\ grants[e].status = "revoked"
                       /\ cycles[ops[o].cycle].reason = "human_cancelled"
<1>1. /\ Holds(o) /\ CompleteOp(o) /\ Open(o)
      /\ ops[o].action = "resume"
      /\ ops[o].cycle = head.cycle /\ ops[o].epoch = head.epoch
      /\ head.cycle \in CycleIds /\ head.epoch \in Epochs
      /\ cycles[head.cycle].status = "ongoing"
      /\ cycles' = WithReason(cycles, ops[o].cycle, "none")
      /\ UNCHANGED <<requests, commits, inflight, ended, graph>>
  BY HeldOperation DEF ApplyResume
<1>2. /\ cycles' \in [CycleIds -> Cycle]
      /\ \A c \in CycleIds :
           /\ cycles'[c].question = cycles[c].question
           /\ cycles'[c].stage = cycles[c].stage
           /\ cycles'[c].status = cycles[c].status
  <2>1. "none" \in SuspensionReason
    BY DEF SuspensionReason
  <2>. QED
    BY <1>1, <2>1, ReasonOnly DEF TypeOK
<1>3. CASE resigns
  <2>1. /\ grants' = [grants EXCEPT
                       ![head.epoch + 1] = ActiveGrant(head.cycle, head.stage)]
        /\ head' = [head EXCEPT !.epoch = ops[o].epoch + 1,
                                !.status = "active", !.pending = NoOp]
    BY <1>1, <1>3 DEF ApplyResume
  <2>2. head.epoch + 1 \in Epochs
    BY <1>1, Typed DEF OpenOperationsRecorded, TypeOK, Head
  <2>3. ActiveGrant(head.cycle, head.stage) \in Grant
    BY <1>1, Typed DEF TypeOK, Head
  <2>4. /\ head' \in Head
        /\ head'.cycle = head.cycle /\ head'.question = head.question
        /\ head'.stage = head.stage /\ head'.epoch = head.epoch + 1
        /\ head'.pending = NoOp /\ head'.status = "active"
    BY <1>1, <2>1, <2>2 DEF TypeOK, Head, HeadStatus
  <2>5. TypeOK'
    BY <1>1, <1>2, <2>1, <2>3, <2>4, CompleteTyped DEF TypeOK, graph
  <2>6. OpenOperationsRecorded'
    <3>1. \A p \in Ops : \/ ops'[p] = ops[p]
                         \/ ops'[p].status \in {"none", "completed", "aborted"}
      BY <1>1, ClosedTyped DEF CompleteOp, TypeOK, OpStatus
    <3>. QED
      BY <1>2, <2>5, <3>1, ClosingKeepsRecords
  <2>7. PendingIsCurrent'
    BY <2>4 DEF PendingIsCurrent
  <2>8. SoleActiveGrant'
    BY <1>1, <1>3, <2>1, <2>2, <2>4
       DEF SoleActiveGrant, Epochs, ActiveGrant, TypeOK
  <2>9. GrantOfHead'
    BY <2>1, <2>2, <2>4 DEF GrantOfHead, ActiveGrant, TypeOK
  <2>10. HeadMatchesCycle'
    BY <1>1, <1>2, <2>4 DEF HeadMatchesCycle
  <2>. QED
    BY <2>5, <2>6, <2>7, <2>8, <2>9, <2>10
<1>4. CASE ~resigns
  <2>1. /\ grants' = IF grants[head.epoch].status = "suspended"
                      THEN [grants EXCEPT ![head.epoch].status = "active"]
                      ELSE grants
        /\ head' = [head EXCEPT !.status = "active", !.pending = NoOp]
    BY <1>1, <1>4 DEF ApplyResume
  <2>2. /\ head' \in Head
        /\ head'.cycle = head.cycle /\ head'.question = head.question
        /\ head'.stage = head.stage /\ head'.epoch = head.epoch
        /\ head'.pending = NoOp /\ head'.status = "active"
    BY <2>1 DEF TypeOK, Head, HeadStatus
  <2>3. /\ grants' \in [Epochs -> Grant]
        /\ \A x \in Epochs : grants'[x].cycle = grants[x].cycle
        /\ \A x \in Epochs \ {head.epoch} :
             grants'[x].status = grants[x].status
        /\ grants'[head.epoch].status # "none"
    BY <1>1, <2>1 DEF TypeOK, Grant, GrantStatus, SoleActiveGrant, Epochs
  <2>4. TypeOK'
    BY <1>1, <1>2, <2>2, <2>3, CompleteTyped DEF TypeOK, graph
  <2>. HIDE DEF IInv
  <2>. QED
    BY <1>1, <1>2, <2>2, <2>3, <2>4, StandingControlKeepsIInv
<1>. QED
  BY <1>3, <1>4

(* A minted target Cycle is new; every other Cycle keeps its Question,     *)
(* Stage and status.                                                       *)
LEMMA TargetCycleOnly ==
  ASSUME TypeOK, NEW o \in Ops, NEW c \in CycleIds,
         IF ops[o].target = 0
           THEN IsNewCycle(c)
           ELSE c = ops[o].target /\ cycles[c].status = "ongoing"
  PROVE  /\ WithTargetCycle(o, c) \in [CycleIds -> Cycle]
         /\ WithTargetCycle(o, c)[c].status = "ongoing"
         /\ ops[o].target = 0 =>
              /\ cycles[c].status = "none"
              /\ WithTargetCycle(o, c)[c].question = ops[o].question
         /\ ops[o].target # 0 => WithTargetCycle(o, c) = cycles
         /\ \A d \in CycleIds : (d # c \/ ops[o].target # 0) =>
              /\ WithTargetCycle(o, c)[d].question = cycles[d].question
              /\ WithTargetCycle(o, c)[d].stage = cycles[d].stage
              /\ WithTargetCycle(o, c)[d].status = cycles[d].status
<1>1. CASE ops[o].target # 0
  BY <1>1 DEF WithTargetCycle, TypeOK
<1>2. CASE ops[o].target = 0
  <2>. DEFINE New == [question |-> ops[o].question, stage |-> "idea",
                      status |-> "ongoing", reason |-> "none",
                      successor |-> 0]
              rows == WithTargetCycle(o, c)
  <2>1. New \in Cycle
    BY DEF TypeOK, Operation, Cycle, Stages, CycleStatus, SuspensionReason
  <2>2. rows[c] = New
    BY <1>2 DEF WithTargetCycle
  <2>3. \A d \in CycleIds \ {c} :
          rows[d] \in {cycles[d], [cycles[d] EXCEPT !.successor = c]}
    BY <1>2 DEF WithTargetCycle
  <2>4. \A d \in CycleIds \ {c} :
          /\ rows[d] \in Cycle
          /\ rows[d].question = cycles[d].question
          /\ rows[d].stage = cycles[d].stage
          /\ rows[d].status = cycles[d].status
    BY <2>3 DEF TypeOK, Cycle
  <2>5. DOMAIN rows = CycleIds /\ rows = [d \in CycleIds |-> rows[d]]
    BY <1>2 DEF WithTargetCycle
  <2>6. rows \in [CycleIds -> Cycle]
    BY <2>1, <2>2, <2>4, <2>5
  <2>. QED
    BY <1>2, <2>2, <2>4, <2>6 DEF IsNewCycle
<1>. QED
  BY <1>1, <1>2

(* A switch that goes ahead: the old Grant is revoked, the next Epoch is   *)
(* signed for the target Cycle, and the head moves there.                  *)
LEMMA SwitchKeepsIInv ==
  ASSUME IInv, NEW o \in Ops, NEW c \in CycleIds, ApplySwitch(o, c)
  PROVE  IInv'
<1>. USE DEF IInv
<1>. DEFINE e == ops[o].epoch
            rows == WithTargetCycle(o, c)
            left == WithReason(rows, ops[o].cycle, "foreground_switched")
<1>1. /\ Holds(o) /\ CompleteOp(o) /\ Open(o)
      /\ ops[o].action \in SwitchActions
      /\ ops[o].cycle = head.cycle /\ e = head.epoch
      /\ head.cycle \in CycleIds /\ head.epoch \in Epochs
      /\ UNCHANGED <<requests, commits, inflight, ended, graph>>
  BY HeldOperation DEF ApplySwitch, SwitchReady
<1>2. /\ cycles' = WithReason(left, c, "none")
      /\ grants' = [grants EXCEPT
                      ![e].status = IF @ = "completed" THEN @ ELSE "revoked",
                      ![e].revoked = TRUE,
                      ![e + 1] = ActiveGrant(c, rows[c].stage)]
      /\ head' = [cycle |-> c, question |-> ops[o].question,
                  stage |-> rows[c].stage, epoch |-> e + 1,
                  status |-> "active", pending |-> NoOp]
      /\ IF ops[o].target = 0
           THEN IsNewCycle(c)
           ELSE c = ops[o].target /\ cycles[c].status = "ongoing"
  BY DEF ApplySwitch
<1>3. /\ rows \in [CycleIds -> Cycle]
      /\ rows[c].status = "ongoing"
      /\ rows[c].question = ops[o].question
      /\ \A d \in CycleIds : cycles[d].status # "none" =>
           /\ rows[d].status # "none"
           /\ rows[d].question = cycles[d].question
  BY <1>1, <1>2, TargetCycleOnly DEF OpenOperationsRecorded
<1>4. /\ cycles' \in [CycleIds -> Cycle]
      /\ \A d \in CycleIds :
           /\ cycles'[d].question = rows[d].question
           /\ cycles'[d].stage = rows[d].stage
           /\ cycles'[d].status = rows[d].status
  <2>1. /\ "none" \in SuspensionReason
        /\ "foreground_switched" \in SuspensionReason
    BY DEF SuspensionReason
  <2>2. /\ left \in [CycleIds -> Cycle]
        /\ \A d \in CycleIds :
             /\ left[d].question = rows[d].question
             /\ left[d].stage = rows[d].stage
             /\ left[d].status = rows[d].status
    <3>. HIDE DEF rows, IInv
    <3>1. left = WithReason(rows, head.cycle, "foreground_switched")
      BY <1>1
    <3>. HIDE DEF left
    <3>. QED
      BY <1>1, <1>3, <2>1, <3>1, ReasonOnly
  <2>. HIDE DEF rows, left, IInv
  <2>. QED
    BY <1>2, <2>1, <2>2, ReasonOnly
<1>5. /\ e + 1 \in Epochs
      /\ rows[c].stage \in Stages
      /\ ActiveGrant(c, rows[c].stage) \in Grant
  <2>1. e + 1 \in Epochs
    BY <1>1, ConstantsAssumption DEF OpenOperationsRecorded, Epochs
  <2>2. rows[c].stage \in Stages
    BY <1>3 DEF Cycle
  <2>. QED
    BY <1>1, <2>1, <2>2, Typed
<1>. HIDE DEF rows, left
<1>6. head' \in Head
  BY <1>2, <1>5 DEF Head, HeadStatus, TypeOK, Operation
<1>7. grants' \in [Epochs -> Grant]
  BY <1>1, <1>2, <1>5 DEF TypeOK, Grant, GrantStatus
<1>8. TypeOK'
  BY <1>1, <1>4, <1>6, <1>7, CompleteTyped DEF TypeOK, graph
<1>9. OpenOperationsRecorded'
  <2>1. \A p \in Ops : \/ ops'[p] = ops[p]
                       \/ ops'[p].status \in {"none", "completed", "aborted"}
    BY <1>1, ClosedTyped DEF CompleteOp, TypeOK, OpStatus
  <2>. QED
    BY <1>3, <1>4, <1>8, <2>1, ClosingKeepsRecords
<1>10. PendingIsCurrent'
  BY <1>2 DEF PendingIsCurrent
<1>11. SoleActiveGrant'
  BY <1>1, <1>2, <1>5
     DEF SoleActiveGrant, Epochs, ActiveGrant, TypeOK, Grant
<1>12. GrantOfHead'
  BY <1>2, <1>5 DEF GrantOfHead, ActiveGrant, TypeOK
<1>13. HeadMatchesCycle'
  BY <1>2, <1>3, <1>4 DEF HeadMatchesCycle
<1>. QED
  BY <1>8, <1>9, <1>10, <1>11, <1>12, <1>13

LEMMA ControlStepKeepsIInv ==
  ASSUME IInv, NEW o \in Ops, ControlStep(o)
  PROVE  IInv'
<1>1. ASSUME NEW a \in Actions, NEW q \in Questions,
             NEW t \in CycleIds \cup {0}, Prepare(o, a, q, t)
      PROVE  IInv'
  BY <1>1, PrepareKeepsIInv
<1>2. CASE Abort(o)
  BY <1>2, AbortKeepsIInv
<1>3. CASE GraphApply(o)
  <2>1. UNCHANGED <<head, grants, cycles, requests, commits, ops, inflight,
                    ended>>
    BY <1>3 DEF GraphApply
  <2>2. /\ lifecycle' \in [Questions -> {"active", "pruned"}]
        /\ pruned' \subseteq Questions /\ applied' \subseteq Ops
    BY <1>3 DEF GraphApply, IInv, TypeOK, Operation
  <2>. QED
    BY <2>1, <2>2, SameForeground DEF IInv, TypeOK
<1>4. CASE Complete(o)
  <2>1. CASE AwaitHandoff(o)
    BY <2>1, AwaitKeepsIInv
  <2>2. CASE InvalidateSwitchTarget(o)
    BY <2>2, AbortKeepsIInv
  <2>3. CASE ApplyPause(o) \/ ApplyCancel(o) \/ ApplyAbandon(o)
    BY <2>3, SuspendingControlKeepsIInv
  <2>4. CASE ApplyResume(o)
    BY <2>4, ResumeKeepsIInv
  <2>5. ASSUME NEW c \in CycleIds, ApplySwitch(o, c)
        PROVE  IInv'
    BY <2>5, SwitchKeepsIInv
  <2>6. CASE ApplyPrune(o) \/ ApplyRestore(o)
    BY <2>6, GraphControlKeepsIInv
  <2>. QED
    BY <1>4, <2>1, <2>2, <2>3, <2>4, <2>5, <2>6 DEF Complete
<1>. QED
  BY <1>1, <1>2, <1>3, <1>4 DEF ControlStep

-----------------------------------------------------------------------------
(* The theorems                                                            *)

LEMMA NextKeepsIInv == IInv /\ [Next]_vars => IInv'
<1>. SUFFICES ASSUME IInv, [Next]_vars PROVE IInv'
  OBVIOUS
<1>1. CASE StageStep
  BY <1>1, StageStepKeepsIInv
<1>2. ASSUME NEW o \in Ops, ControlStep(o) PROVE IInv'
  BY <1>2, ControlStepKeepsIInv
<1>3. CASE UNCHANGED vars
  BY <1>3 DEF vars, graph, IInv, TypeOK, OpenOperationsRecorded, Open,
              PendingIsCurrent, SoleActiveGrant, GrantOfHead,
              HeadMatchesCycle
<1>. QED
  BY <1>1, <1>2, <1>3 DEF Next

(* The invariant of the foreground that all of its transactions keep.      *)
THEOREM ForegroundInvariant == Spec => []IInv
BY InitIInv, NextKeepsIInv, PTL DEF Spec

(* Every row AE writes is one its tables admit.                            *)
THEOREM TypeCorrect == Spec => []TypeOK
<1>1. IInv => TypeOK
  BY DEF IInv
<1>. QED
  BY <1>1, ForegroundInvariant, PTL

(* Two Grants never allow research at the same time: only the Grant of the *)
(* head's Epoch may be active, and only while the head is.                 *)
THEOREM OneGrant == Spec => []SoleActiveGrant
<1>1. IInv => SoleActiveGrant
  BY DEF IInv
<1>. QED
  BY <1>1, ForegroundInvariant, PTL

(* A pending operation is completed on the Cycle and Epoch it was prepared *)
(* for.                                                                    *)
THEOREM PendingCurrent == Spec => []PendingIsCurrent
<1>1. IInv => PendingIsCurrent
  BY DEF IInv
<1>. QED
  BY <1>1, ForegroundInvariant, PTL

(* The head shows the Question and the Stage of its Cycle, and is active   *)
(* on an ongoing Cycle only.                                               *)
THEOREM HeadAgrees == Spec => []HeadMatchesCycle
<1>1. IInv => HeadMatchesCycle
  BY DEF IInv
<1>. QED
  BY <1>1, ForegroundInvariant, PTL

-----------------------------------------------------------------------------
(* Research goes one way                                                   *)

LEMMA RankNat ==
  ASSUME NEW s \in Stages
  PROVE  StageRank[s] \in Nat
BY DEF StageRank, Stages

(* A Cycle whose row keeps its Stage, and its status unless it was ongoing.*)
LEMMA SameStage ==
  ASSUME TypeOK,
         \A c \in CycleIds : cycles[c].status # "none" =>
           /\ cycles'[c].stage = cycles[c].stage
           /\ cycles[c].status # "ongoing" => cycles'[c].status # "ongoing"
  PROVE  NoWayBack
BY RankNat DEF NoWayBack, TypeOK, Cycle

LEMMA AdvanceOnward ==
  ASSUME IInv, NEW p \in Position, NEW next \in Stages, Advance(p, next),
         StageRank[p.stage] < StageRank[next]
  PROVE  NoWayBack
<1>1. /\ p.cycle = head.cycle /\ p.stage = head.stage
      /\ p.cycle \in CycleIds /\ p.stage \in Stages
      /\ cycles[p.cycle].stage = p.stage
  BY DEF IInv, Advance, HeadPosition, HeadMatchesCycle, Position
<1>2. \A c \in CycleIds :
        /\ cycles'[c].status = cycles[c].status
        /\ cycles'[c].stage \in {cycles[c].stage, next}
        /\ cycles'[c].stage # cycles[c].stage => c = p.cycle
  BY DEF IInv, TypeOK, Advance, Cycle
<1>3. \A c \in CycleIds : cycles[c].stage \in Stages
  BY DEF IInv, TypeOK, Cycle
<1>. QED
  BY <1>1, <1>2, <1>3, RankNat DEF NoWayBack

LEMMA StageStepOnward ==
  ASSUME IInv, StageStep
  PROVE  NoWayBack
<1>. USE DEF IInv
<1>1. CASE UNCHANGED cycles
  BY <1>1, SameStage
<1>2. ASSUME NEW f \in inflight, NEW next \in Stages,
             FinishRunCommit(f, next)
      PROVE  NoWayBack
  <2>1. /\ PositionOf(f) \in Position
        /\ StageRank[PositionOf(f).stage] < StageRank[next]
    BY <1>2, InFlightPosition, SuccessorsAreLater
       DEF FinishRunCommit
  <2>. QED
    BY <1>2, <2>1, AdvanceOnward DEF FinishRunCommit
<1>3. ASSUME NEW f \in inflight, FinishSkip(f)
      PROVE  NoWayBack
  <2>1. f.stage # "reasoning"
    BY <1>3 DEF TypeOK, InFlight, FinishSkip
  <2>2. /\ PositionOf(f) \in Position
        /\ NextStage[f.stage] \in Stages
        /\ StageRank[PositionOf(f).stage] < StageRank[NextStage[f.stage]]
    BY <2>1, InFlightPosition, SuccessorsAreLater
  <2>. QED
    BY <1>3, <2>2, AdvanceOnward DEF FinishSkip
<1>4. ASSUME NEW f \in inflight, NEW q \in Questions, NEW entry \in Stages,
             NEW c \in CycleIds, FinishNextCycle(f, q, entry, c)
      PROVE  NoWayBack
  <2>1. /\ f.cycle \in CycleIds /\ cycles[f.cycle].status = "ongoing"
        /\ cycles[c].status = "none"
    BY <1>4, InFlightPosition DEF FinishNextCycle, IsNewCycle
  <2>. QED
    BY <1>4, <2>1, SameStage DEF FinishNextCycle, TypeOK, Cycle
<1>5. ASSUME NEW kind \in {"closed", "skipped"}, CommitBundle(kind)
      PROVE  NoWayBack
  <2>1. /\ HeadPosition \in Position /\ "reasoning" \in Stages
        /\ StageRank[HeadPosition.stage] < StageRank["reasoning"]
    BY <1>5 DEF CommitBundle, HeadPosition, Position, TypeOK, Head, Stages,
                StageRank
  <2>. QED
    BY <1>5, <2>1, AdvanceOnward DEF CommitBundle
<1>6. CASE EndQuest
  BY <1>6, SameStage DEF EndQuest, TypeOK, Cycle, Head
<1>. QED
  BY <1>1, <1>2, <1>3, <1>4, <1>5, <1>6
     DEF StageStep, EnsureStageRequest, BeginStageCommit, BeginSkip, Crash,
         FinishCandidateCompletion, ReassessGoal

LEMMA ControlStepOnward ==
  ASSUME IInv, NEW o \in Ops, ControlStep(o)
  PROVE  NoWayBack
<1>. USE DEF IInv
<1>1. CASE UNCHANGED cycles
  BY <1>1, SameStage
<1>2. ASSUME NEW c \in CycleIds, ApplySwitch(o, c)
      PROVE  NoWayBack
  <2>. DEFINE rows == WithTargetCycle(o, c)
  <2>1. /\ ops[o].cycle \in CycleIds
        /\ cycles' = WithReason(
                       WithReason(rows, ops[o].cycle, "foreground_switched"),
                       c, "none")
    BY <1>2, HeldOperation DEF ApplySwitch, SwitchReady
  <2>2. /\ rows \in [CycleIds -> Cycle]
        /\ \A d \in CycleIds : cycles[d].status # "none" =>
             /\ rows[d].stage = cycles[d].stage
             /\ rows[d].status = cycles[d].status
    BY <1>2, TargetCycleOnly DEF ApplySwitch
  <2>. HIDE DEF rows
  <2>3. \A d \in CycleIds : /\ cycles'[d].stage = rows[d].stage
                            /\ cycles'[d].status = rows[d].status
    <3>1. /\ "none" \in SuspensionReason
          /\ "foreground_switched" \in SuspensionReason
      BY DEF SuspensionReason
    <3>. DEFINE left == WithReason(rows, ops[o].cycle, "foreground_switched")
    <3>2. /\ left \in [CycleIds -> Cycle]
          /\ \A d \in CycleIds : /\ left[d].stage = rows[d].stage
                                 /\ left[d].status = rows[d].status
      BY <2>1, <2>2, <3>1, ReasonOnly
    <3>3. cycles' = WithReason(left, c, "none")
      BY <2>1
    <3>. HIDE DEF left, IInv
    <3>. QED
      BY <3>1, <3>2, <3>3, ReasonOnly
  <2>. QED
    BY <2>2, <2>3, SameStage
<1>3. CASE \/ ApplyPause(o) \/ ApplyResume(o) \/ ApplyCancel(o)
  <2>1. ops[o].cycle \in CycleIds
    BY <1>3, HeldOperation DEF ApplyPause, ApplyResume, ApplyCancel
  <2>2. /\ "human_paused" \in SuspensionReason
        /\ "human_cancelled" \in SuspensionReason
        /\ "none" \in SuspensionReason
    BY DEF SuspensionReason
  <2>3. \E r \in SuspensionReason :
          cycles' = WithReason(cycles, ops[o].cycle, r)
    BY <1>3, <2>2 DEF ApplyPause, ApplyResume, ApplyCancel
  <2>. QED
    BY <2>1, <2>3, ReasonOnly, SameStage DEF TypeOK
<1>4. CASE ApplyAbandon(o)
  <2>1. ops[o].cycle \in CycleIds
    BY <1>4, HeldOperation DEF ApplyAbandon
  <2>. QED
    BY <1>4, <2>1, SameStage DEF ApplyAbandon, TypeOK, Cycle
<1>5. CASE ApplyPrune(o) \/ ApplyRestore(o)
  <2>1. /\ "question_pruned" \in SuspensionReason
        /\ "question_restored_revalidation_required" \in SuspensionReason
    BY DEF SuspensionReason
  <2>2. head.cycle \in CycleIds
    BY DEF TypeOK, Head
  <2>3. \/ UNCHANGED cycles
        \/ \E r \in SuspensionReason :
             cycles' = WithReason(cycles, head.cycle, r)
    BY <1>5, <2>1 DEF ApplyPrune, ApplyRestore
  <2>. QED
    BY <1>1, <2>2, <2>3, ReasonOnly, SameStage DEF TypeOK
<1>. QED
  BY <1>1, <1>2, <1>3, <1>4, <1>5
     DEF ControlStep, Prepare, Abort, GraphApply, Complete, AwaitHandoff,
         InvalidateSwitchTarget

(* A Cycle's Stage never moves back, and a Cycle that was completed or     *)
(* abandoned is never ongoing again (ADR 0001).                            *)
THEOREM ResearchGoesOneWay == Spec => OneWay
<1>1. IInv /\ [Next]_vars => [NoWayBack]_vars
  <2>. SUFFICES ASSUME IInv, Next PROVE NoWayBack
    OBVIOUS
  <2>1. CASE StageStep
    BY <2>1, StageStepOnward
  <2>2. ASSUME NEW o \in Ops, ControlStep(o) PROVE NoWayBack
    BY <2>2, ControlStepOnward
  <2>. QED
    BY <2>1, <2>2 DEF Next
<1>. QED
  BY <1>1, ForegroundInvariant, PTL DEF Spec, OneWay

-----------------------------------------------------------------------------
(* Stage commits                                                           *)

(* PassedStagesCommitted says nothing of a Cycle that has no row yet, so   *)
(* the Cycle of a commit, and of a call that will write one, must have it. *)
CommitsOfCycles ==
  \A m \in commits \cup inflight : cycles[m.cycle].status # "none"

CommitsInOrder ==
  /\ CommitsOfCycles
  /\ StageClosedOnce
  /\ PassedStagesCommitted

(* No row of ae_cycles is deleted.                                         *)
RowsRemain ==
  \A c \in CycleIds : cycles[c].status # "none" => cycles'[c].status # "none"

(* A step outside the Cycle of the head, or that changes only its row.     *)
HeadCycleOnly ==
  /\ head'.cycle = head.cycle
  /\ \A c \in CycleIds \ {head.cycle} : cycles'[c] = cycles[c]
  /\ cycles'[head.cycle].status # "none"
  /\ cycles'[head.cycle].question = head.question

LEMMA HeadCycleRemains ==
  ASSUME IInv, HeadCycleOnly
  PROVE  RowsRemain
BY DEF HeadCycleOnly, RowsRemain

(* A commit of the head's Stage moves only the row of the head's Cycle.    *)
LEMMA AdvanceHeadOnly ==
  ASSUME IInv, NEW p \in Position, NEW next \in Stages, Advance(p, next)
  PROVE  /\ HeadCycleOnly
         /\ p.cycle = head.cycle /\ p.stage = head.stage /\ p.epoch = head.epoch
         /\ head.status = "active" /\ head'.status = "active"
         /\ head'.epoch = head.epoch /\ head'.question = head.question
         /\ head'.pending = head.pending /\ head'.stage = next
         /\ cycles'[head.cycle].status = "ongoing"
         /\ cycles'[head.cycle].stage = next
         /\ cycles'[head.cycle].reason = "none"
<1>. USE DEF IInv, Advance, HeadPosition
<1>1. /\ p.cycle = head.cycle /\ p.stage = head.stage /\ p.epoch = head.epoch
      /\ head.status = "active"
      /\ head.cycle \in CycleIds
  BY DEF TypeOK, Head
<1>2. /\ head'.cycle = head.cycle /\ head'.epoch = head.epoch
      /\ head'.question = head.question /\ head'.pending = head.pending
      /\ head'.stage = next /\ head'.status = head.status
  BY DEF TypeOK, Head
<1>3. /\ cycles[head.cycle].status = "ongoing"
      /\ cycles[head.cycle].question = head.question
  BY <1>1 DEF HeadMatchesCycle
<1>4. cycles' = [cycles EXCEPT ![head.cycle].stage = next,
                               ![head.cycle].reason = "none"]
  BY <1>1, <1>3
<1>5. cycles[head.cycle] \in Cycle
  BY <1>1 DEF TypeOK
<1>6. /\ cycles'[head.cycle].status = "ongoing"
      /\ cycles'[head.cycle].question = head.question
      /\ cycles'[head.cycle].stage = next
      /\ cycles'[head.cycle].reason = "none"
  BY <1>1, <1>3, <1>4, <1>5 DEF TypeOK, Cycle
<1>7. \A c \in CycleIds \ {head.cycle} : cycles'[c] = cycles[c]
  BY <1>4 DEF TypeOK
<1>. QED
  BY <1>1, <1>2, <1>6, <1>7 DEF HeadCycleOnly

(* Steps that record no commit, or only the outcome of Reasoning.          *)
LEMMA NoStageClosed ==
  ASSUME IInv, IInv', CommitsInOrder, NoWayBack, RowsRemain,
         \A m \in commits' : \/ m \in commits
                             \/ /\ m.stage = "reasoning"
                                /\ \E f \in inflight : f.cycle = m.cycle,
         \A f \in inflight' : f \in inflight \/ f.cycle = head.cycle
  PROVE  CommitsInOrder'
<1>. USE DEF CommitsInOrder
<1>1. /\ head.cycle \in CycleIds
      /\ cycles[head.cycle].status # "none"
      /\ \A m \in commits : m.cycle \in CycleIds /\ m.stage \in Stages
      /\ \A f \in inflight : f.cycle \in CycleIds
  BY InFlightPosition DEF IInv, TypeOK, Head, HeadMatchesCycle, StageCommit
<1>2. CommitsOfCycles'
  BY <1>1 DEF CommitsOfCycles, RowsRemain
<1>3. StageClosedOnce'
  BY DEF StageClosedOnce
<1>4. PassedStagesCommitted'
  <2>. SUFFICES ASSUME NEW m \in commits', m.stage # "reasoning"
                PROVE  StageRank[m.stage] < StageRank[cycles'[m.cycle].stage]
    BY DEF PassedStagesCommitted
  <2>1. /\ m \in commits /\ m.cycle \in CycleIds /\ m.stage \in Stages
        /\ cycles[m.cycle].status # "none"
    BY <1>1 DEF CommitsOfCycles
  <2>2. StageRank[m.stage] < StageRank[cycles[m.cycle].stage]
    BY <2>1 DEF PassedStagesCommitted
  <2>3. StageRank[cycles[m.cycle].stage] <= StageRank[cycles'[m.cycle].stage]
    BY <2>1 DEF NoWayBack
  <2>4. cycles[m.cycle].stage \in Stages
    BY <2>1 DEF IInv, TypeOK, Cycle
  <2>5. cycles'[m.cycle].stage \in Stages
    BY <2>1 DEF IInv, TypeOK, Cycle
  <2>. QED
    BY <2>1, <2>2, <2>3, <2>4, <2>5, RankNat
<1>. QED
  BY <1>2, <1>3, <1>4

(* The commit of the head's Stage is the first of its Cycle and Stage, and *)
(* the Cycle passes that Stage.                                            *)
LEMMA AdvanceClosesOnce ==
  ASSUME IInv, IInv', CommitsInOrder, NoWayBack, NEW p \in Position,
         NEW next \in Stages, Advance(p, next),
         StageRank[p.stage] < StageRank[next],
         NEW m0, m0.cycle = p.cycle, m0.stage = p.stage,
         commits' = commits \cup {m0}, inflight' \subseteq inflight
  PROVE  CommitsInOrder'
<1>. USE DEF CommitsInOrder
<1>1. /\ head.cycle \in CycleIds /\ head.stage \in Stages
      /\ cycles[head.cycle].stage = head.stage
      /\ \A m \in commits : m.cycle \in CycleIds /\ m.stage \in Stages
      /\ \A f \in inflight : f.cycle \in CycleIds
  BY InFlightPosition DEF IInv, TypeOK, Head, HeadMatchesCycle, StageCommit
<1>2. /\ HeadCycleOnly
      /\ m0.cycle = head.cycle /\ m0.stage = head.stage
      /\ cycles'[head.cycle].status = "ongoing"
      /\ cycles'[head.cycle].stage = next
  BY AdvanceHeadOnly
<1>3. RowsRemain
  BY <1>2, HeadCycleRemains
<1>4. CommitsOfCycles'
  BY <1>1, <1>2, <1>3 DEF CommitsOfCycles, RowsRemain
<1>5. ASSUME NEW m \in commits, m.cycle = head.cycle, m.stage = head.stage
      PROVE  m.stage = "reasoning"
  BY <1>1, <1>5, RankNat DEF PassedStagesCommitted
<1>6. StageClosedOnce'
  BY <1>2, <1>5 DEF StageClosedOnce
<1>7. PassedStagesCommitted'
  <2>. SUFFICES ASSUME NEW m \in commits', m.stage # "reasoning"
                PROVE  StageRank[m.stage] < StageRank[cycles'[m.cycle].stage]
    BY DEF PassedStagesCommitted
  <2>1. CASE m = m0
    BY <1>2, <2>1
  <2>2. CASE m \in commits
    <3>1. /\ m.cycle \in CycleIds /\ m.stage \in Stages
          /\ cycles[m.cycle].status # "none"
      BY <1>1, <2>2 DEF CommitsOfCycles
    <3>2. StageRank[m.stage] < StageRank[cycles[m.cycle].stage]
      BY <2>2 DEF PassedStagesCommitted
    <3>3. StageRank[cycles[m.cycle].stage] <= StageRank[cycles'[m.cycle].stage]
      BY <3>1 DEF NoWayBack
    <3>4. cycles[m.cycle].stage \in Stages /\ cycles'[m.cycle].stage \in Stages
      BY <3>1 DEF IInv, TypeOK, Cycle
    <3>. QED
      BY <3>1, <3>2, <3>3, <3>4, RankNat
  <2>. QED
    BY <2>1, <2>2
<1>. QED
  BY <1>4, <1>6, <1>7

(* A next Cycle starts with the Stages before its entry skipped.           *)
LEMMA NextCycleClosesOnce ==
  ASSUME IInv, IInv', CommitsInOrder, NEW f \in inflight, NEW q \in Questions,
         NEW entry \in Stages, NEW c \in CycleIds,
         FinishNextCycle(f, q, entry, c)
  PROVE  CommitsInOrder'
<1>. USE DEF CommitsInOrder
<1>1. /\ f.cycle \in CycleIds /\ c # f.cycle
      /\ cycles[c].status = "none"
      /\ cycles[f.cycle].status = "ongoing"
      /\ \A m \in commits \cup inflight : m.cycle \in CycleIds /\ m.cycle # c
  BY InFlightPosition
     DEF FinishNextCycle, IsNewCycle, IInv, TypeOK, CommitsOfCycles, StageCommit
<1>2. /\ \A d \in CycleIds \ {c} :
            /\ cycles'[d].stage = cycles[d].stage
            /\ cycles[d].status # "none" => cycles'[d].status # "none"
      /\ cycles'[c].stage = entry /\ cycles'[c].status = "ongoing"
  BY <1>1 DEF FinishNextCycle, IInv, TypeOK, Cycle
<1>3. ASSUME NEW m \in commits'
      PROVE  \/ m \in commits
             \/ m.cycle = f.cycle /\ m.stage = "reasoning"
             \/ \E s \in EarlierStages[entry] :
                  m = [cycle |-> c, stage |-> s, epoch |-> f.epoch + 1,
                       kind |-> "skipped"]
  BY <1>3 DEF FinishNextCycle
<1>4. \A s \in EarlierStages[entry] :
        s # "reasoning" /\ StageRank[s] < StageRank[entry]
  BY DEF EarlierStages, Stages, StageRank
<1>5. CommitsOfCycles'
  <2>1. inflight' \subseteq inflight
    BY DEF FinishNextCycle
  <2>. QED
    BY <1>1, <1>2, <1>3, <2>1 DEF CommitsOfCycles
<1>6. StageClosedOnce'
  BY <1>1, <1>3 DEF StageClosedOnce
<1>7. PassedStagesCommitted'
  BY <1>1, <1>2, <1>3, <1>4 DEF PassedStagesCommitted
<1>. QED
  BY <1>5, <1>6, <1>7

-----------------------------------------------------------------------------
(* What a control writes                                                   *)

(* The reason a control writes into the row of the head's Cycle.           *)
LEMMA ReasonWritten ==
  ASSUME NEW cs \in [CycleIds -> Cycle], NEW c \in CycleIds,
         NEW r \in SuspensionReason
  PROVE  /\ \A d \in CycleIds \ {c} : WithReason(cs, c, r)[d] = cs[d]
         /\ cs[c].status = "ongoing" => WithReason(cs, c, r)[c].reason = r
         /\ cs[c].status # "ongoing" => WithReason(cs, c, r) = cs
BY DEF WithReason, Cycle

LEMMA ReasonHeadOnly ==
  ASSUME IInv, NEW r \in SuspensionReason, head'.cycle = head.cycle,
         cycles' = WithReason(cycles, head.cycle, r)
  PROVE  HeadCycleOnly
<1>1. /\ head.cycle \in CycleIds /\ cycles \in [CycleIds -> Cycle]
      /\ cycles[head.cycle].status # "none"
      /\ cycles[head.cycle].question = head.question
  BY DEF IInv, TypeOK, Head, HeadMatchesCycle
<1>. QED
  BY <1>1, ReasonOnly, ReasonWritten DEF HeadCycleOnly

LEMMA SameHeadCycle ==
  ASSUME IInv, cycles' = cycles, head'.cycle = head.cycle
  PROVE  HeadCycleOnly
BY DEF IInv, TypeOK, Head, HeadMatchesCycle, HeadCycleOnly

(* Only a switch writes outside the Cycle of the head.                     *)
LEMMA ControlHeadOnly ==
  ASSUME IInv, NEW o \in Ops, ControlStep(o)
  PROVE  \/ HeadCycleOnly
         \/ \E c \in CycleIds : ApplySwitch(o, c)
<1>1. ASSUME NEW a \in Actions, NEW q \in Questions,
             NEW t \in CycleIds \cup {0}, Prepare(o, a, q, t)
      PROVE  HeadCycleOnly
  BY <1>1, SameHeadCycle DEF Prepare, IInv, TypeOK, Head
<1>2. CASE Abort(o) \/ InvalidateSwitchTarget(o) \/ AwaitHandoff(o)
  BY <1>2, SameHeadCycle
     DEF Abort, InvalidateSwitchTarget, AwaitHandoff, IInv, TypeOK, Head
<1>3. CASE GraphApply(o)
  BY <1>3, SameHeadCycle DEF GraphApply
<1>4. CASE ApplyPause(o) \/ ApplyCancel(o) \/ ApplyResume(o)
  <2>1. ops[o].cycle = head.cycle
    BY <1>4, HeldOperation DEF ApplyPause, ApplyCancel, ApplyResume
  <2>2. head'.cycle = head.cycle
    BY <1>4 DEF ApplyPause, ApplyCancel, ApplyResume, IInv, TypeOK, Head
  <2>3. \E r \in SuspensionReason : cycles' = WithReason(cycles, head.cycle, r)
    BY <1>4, <2>1
       DEF ApplyPause, ApplyCancel, ApplyResume, SuspensionReason
  <2>. QED
    BY <2>2, <2>3, ReasonHeadOnly
<1>5. CASE ApplyAbandon(o)
  <2>1. /\ ops[o].cycle = head.cycle /\ head.cycle \in CycleIds
        /\ cycles[head.cycle] \in Cycle
        /\ cycles[head.cycle].question = head.question
    BY <1>5, HeldOperation DEF ApplyAbandon, IInv, TypeOK, HeadMatchesCycle
  <2>2. head'.cycle = head.cycle
    BY <1>5 DEF ApplyAbandon, IInv, TypeOK, Head
  <2>3. /\ cycles'[head.cycle].status = "abandoned"
        /\ cycles'[head.cycle].question = head.question
        /\ \A c \in CycleIds \ {head.cycle} : cycles'[c] = cycles[c]
    BY <1>5, <2>1 DEF ApplyAbandon, IInv, TypeOK, Cycle
  <2>. QED
    BY <2>2, <2>3 DEF HeadCycleOnly
<1>6. CASE ApplyPrune(o) \/ ApplyRestore(o)
  <2>1. head'.cycle = head.cycle
    BY <1>6 DEF ApplyPrune, ApplyRestore, IInv, TypeOK, Head
  <2>2. \/ cycles' = cycles
        \/ \E r \in SuspensionReason :
             cycles' = WithReason(cycles, head.cycle, r)
    BY <1>6 DEF ApplyPrune, ApplyRestore, SuspensionReason
  <2>. QED
    BY <2>1, <2>2, ReasonHeadOnly, SameHeadCycle
<1>. QED
  BY <1>1, <1>2, <1>3, <1>4, <1>5, <1>6 DEF ControlStep, Complete

(* A switch suspends the Cycle it leaves and lifts the suspension of its   *)
(* target.                                                                 *)
LEMMA SwitchWrites ==
  ASSUME IInv, NEW o \in Ops, NEW c \in CycleIds, ApplySwitch(o, c)
  PROVE  /\ head.pending = o /\ Open(o) /\ ops[o].action \in SwitchActions
         /\ head.epoch \in Epochs /\ head.epoch + 1 \in Epochs
         /\ head'.cycle = c /\ head'.question = ops[o].question
         /\ head'.epoch = head.epoch + 1 /\ head'.status = "active"
         /\ head'.pending = NoOp
         /\ grants'[head.epoch + 1] = ActiveGrant(c, head'.stage)
         /\ cycles'[c].reason = "none" /\ cycles'[c].status = "ongoing"
         /\ \A d \in CycleIds \ {c} :
              /\ cycles'[d].question = cycles[d].question
              /\ cycles'[d].stage = cycles[d].stage
              /\ cycles'[d].status = cycles[d].status
              /\ cycles'[d].reason =
                   IF d = head.cycle /\ cycles[d].status = "ongoing"
                     THEN "foreground_switched" ELSE cycles[d].reason
         /\ RowsRemain
<1>. DEFINE rows == WithTargetCycle(o, c)
            left == WithReason(rows, head.cycle, "foreground_switched")
<1>1. /\ Holds(o) /\ Open(o) /\ head.pending = o
      /\ ops[o].action \in SwitchActions
      /\ ops[o].cycle = head.cycle /\ ops[o].epoch = head.epoch
      /\ head.cycle \in CycleIds /\ head.epoch \in Epochs
  BY HeldOperation DEF ApplySwitch, SwitchReady
<1>2. /\ cycles' = WithReason(left, c, "none")
      /\ grants' = [grants EXCEPT
                      ![head.epoch].status =
                         IF @ = "completed" THEN @ ELSE "revoked",
                      ![head.epoch].revoked = TRUE,
                      ![head.epoch + 1] = ActiveGrant(c, rows[c].stage)]
      /\ head' = [cycle |-> c, question |-> ops[o].question,
                  stage |-> rows[c].stage, epoch |-> head.epoch + 1,
                  status |-> "active", pending |-> NoOp]
      /\ IF ops[o].target = 0
           THEN IsNewCycle(c)
           ELSE c = ops[o].target /\ cycles[c].status = "ongoing"
  BY <1>1 DEF ApplySwitch
<1>3. head.epoch + 1 \in Epochs
  BY <1>1, ConstantsAssumption DEF IInv, OpenOperationsRecorded, Epochs
<1>4. /\ rows \in [CycleIds -> Cycle]
      /\ rows[c].status = "ongoing"
      /\ \A d \in CycleIds \ {c} :
           /\ rows[d].question = cycles[d].question
           /\ rows[d].stage = cycles[d].stage
           /\ rows[d].status = cycles[d].status
  BY <1>2, TargetCycleOnly DEF IInv
<1>5. \A d \in CycleIds \ {c} : rows[d].reason = cycles[d].reason
  BY <1>2 DEF WithTargetCycle, IInv, TypeOK, Cycle
<1>6. "none" \in SuspensionReason /\ "foreground_switched" \in SuspensionReason
  BY DEF SuspensionReason
<1>. HIDE DEF rows
<1>7. /\ left \in [CycleIds -> Cycle]
      /\ \A d \in CycleIds :
           /\ left[d].question = rows[d].question
           /\ left[d].stage = rows[d].stage
           /\ left[d].status = rows[d].status
           /\ left[d].reason =
                IF d = head.cycle /\ rows[d].status = "ongoing"
                  THEN "foreground_switched" ELSE rows[d].reason
  BY <1>1, <1>4, <1>6, ReasonOnly, ReasonWritten
<1>. HIDE DEF left
<1>8. /\ \A d \in CycleIds :
            /\ cycles'[d].question = left[d].question
            /\ cycles'[d].stage = left[d].stage
            /\ cycles'[d].status = left[d].status
      /\ \A d \in CycleIds \ {c} : cycles'[d] = left[d]
      /\ cycles'[c].reason = "none"
  BY <1>2, <1>4, <1>6, <1>7, ReasonOnly, ReasonWritten
<1>9. grants'[head.epoch + 1] = ActiveGrant(c, rows[c].stage)
  BY <1>2, <1>3 DEF IInv, TypeOK
<1>10. RowsRemain
  BY <1>4, <1>7, <1>8 DEF RowsRemain
<1>. QED
  BY <1>1, <1>2, <1>3, <1>4, <1>5, <1>7, <1>8, <1>9, <1>10

-----------------------------------------------------------------------------
(* Every step closes a Stage at most once                                  *)

LEMMA StageStepClosesOnce ==
  ASSUME IInv, IInv', CommitsInOrder, StageStep
  PROVE  CommitsInOrder'
<1>0. NoWayBack
  BY StageStepOnward
<1>1. CASE /\ UNCHANGED <<cycles, commits>>
           /\ \A f \in inflight' : f \in inflight \/ f.cycle = head.cycle
  BY <1>0, <1>1, NoStageClosed DEF RowsRemain
<1>2. ASSUME NEW f \in inflight, NEW next \in Stages,
             FinishRunCommit(f, next)
      PROVE  CommitsInOrder'
  <2>. DEFINE m0 == [cycle |-> f.cycle, stage |-> f.stage, epoch |-> f.epoch,
                     kind |-> "closed"]
              p == PositionOf(f)
  <2>1. /\ p \in Position /\ p.cycle = f.cycle /\ p.stage = f.stage
        /\ StageRank[p.stage] < StageRank[next]
    BY <1>2, InFlightPosition, SuccessorsAreLater DEF FinishRunCommit, IInv
  <2>2. /\ Advance(p, next) /\ commits' = commits \cup {m0}
        /\ inflight' \subseteq inflight
    BY <1>2 DEF FinishRunCommit, RecordCommit
  <2>3. m0.cycle = p.cycle /\ m0.stage = p.stage
    BY <2>1
  <2>. HIDE DEF m0, p
  <2>. QED
    BY <1>0, <2>1, <2>2, <2>3, AdvanceClosesOnce
<1>3. ASSUME NEW f \in inflight, FinishSkip(f)
      PROVE  CommitsInOrder'
  <2>. DEFINE m0 == [cycle |-> f.cycle, stage |-> f.stage, epoch |-> f.epoch,
                     kind |-> "skipped"]
              p == PositionOf(f)
              next == NextStage[f.stage]
  <2>1. f.stage # "reasoning"
    BY <1>3 DEF IInv, TypeOK, InFlight, FinishSkip
  <2>2. /\ p \in Position /\ p.cycle = f.cycle /\ p.stage = f.stage
        /\ next \in Stages /\ StageRank[p.stage] < StageRank[next]
    BY <2>1, InFlightPosition, SuccessorsAreLater DEF IInv
  <2>3. /\ Advance(p, next) /\ commits' = commits \cup {m0}
        /\ inflight' \subseteq inflight
    BY <1>3 DEF FinishSkip, RecordCommit
  <2>4. m0.cycle = p.cycle /\ m0.stage = p.stage
    BY <2>2
  <2>. HIDE DEF m0, p, next
  <2>. QED
    BY <1>0, <2>2, <2>3, <2>4, AdvanceClosesOnce
<1>4. ASSUME NEW kind \in {"closed", "skipped"}, CommitBundle(kind)
      PROVE  CommitsInOrder'
  <2>. DEFINE p == HeadPosition
              m0 == [cycle |-> p.cycle, stage |-> p.stage, epoch |-> p.epoch,
                     kind |-> kind]
  <2>1. /\ p \in Position /\ "reasoning" \in Stages
        /\ StageRank[p.stage] < StageRank["reasoning"]
    BY <1>4 DEF CommitBundle, HeadPosition, Position, IInv, TypeOK, Head,
                Stages, StageRank
  <2>2. /\ Advance(p, "reasoning") /\ commits' = commits \cup {m0}
        /\ inflight' = inflight
    BY <1>4 DEF CommitBundle, RecordCommit
  <2>3. m0.cycle = p.cycle /\ m0.stage = p.stage
    OBVIOUS
  <2>. HIDE DEF m0, p
  <2>. QED
    BY <1>0, <2>1, <2>2, <2>3, AdvanceClosesOnce
<1>5. ASSUME NEW f \in inflight, NEW q \in Questions, NEW entry \in Stages,
             NEW c \in CycleIds, FinishNextCycle(f, q, entry, c)
      PROVE  CommitsInOrder'
  BY <1>5, NextCycleClosesOnce
<1>6. ASSUME NEW f \in inflight, FinishCandidateCompletion(f)
      PROVE  CommitsInOrder'
  <2>1. /\ cycles' = cycles /\ inflight' \subseteq inflight
        /\ commits' = commits \cup {[cycle |-> f.cycle, stage |-> "reasoning",
                                    epoch |-> f.epoch,
                                    kind |-> "candidate_completion"]}
    BY <1>6 DEF FinishCandidateCompletion, RecordCommit
  <2>. QED
    BY <1>0, <2>1, NoStageClosed DEF RowsRemain
<1>7. CASE EndQuest
  <2>1. /\ commits' = commits /\ inflight' = inflight
        /\ \A c \in CycleIds : cycles[c].status # "none" =>
             cycles'[c].status # "none"
    BY <1>7 DEF EndQuest, IInv, TypeOK, Head, Cycle
  <2>. QED
    BY <1>0, <2>1, NoStageClosed DEF RowsRemain
<1>. QED
  BY <1>1, <1>2, <1>3, <1>4, <1>5, <1>6, <1>7
     DEF StageStep, EnsureStageRequest, BeginStageCommit, BeginSkip, Crash,
         ReassessGoal

LEMMA ControlStepClosesOnce ==
  ASSUME IInv, IInv', CommitsInOrder, NEW o \in Ops, ControlStep(o)
  PROVE  CommitsInOrder'
<1>1. NoWayBack
  BY ControlStepOnward
<1>2. RowsRemain
  BY ControlHeadOnly, HeadCycleRemains, SwitchWrites
<1>3. commits' = commits /\ inflight' = inflight
  BY DEF ControlStep, Prepare, Abort, GraphApply, Complete, AwaitHandoff,
         InvalidateSwitchTarget, ApplyPause, ApplyResume, ApplySwitch,
         ApplyCancel, ApplyAbandon, ApplyPrune, ApplyRestore
<1>. QED
  BY <1>1, <1>2, <1>3, NoStageClosed

LEMMA InitCommitsInOrder == Init => CommitsInOrder
BY DEF Init, CommitsInOrder, CommitsOfCycles, StageClosedOnce,
       PassedStagesCommitted

LEMMA NextKeepsCommits ==
  IInv /\ IInv' /\ CommitsInOrder /\ [Next]_vars => CommitsInOrder'
<1>. SUFFICES ASSUME IInv, IInv', CommitsInOrder, [Next]_vars
              PROVE  CommitsInOrder'
  OBVIOUS
<1>1. CASE StageStep
  BY <1>1, StageStepClosesOnce
<1>2. ASSUME NEW o \in Ops, ControlStep(o) PROVE CommitsInOrder'
  BY <1>2, ControlStepClosesOnce
<1>3. CASE UNCHANGED vars
  BY <1>3 DEF vars, CommitsInOrder, CommitsOfCycles, StageClosedOnce,
              PassedStagesCommitted
<1>. QED
  BY <1>1, <1>2, <1>3 DEF Next

(* The commits of a Cycle agree with its Stage, whatever the order in      *)
(* which the commit calls that passed their check write.                   *)
THEOREM CommitsStayInOrder == Spec => []CommitsInOrder
<1>1. Init => CommitsInOrder
  BY InitCommitsInOrder
<1>2. IInv /\ IInv' /\ CommitsInOrder /\ [Next]_vars => CommitsInOrder'
  BY NextKeepsCommits
<1>. QED
  BY <1>1, <1>2, ForegroundInvariant, PTL DEF Spec

(* A Cycle closes each Stage before Reasoning at most once.                *)
THEOREM ClosedOnce == Spec => []StageClosedOnce
<1>1. CommitsInOrder => StageClosedOnce
  BY DEF CommitsInOrder
<1>. QED
  BY <1>1, CommitsStayInOrder, PTL

(* Only the Stages a Cycle has passed are committed.                       *)
THEOREM OnlyPassedCommitted == Spec => []PassedStagesCommitted
<1>1. CommitsInOrder => PassedStagesCommitted
  BY DEF CommitsInOrder
<1>. QED
  BY <1>1, CommitsStayInOrder, PTL

-----------------------------------------------------------------------------
(* What controls leave behind                                              *)

(* A pending switch goes to another Question than the head's, so that what *)
(* happens to the head's Cycle does not touch its target.                  *)
SwitchLeavesQuestion ==
  (head.pending # NoOp /\ ops[head.pending].action \in SwitchActions) =>
    ops[head.pending].question # head.question

LeftBehind ==
  /\ BackgroundCyclesSuspended
  /\ StrandedOnlyBySuccessor
  /\ SwitchLeavesQuestion
  /\ SwitchTargetFresh

(* The pending operation stays as it is or is released.                    *)
PendingGoesOn ==
  head'.pending # NoOp =>
    /\ head'.pending = head.pending /\ head'.question = head.question
    /\ ops'[head.pending].action = ops[head.pending].action
    /\ ops'[head.pending].question = ops[head.pending].question
    /\ ops'[head.pending].target = ops[head.pending].target

(* An operation that lost the head before stays as it is or is closed.     *)
OperationsGoOn ==
  /\ commits \subseteq commits'
  /\ PendingGoesOn
  /\ \A p \in Ops : Open(p)' =>
       \/ head'.pending = p
       \/ Open(p) /\ head.pending # p /\ ops'[p] = ops[p]

LEMMA StrandedKept ==
  ASSUME LeftBehind, OperationsGoOn
  PROVE  StrandedOnlyBySuccessor'
BY DEF LeftBehind, OperationsGoOn, PendingGoesOn, StrandedOnlyBySuccessor

(* A step in the Cycle of the head leaves the other Cycles and the target  *)
(* of a pending switch alone.                                              *)
LEMMA HeadCycleLeavesBehind ==
  ASSUME IInv, LeftBehind, HeadCycleOnly, OperationsGoOn
  PROVE  LeftBehind'
<1>. USE DEF LeftBehind
<1>1. BackgroundCyclesSuspended'
  BY DEF BackgroundCyclesSuspended, HeadCycleOnly
<1>2. SwitchLeavesQuestion'
  BY DEF SwitchLeavesQuestion, OperationsGoOn, PendingGoesOn
<1>3. SwitchTargetFresh'
  <2>1. CASE head'.pending = NoOp \/ ops'[head'.pending].action \notin SwitchActions
    BY <2>1 DEF SwitchTargetFresh
  <2>2. CASE head'.pending # NoOp /\ ops'[head'.pending].action \in SwitchActions
    <3>. DEFINE o == head.pending
    <3>1. /\ head'.pending = o /\ o # NoOp /\ o \in Ops
          /\ ops'[o].action = ops[o].action /\ ops[o].action \in SwitchActions
          /\ ops'[o].question = ops[o].question
          /\ ops'[o].target = ops[o].target
          /\ ops[o].question # head.question
      BY <2>2 DEF OperationsGoOn, PendingGoesOn, SwitchLeavesQuestion, IInv,
                  TypeOK, Head
    <3>2. \A c \in CycleIds :
            (cycles'[c].question = ops[o].question /\ cycles'[c].status = "ongoing")
              <=> (cycles[c].question = ops[o].question
                     /\ cycles[c].status = "ongoing")
      BY <3>1 DEF HeadCycleOnly, IInv, HeadMatchesCycle
    <3>3. \A c \in CycleIds : IsLatestOngoing(c, ops[o].question)'
                               <=> IsLatestOngoing(c, ops[o].question)
      <4>1. ops'[o].question = ops[o].question
        BY <3>1
      <4>. QED
        BY <3>1, <3>2 DEF IsLatestOngoing
    <3>4. IF ops[o].target # 0
            THEN IsLatestOngoing(ops[o].target, ops[o].question)
            ELSE \A c \in CycleIds : ~IsLatestOngoing(c, ops[o].question)
      BY <3>1 DEF SwitchTargetFresh
    <3>5. ops[o].target \in CycleIds \cup {0}
      BY <3>1 DEF IInv, TypeOK, Operation
    <3>. QED
      BY <3>1, <3>3, <3>4, <3>5 DEF SwitchTargetFresh
  <2>. QED
    BY <2>1, <2>2
<1>. QED
  BY <1>1, <1>2, <1>3, StrandedKept

(* A prepared switch records the latest ongoing Cycle of its Question, or  *)
(* that there is none (prepare_foreground_control).                        *)
LEMMA PrepareLeavesBehind ==
  ASSUME IInv, LeftBehind, NEW o \in Ops, NEW a \in Actions,
         NEW q \in Questions, NEW t \in CycleIds \cup {0},
         Prepare(o, a, q, t)
  PROVE  LeftBehind'
<1>. USE DEF LeftBehind
<1>1. /\ head'.cycle = head.cycle /\ head'.question = head.question
      /\ head'.pending = o
      /\ UNCHANGED <<cycles, commits>>
  BY DEF Prepare, IInv, TypeOK, Head
<1>2. /\ ops'[o].action = a /\ ops'[o].question = q /\ ops'[o].target = t
      /\ ops[o].status = "none" /\ o # NoOp
  BY ConstantsAssumption DEF Prepare, IInv, TypeOK
<1>3. ASSUME NEW p \in Ops, p # o, Open(p)'
      PROVE  p # head.pending /\ ops'[p] = ops[p] /\ Open(p)
  <2>1. ops'[p] = IF p = head.pending THEN Closed("aborted") ELSE ops[p]
    BY <1>3 DEF Prepare
  <2>2. Closed("aborted").status = "aborted"
    BY ClosedTyped DEF OpStatus
  <2>3. p # head.pending
    BY <1>3, <2>1, <2>2 DEF Open
  <2>. QED
    BY <1>3, <2>1, <2>3 DEF Open
<1>4. BackgroundCyclesSuspended'
  BY <1>1 DEF BackgroundCyclesSuspended
<1>5. StrandedOnlyBySuccessor'
  BY <1>1, <1>3 DEF StrandedOnlyBySuccessor
<1>6. ASSUME a \in SwitchActions
      PROVE  q # head.question /\ IsSwitchTarget(t, q)
  <2>1. QuestionAdmits(a, q) /\ IsSwitchTarget(t, q)
    BY <1>6 DEF Prepare
  <2>2. a # "prune" /\ a # "restore" /\ a # "resume"
    BY <1>6 DEF SwitchActions
  <2>. QED
    BY <1>6, <2>1, <2>2 DEF QuestionAdmits
<1>7. SwitchLeavesQuestion'
  BY <1>1, <1>2, <1>6 DEF SwitchLeavesQuestion
<1>8. SwitchTargetFresh'
  <2>1. CASE a \notin SwitchActions
    BY <1>1, <1>2, <2>1 DEF SwitchTargetFresh
  <2>2. CASE a \in SwitchActions
    <3>1. IF t # 0 THEN IsLatestOngoing(t, q)
                   ELSE \A c \in CycleIds : ~IsLatestOngoing(c, q)
      BY <1>6, <2>2 DEF IsSwitchTarget, CycleIds
    <3>2. \A c \in CycleIds : IsLatestOngoing(c, ops[o].question)'
                              <=> IsLatestOngoing(c, q)
      BY <1>1, <1>2 DEF IsLatestOngoing
    <3>. QED
      BY <1>1, <1>2, <3>1, <3>2 DEF SwitchTargetFresh
  <2>. QED
    BY <2>1, <2>2
<1>. QED
  BY <1>4, <1>5, <1>7, <1>8

(* A completed or aborted operation was the pending one, or lost the head. *)
LEMMA ClosingGoesOn ==
  ASSUME IInv, NEW o \in Ops, NEW status \in {"completed", "aborted"},
         ops' = [ops EXCEPT ![o] = Closed(status)],
         commits' = commits,
         \/ head'.pending = NoOp /\ head.pending \in {o, NoOp}
         \/ /\ head'.pending = head.pending /\ head.pending # o
            /\ head'.question = head.question
  PROVE  OperationsGoOn
<1>1. Closed(status).status = status
  BY ClosedTyped DEF OpStatus
<1>2. ops'[o].status = status /\ \A p \in Ops \ {o} : ops'[p] = ops[p]
  BY <1>1 DEF IInv, TypeOK
<1>3. \A p \in Ops : Open(p)' => p # o /\ ops'[p] = ops[p] /\ Open(p)
  BY <1>2 DEF Open
<1>4. head'.pending # NoOp =>
        head.pending \in Ops \ {o} /\ ops'[head.pending] = ops[head.pending]
  BY <1>2 DEF IInv, TypeOK, Head
<1>5. NoOp \notin Ops
  BY ConstantsAssumption
<1>. QED
  BY <1>3, <1>4, <1>5 DEF OperationsGoOn, PendingGoesOn

LEMMA SwitchLeavesBehind ==
  ASSUME IInv, LeftBehind, NEW o \in Ops, NEW c \in CycleIds,
         ApplySwitch(o, c)
  PROVE  LeftBehind'
<1>. USE DEF LeftBehind
<1>1. /\ head.pending = o /\ head'.pending = NoOp /\ head'.cycle = c
      /\ \A d \in CycleIds \ {c} :
           /\ cycles'[d].status = cycles[d].status
           /\ cycles'[d].reason =
                IF d = head.cycle /\ cycles[d].status = "ongoing"
                  THEN "foreground_switched" ELSE cycles[d].reason
  BY SwitchWrites
<1>2. commits' = commits /\ ops' = [ops EXCEPT ![o] = Closed("completed")]
  BY DEF ApplySwitch, CompleteOp
<1>3. OperationsGoOn
  BY <1>1, <1>2, ClosingGoesOn
<1>4. BackgroundCyclesSuspended'
  BY <1>1 DEF BackgroundCyclesSuspended
<1>5. SwitchLeavesQuestion' /\ SwitchTargetFresh'
  BY <1>1 DEF SwitchLeavesQuestion, SwitchTargetFresh
<1>. QED
  BY <1>3, <1>4, <1>5, StrandedKept

(* A successor takes the head from the pending operation: its commit tells *)
(* (_activate_reasoning_successor).                                        *)
LEMMA NextCycleLeavesBehind ==
  ASSUME IInv, LeftBehind, NEW f \in inflight, NEW q \in Questions,
         NEW entry \in Stages, NEW c \in CycleIds,
         FinishNextCycle(f, q, entry, c)
  PROVE  LeftBehind'
<1>. USE DEF LeftBehind
<1>. DEFINE m0 == [cycle |-> f.cycle, stage |-> "reasoning", epoch |-> f.epoch,
                   kind |-> "next_cycle"]
<1>1. /\ f.cycle = head.cycle /\ f.epoch = head.epoch
      /\ head'.pending = NoOp /\ head'.cycle = c /\ ops' = ops
      /\ commits \subseteq commits' /\ m0 \in commits'
  BY DEF FinishNextCycle, HeadPosition, PositionOf
<1>2. \A d \in CycleIds \ {c} :
        \/ cycles'[d].status = "completed"
        \/ d # head.cycle /\ cycles'[d] = cycles[d]
  BY <1>1, InFlightPosition DEF FinishNextCycle, IInv, TypeOK, Cycle
<1>3. BackgroundCyclesSuspended'
  BY <1>1, <1>2 DEF BackgroundCyclesSuspended
<1>4. StrandedOnlyBySuccessor'
  <2>. SUFFICES ASSUME NEW p \in Ops, Open(p)
                PROVE  \E m \in commits' : /\ m.kind = "next_cycle"
                                           /\ m.cycle = ops[p].cycle
                                           /\ m.epoch = ops[p].epoch
    BY <1>1 DEF StrandedOnlyBySuccessor, Open
  <2>1. CASE head.pending = p
    <3>1. ops[p].cycle = head.cycle /\ ops[p].epoch = head.epoch
      BY <2>1, ConstantsAssumption DEF IInv, PendingIsCurrent
    <3>2. /\ m0.kind = "next_cycle" /\ m0.cycle = ops[p].cycle
          /\ m0.epoch = ops[p].epoch
      BY <1>1, <3>1
    <3>. QED
      BY <1>1, <3>2
  <2>2. CASE head.pending # p
    BY <1>1, <2>2 DEF StrandedOnlyBySuccessor
  <2>. QED
    BY <2>1, <2>2
<1>5. SwitchLeavesQuestion' /\ SwitchTargetFresh'
  BY <1>1 DEF SwitchLeavesQuestion, SwitchTargetFresh
<1>. QED
  BY <1>3, <1>4, <1>5

LEMMA SameOperations ==
  ASSUME IInv, ops' = ops, commits \subseteq commits',
         head'.pending = head.pending, head'.question = head.question
  PROVE  OperationsGoOn
BY DEF OperationsGoOn, PendingGoesOn, Open

LEMMA StageStepLeavesBehind ==
  ASSUME IInv, LeftBehind, StageStep
  PROVE  LeftBehind'
<1>1. CASE UNCHANGED <<head, cycles, ops>> /\ commits \subseteq commits'
  BY <1>1, SameHeadCycle, SameOperations, HeadCycleLeavesBehind
<1>2. ASSUME NEW p \in Position, NEW next \in Stages, Advance(p, next),
             ops' = ops, commits \subseteq commits'
      PROVE  LeftBehind'
  BY <1>2, AdvanceHeadOnly, SameOperations, HeadCycleLeavesBehind
<1>3. ASSUME NEW f \in inflight, NEW next \in Stages,
             FinishRunCommit(f, next)
      PROVE  LeftBehind'
  BY <1>2, <1>3, InFlightPosition DEF FinishRunCommit, RecordCommit, IInv
<1>4. ASSUME NEW f \in inflight, FinishSkip(f)
      PROVE  LeftBehind'
  <2>1. f.stage \in Stages \ {"reasoning"}
    BY <1>4 DEF IInv, TypeOK, InFlight, FinishSkip
  <2>2. NextStage[f.stage] \in Stages
    BY <2>1, SuccessorsAreLater
  <2>. QED
    BY <1>2, <1>4, <2>2, InFlightPosition DEF FinishSkip, RecordCommit, IInv
<1>5. ASSUME NEW kind \in {"closed", "skipped"}, CommitBundle(kind)
      PROVE  LeftBehind'
  <2>1. HeadPosition \in Position /\ "reasoning" \in Stages
    BY DEF HeadPosition, Position, IInv, TypeOK, Head, Stages
  <2>. QED
    BY <1>2, <1>5, <2>1 DEF CommitBundle, RecordCommit
<1>6. ASSUME NEW f \in inflight, NEW q \in Questions, NEW entry \in Stages,
             NEW c \in CycleIds, FinishNextCycle(f, q, entry, c)
      PROVE  LeftBehind'
  BY <1>6, NextCycleLeavesBehind
<1>7. CASE ReassessGoal
  <2>1. /\ UNCHANGED <<cycles, ops, commits>>
        /\ head'.cycle = head.cycle /\ head'.pending = head.pending
        /\ head'.question = head.question
    BY <1>7 DEF ReassessGoal, IInv, TypeOK, Head
  <2>. QED
    BY <2>1, SameHeadCycle, SameOperations, HeadCycleLeavesBehind
<1>8. CASE EndQuest
  <2>1. /\ UNCHANGED <<ops, commits>>
        /\ head'.cycle = head.cycle /\ head'.pending = head.pending
        /\ head'.question = head.question
    BY <1>8 DEF EndQuest, IInv, TypeOK, Head
  <2>2. HeadCycleOnly
    <3>1. /\ head.cycle \in CycleIds /\ cycles[head.cycle] \in Cycle
          /\ cycles[head.cycle].question = head.question
      BY DEF IInv, TypeOK, Head, HeadMatchesCycle
    <3>. QED
      BY <1>8, <2>1, <3>1 DEF EndQuest, IInv, TypeOK, Cycle, HeadCycleOnly
  <2>. QED
    BY <2>1, <2>2, SameOperations, HeadCycleLeavesBehind
<1>. QED
  BY <1>1, <1>3, <1>4, <1>5, <1>6, <1>7, <1>8
     DEF StageStep, EnsureStageRequest, BeginStageCommit, BeginSkip, Crash,
         FinishCandidateCompletion, RecordCommit

LEMMA ControlStepLeavesBehind ==
  ASSUME IInv, LeftBehind, NEW o \in Ops, ControlStep(o)
  PROVE  LeftBehind'
<1>1. ASSUME NEW c \in CycleIds, ApplySwitch(o, c)
      PROVE  LeftBehind'
  BY <1>1, SwitchLeavesBehind
<1>2. ASSUME NEW a \in Actions, NEW q \in Questions,
             NEW t \in CycleIds \cup {0}, Prepare(o, a, q, t)
      PROVE  LeftBehind'
  BY <1>2, PrepareLeavesBehind
<1>3. CASE HeadCycleOnly
  <2>1. CASE Abort(o) \/ InvalidateSwitchTarget(o)
    <3>1. /\ ops' = [ops EXCEPT ![o] = Closed("aborted")]
          /\ commits' = commits
      BY <2>1 DEF Abort, InvalidateSwitchTarget
    <3>2. \/ head'.pending = NoOp /\ head.pending \in {o, NoOp}
          \/ /\ head'.pending = head.pending /\ head.pending # o
             /\ head'.question = head.question
      BY <2>1, HeldOperation
         DEF Abort, InvalidateSwitchTarget, SwitchReady, IInv, TypeOK, Head
    <3>. QED
      BY <1>3, <3>1, <3>2, ClosingGoesOn, HeadCycleLeavesBehind
  <2>2. CASE AwaitHandoff(o)
    <3>1. /\ UNCHANGED <<head, commits>> /\ head.pending = o
          /\ ops' = [ops EXCEPT ![o].status = "handoff_pending"]
          /\ ops[o] \in Operation
      BY <2>2 DEF AwaitHandoff, Holds, IInv, TypeOK
    <3>2. /\ ops'[o].action = ops[o].action
          /\ ops'[o].question = ops[o].question
          /\ ops'[o].target = ops[o].target
          /\ \A p \in Ops \ {o} : ops'[p] = ops[p]
      BY <3>1 DEF IInv, TypeOK, Operation
    <3>3. OperationsGoOn
      BY <3>1, <3>2 DEF OperationsGoOn, PendingGoesOn, Open
    <3>. QED
      BY <1>3, <3>3, HeadCycleLeavesBehind
  <2>3. CASE GraphApply(o)
    BY <1>3, <2>3, SameOperations, HeadCycleLeavesBehind DEF GraphApply
  <2>4. CASE \/ ApplyPause(o) \/ ApplyCancel(o) \/ ApplyAbandon(o)
             \/ ApplyResume(o) \/ ApplyPrune(o) \/ ApplyRestore(o)
    <3>1. /\ Holds(o) /\ commits' = commits
          /\ ops' = [ops EXCEPT ![o] = Closed("completed")]
      BY <2>4
         DEF ApplyPause, ApplyCancel, ApplyAbandon, ApplyResume, ApplyPrune,
             ApplyRestore, CompleteOp
    <3>2. head'.pending = NoOp
      BY <2>4
         DEF ApplyPause, ApplyCancel, ApplyAbandon, ApplyResume, ApplyPrune,
             ApplyRestore, IInv, TypeOK, Head
    <3>. QED
      BY <1>3, <3>1, <3>2, ClosingGoesOn, HeadCycleLeavesBehind DEF Holds
  <2>. QED
    BY <1>1, <1>2, <2>1, <2>2, <2>3, <2>4 DEF ControlStep, Complete
<1>. QED
  BY <1>1, <1>3, ControlHeadOnly

LEMMA InitLeftBehind == Init => LeftBehind
BY ConstantsAssumption
   DEF Init, LeftBehind, BackgroundCyclesSuspended, StrandedOnlyBySuccessor,
       SwitchLeavesQuestion, SwitchTargetFresh, Open, NoCycle, NoOperation

LEMMA NextLeavesBehind == IInv /\ LeftBehind /\ [Next]_vars => LeftBehind'
<1>. SUFFICES ASSUME IInv, LeftBehind, [Next]_vars PROVE LeftBehind'
  OBVIOUS
<1>1. CASE StageStep
  BY <1>1, StageStepLeavesBehind
<1>2. ASSUME NEW o \in Ops, ControlStep(o) PROVE LeftBehind'
  BY <1>2, ControlStepLeavesBehind
<1>3. CASE UNCHANGED vars
  BY <1>3, SameHeadCycle, SameOperations, HeadCycleLeavesBehind DEF vars
<1>. QED
  BY <1>1, <1>2, <1>3 DEF Next

(* What a control leaves behind is what the next one may rely on.          *)
THEOREM ControlsLeaveOrder == Spec => []LeftBehind
<1>1. Init => LeftBehind
  BY InitLeftBehind
<1>2. IInv /\ LeftBehind /\ [Next]_vars => LeftBehind'
  BY NextLeavesBehind
<1>. QED
  BY <1>1, <1>2, ForegroundInvariant, PTL DEF Spec

(* Every ongoing Cycle that is not the head's was suspended by a switch.   *)
THEOREM BackgroundSuspended == Spec => []BackgroundCyclesSuspended
<1>1. LeftBehind => BackgroundCyclesSuspended
  BY DEF LeftBehind
<1>. QED
  BY <1>1, ControlsLeaveOrder, PTL

(* Only a successor Cycle takes the head from an open operation.           *)
THEOREM OnlySuccessorsStrand == Spec => []StrandedOnlyBySuccessor
<1>1. LeftBehind => StrandedOnlyBySuccessor
  BY DEF LeftBehind
<1>. QED
  BY <1>1, ControlsLeaveOrder, PTL

(* The target a switch chose is still right when the switch is completed.  *)
THEOREM TargetStaysFresh == Spec => []SwitchTargetFresh
<1>1. LeftBehind => SwitchTargetFresh
  BY DEF LeftBehind
<1>. QED
  BY <1>1, ControlsLeaveOrder, PTL

-----------------------------------------------------------------------------
(* What lets an active head do research                                    *)

(* The operation o has pruned the Question of the head in RG, and AE has   *)
(* not completed it.                                                       *)
PrunesHead(o) ==
  /\ o \in applied
  /\ Open(o)
  /\ ops[o].action = "prune"
  /\ head.question \in Subtree[ops[o].question]

PendingResume == head.pending # NoOp /\ ops[head.pending].action = "resume"

(* ActiveQuestionPresent, of a head that a resume will make active too, and*)
(* naming the prune: a restore would not keep it.                          *)
PresentOrPruning ==
  (head.status = "active" \/ PendingResume) =>
    lifecycle[head.question] = "active" \/ \E o \in Ops : PrunesHead(o)

(* An operation that RG has applied and that can no longer be completed: it*)
(* cannot be aborted either, so it stays.                                  *)
AppliedStranded == \E o \in applied : Stranded(o)

(* RG restores the Question of an active head only after a stranded        *)
(* operation pruned it.                                                    *)
RestoreFindsStranded ==
  (/\ head.status = "active"
   /\ head.pending \in applied
   /\ ops[head.pending].action = "restore"
   /\ head.question \in Subtree[ops[head.pending].question]) => AppliedStranded

(* What a resume finds: a Grant it can make active again, or one that a    *)
(* cancel revoked, with the reason to sign the next.                       *)
GrantOfSuspended ==
  (head.status = "suspended" /\ cycles[head.cycle].status = "ongoing") =>
    \/ grants[head.epoch].status = "suspended"
    \/ /\ grants[head.epoch].status = "revoked"
       /\ cycles[head.cycle].reason = "human_cancelled"

(* ActiveHeadHasGrant, while no stranded operation is applied; one that is *)
(* not applied can still be aborted.  The Grant of a head that is not      *)
(* active is at its Stage too: a resume makes it active as it is.          *)
GrantAtWork ==
  ~AppliedStranded =>
    /\ grants[head.epoch].stage = head.stage
    /\ head.status = "active" => /\ grants[head.epoch].status = "active"
                                 /\ cycles[head.cycle].reason = "none"

HeadCanWork ==
  /\ \A o \in applied : ops[o].status # "none"
  /\ PendingResume => head.status = "suspended"
  /\ PresentOrPruning
  /\ RestoreFindsStranded
  /\ GrantOfSuspended
  /\ GrantAtWork

(* Applied operations that lost the head stay open.                        *)
AppliedGoOn ==
  /\ applied \subseteq applied'
  /\ \A p \in Ops : ops[p].status # "none" => ops'[p].status # "none"
  /\ \A p \in applied : Open(p) /\ head.pending # p =>
       ops'[p] = ops[p] /\ head'.pending # p

LEMMA StrandedStays ==
  ASSUME AppliedGoOn, AppliedStranded
  PROVE  AppliedStranded'
BY DEF AppliedGoOn, AppliedStranded, Stranded, Open

LEMMA StageStepGoesOn ==
  ASSUME IInv, StageStep
  PROVE  AppliedGoOn
<1>. DEFINE Kept == /\ ops' = ops /\ applied' = applied
                    /\ head'.pending \in {head.pending, NoOp}
<1>1. ASSUME \/ EnsureStageRequest \/ BeginStageCommit \/ BeginSkip \/ Crash
             \/ \E f \in inflight : FinishCandidateCompletion(f)
      PROVE  Kept
  BY <1>1 DEF EnsureStageRequest, BeginStageCommit, BeginSkip, Crash,
              FinishCandidateCompletion, graph
<1>2. ASSUME \/ \E f \in inflight, next \in Stages : FinishRunCommit(f, next)
             \/ \E f \in inflight : FinishSkip(f)
             \/ \E kind \in {"closed", "skipped"} : CommitBundle(kind)
      PROVE  Kept
  <2>1. /\ UNCHANGED <<ops, applied>>
        /\ \E p, next : Advance(p, next)
    BY <1>2 DEF FinishRunCommit, FinishSkip, CommitBundle, graph
  <2>2. \E next : head' = [head EXCEPT !.stage = next]
    BY <2>1 DEF Advance
  <2>. QED
    BY <2>1, <2>2 DEF IInv, TypeOK, Head
<1>3. ASSUME NEW f \in inflight, NEW q \in Questions, NEW entry \in Stages,
             NEW c \in CycleIds, FinishNextCycle(f, q, entry, c)
      PROVE  Kept
  BY <1>3 DEF FinishNextCycle, graph
<1>4. ASSUME ReassessGoal \/ EndQuest PROVE Kept
  BY <1>4 DEF ReassessGoal, EndQuest, IInv, TypeOK, Head, graph
<1>5. Kept
  BY <1>1, <1>2, <1>3, <1>4 DEF StageStep
<1>6. NoOp \notin applied
  BY ConstantsAssumption DEF IInv, TypeOK
<1>. QED
  BY <1>5, <1>6 DEF AppliedGoOn

LEMMA ControlStepGoesOn ==
  ASSUME IInv, HeadCanWork, NEW o \in Ops, ControlStep(o)
  PROVE  AppliedGoOn
<1>0. /\ NoOp \notin Ops /\ applied \subseteq Ops
      /\ \A status \in {"completed", "aborted"} : Closed(status).status = status
  BY ConstantsAssumption, ClosedTyped DEF IInv, TypeOK, OpStatus
<1>1. ASSUME NEW a \in Actions, NEW q \in Questions,
             NEW t \in CycleIds \cup {0}, Prepare(o, a, q, t)
      PROVE  AppliedGoOn
  <2>1. /\ ops[o].status = "none" /\ ops'[o].status = "prepared"
        /\ head'.pending = o /\ applied' = applied
        /\ \A p \in Ops \ {o} :
             ops'[p] = IF p = head.pending THEN Closed("aborted") ELSE ops[p]
    BY <1>1 DEF Prepare, IInv, TypeOK, Head, graph
  <2>. QED
    BY <1>0, <2>1 DEF AppliedGoOn, Open
<1>2. CASE Abort(o)
  <2>1. /\ o \notin applied /\ applied' = applied
        /\ ops' = [ops EXCEPT ![o] = Closed("aborted")]
        /\ head'.pending \in {head.pending, NoOp}
    BY <1>2 DEF Abort, IInv, TypeOK, Head, graph
  <2>. QED
    BY <1>0, <2>1 DEF AppliedGoOn, IInv, TypeOK
<1>3. CASE GraphApply(o)
  BY <1>3 DEF GraphApply, AppliedGoOn
<1>4. CASE AwaitHandoff(o)
  <2>1. /\ head.pending = o /\ head' = head /\ applied' = applied
        /\ ops[o] \in Operation
        /\ ops' = [ops EXCEPT ![o].status = "handoff_pending"]
    BY <1>4 DEF AwaitHandoff, Holds, IInv, TypeOK, graph
  <2>2. /\ ops'[o].status = "handoff_pending"
        /\ \A p \in Ops \ {o} : ops'[p] = ops[p]
    BY <2>1 DEF IInv, TypeOK, Operation
  <2>. QED
    BY <1>0, <2>1, <2>2 DEF AppliedGoOn
<1>5. CASE Complete(o) /\ ~AwaitHandoff(o)
  <2>1. head.pending = o /\ applied' = applied
    BY <1>5
       DEF Complete, InvalidateSwitchTarget, ApplyPause, ApplyResume,
           ApplySwitch, SwitchReady, ApplyCancel, ApplyAbandon, ApplyPrune,
           ApplyRestore, Holds, graph
  <2>2. \E status \in {"completed", "aborted"} :
          ops' = [ops EXCEPT ![o] = Closed(status)]
    BY <1>5
       DEF Complete, InvalidateSwitchTarget, ApplyPause, ApplyResume,
           ApplySwitch, ApplyCancel, ApplyAbandon, ApplyPrune,
           ApplyRestore, CompleteOp
  <2>3. head'.pending = NoOp
    <3>1. CASE \E c \in CycleIds : ApplySwitch(o, c)
      BY <3>1 DEF ApplySwitch
    <3>2. CASE ApplyResume(o)
      BY <3>2 DEF ApplyResume, IInv, TypeOK, Head
    <3>3. CASE \/ InvalidateSwitchTarget(o) \/ ApplyPause(o) \/ ApplyCancel(o)
               \/ ApplyAbandon(o) \/ ApplyPrune(o) \/ ApplyRestore(o)
      BY <3>3
         DEF InvalidateSwitchTarget, ApplyPause, ApplyCancel, ApplyAbandon,
             ApplyPrune, ApplyRestore, IInv, TypeOK, Head
    <3>. QED
      BY <1>5, <3>1, <3>2, <3>3 DEF Complete
  <2>. QED
    BY <1>0, <2>1, <2>2, <2>3 DEF AppliedGoOn, IInv, TypeOK
<1>. QED
  BY <1>1, <1>2, <1>3, <1>4, <1>5 DEF ControlStep

(* A step that leaves RG alone keeps the Question of the head.             *)
LEMMA QuestionStays ==
  ASSUME IInv, HeadCanWork, AppliedGoOn,
         lifecycle' = lifecycle, head'.question = head.question,
         (head'.status = "active" \/ PendingResume') =>
           /\ head.status = "active" \/ PendingResume
           /\ PrunesHead(head.pending) =>
                ops'[head.pending] = ops[head.pending]
  PROVE  PresentOrPruning'
<1>. SUFFICES ASSUME head'.status = "active" \/ PendingResume',
                     lifecycle[head.question] # "active"
              PROVE  \E o \in Ops : PrunesHead(o)'
  BY DEF PresentOrPruning
<1>1. PICK o \in Ops : PrunesHead(o)
  BY DEF HeadCanWork, PresentOrPruning
<1>2. ops'[o] = ops[o]
  BY <1>1 DEF AppliedGoOn, PrunesHead
<1>. QED
  BY <1>1, <1>2 DEF PrunesHead, AppliedGoOn, Open

(* A step that leaves RG alone keeps what is said of the pending           *)
(* operation.                                                              *)
LEMMA PendingStays ==
  ASSUME IInv, HeadCanWork, AppliedGoOn, PendingGoesOn, applied' = applied,
         head'.pending # NoOp =>
           \/ head'.status = head.status
           \/ head.status = "active" /\ head'.status # "active"
  PROVE  /\ \A o \in applied' : ops'[o].status # "none"
         /\ PendingResume' => head'.status = "suspended"
         /\ RestoreFindsStranded'
<1>1. \A o \in applied' : ops'[o].status # "none"
  BY DEF HeadCanWork, AppliedGoOn, IInv, TypeOK
<1>2. PendingResume' => head'.status = "suspended"
  BY DEF HeadCanWork, PendingResume, PendingGoesOn
<1>3. RestoreFindsStranded'
  <2>. SUFFICES ASSUME head'.status = "active", head'.pending \in applied,
                       ops'[head'.pending].action = "restore",
                       head'.question \in Subtree[ops'[head'.pending].question]
                PROVE  AppliedStranded'
    BY DEF RestoreFindsStranded
  <2>1. head'.pending # NoOp
    BY ConstantsAssumption DEF IInv, TypeOK
  <2>2. AppliedStranded
    BY <2>1 DEF PendingGoesOn, HeadCanWork, RestoreFindsStranded
  <2>. QED
    BY <2>2, StrandedStays
<1>. QED
  BY <1>1, <1>2, <1>3

(* A step that changes neither Grants nor Cycles nor RG.                   *)
LEMMA QuietKeepsHeadCanWork ==
  ASSUME IInv, HeadCanWork, AppliedGoOn, PendingGoesOn,
         UNCHANGED <<grants, cycles, lifecycle, applied>>,
         head'.cycle = head.cycle, head'.question = head.question,
         head'.stage = head.stage, head'.epoch = head.epoch,
         head'.status = head.status,
         PrunesHead(head.pending) => ops'[head.pending] = ops[head.pending]
  PROVE  HeadCanWork'
<1>1. PendingResume' => PendingResume
  BY DEF PendingResume, PendingGoesOn
<1>2. PresentOrPruning'
  BY <1>1, QuestionStays
<1>3. GrantOfSuspended'
  BY DEF HeadCanWork, GrantOfSuspended
<1>4. GrantAtWork'
  BY StrandedStays DEF HeadCanWork, GrantAtWork
<1>. QED
  BY <1>2, <1>3, <1>4, PendingStays DEF HeadCanWork

(* A commit of the head's Stage moves the Grant too, unless a stranded     *)
(* operation took it (_advance_cycle_after_stage_commit).                  *)
LEMMA AdvanceKeepsHeadCanWork ==
  ASSUME IInv, HeadCanWork, AppliedGoOn, NEW p \in Position,
         NEW next \in Stages, Advance(p, next),
         UNCHANGED <<ops, lifecycle, applied>>
  PROVE  HeadCanWork'
<1>1. /\ p.cycle = head.cycle /\ p.stage = head.stage /\ p.epoch = head.epoch
      /\ head.status = "active" /\ head'.status = "active"
      /\ head'.epoch = head.epoch /\ head'.question = head.question
      /\ head'.pending = head.pending /\ head'.stage = next
      /\ head'.cycle = head.cycle
      /\ cycles'[head.cycle].reason = "none"
  BY AdvanceHeadOnly DEF HeadCycleOnly
<1>2. PendingGoesOn
  BY <1>1 DEF PendingGoesOn
<1>3. PresentOrPruning'
  BY <1>1, QuestionStays DEF PrunesHead, Open
<1>4. GrantOfSuspended'
  BY <1>1 DEF GrantOfSuspended
<1>5. GrantAtWork'
  <2>. SUFFICES ASSUME ~AppliedStranded
                PROVE  /\ grants'[head.epoch].stage = next
                       /\ grants'[head.epoch].status = "active"
    BY <1>1, StrandedStays DEF GrantAtWork
  <2>1. /\ grants[head.epoch].status = "active"
        /\ grants[head.epoch].cycle = head.cycle
    BY <1>1 DEF HeadCanWork, GrantAtWork, IInv, GrantOfHead
  <2>2. grants' = [grants EXCEPT ![head.epoch].stage = next]
    BY <1>1, <2>1 DEF Advance
  <2>3. head.epoch \in Epochs /\ grants[head.epoch] \in Grant
    BY DEF IInv, TypeOK, Head
  <2>. QED
    BY <2>1, <2>2, <2>3 DEF IInv, TypeOK, Grant
<1>. QED
  BY <1>1, <1>2, <1>3, <1>4, <1>5, PendingStays DEF HeadCanWork

(* The next Cycle is active, on a Question that is present, under a new    *)
(* Grant.                                                                  *)
LEMMA NextCycleKeepsHeadCanWork ==
  ASSUME IInv, HeadCanWork, AppliedGoOn, NEW f \in inflight,
         NEW q \in Questions, NEW entry \in Stages, NEW c \in CycleIds,
         FinishNextCycle(f, q, entry, c)
  PROVE  HeadCanWork'
<1>1. /\ head'.pending = NoOp /\ head'.status = "active"
      /\ head'.question = q /\ lifecycle'[q] = "active"
      /\ head'.cycle = c /\ head'.stage = entry /\ head'.epoch = f.epoch + 1
      /\ UNCHANGED <<ops, applied>>
  BY DEF FinishNextCycle, graph
<1>2. /\ f.epoch \in Epochs /\ f.epoch + 1 \in Epochs
      /\ f.cycle \in CycleIds /\ c # f.cycle
  BY InFlightPosition, Typed DEF FinishNextCycle, IsNewCycle, IInv
<1>3. grants'[f.epoch + 1] = ActiveGrant(c, entry)
  BY <1>2 DEF FinishNextCycle, IInv, TypeOK
<1>4. cycles'[c].reason = "none"
  BY <1>2 DEF FinishNextCycle, IInv, TypeOK
<1>5. NoOp \notin applied
  BY ConstantsAssumption DEF IInv, TypeOK
<1>6. PresentOrPruning' /\ GrantOfSuspended' /\ RestoreFindsStranded'
  BY <1>1, <1>5
     DEF PresentOrPruning, GrantOfSuspended, RestoreFindsStranded
<1>7. GrantAtWork'
  BY <1>1, <1>3, <1>4 DEF GrantAtWork, ActiveGrant
<1>. QED
  BY <1>1, <1>6, <1>7 DEF HeadCanWork, PendingResume

(* The candidate is judged again under a new Grant of the same Cycle.      *)
LEMMA ReassessKeepsHeadCanWork ==
  ASSUME IInv, HeadCanWork, AppliedGoOn, ReassessGoal
  PROVE  HeadCanWork'
<1>1. /\ head'.pending = NoOp /\ head.pending = NoOp
      /\ head'.status = "active" /\ head.status = "active"
      /\ head'.question = head.question /\ head'.cycle = head.cycle
      /\ head'.stage = "reasoning" /\ head'.epoch = head.epoch + 1
      /\ UNCHANGED <<ops, applied, lifecycle, cycles>>
  BY DEF ReassessGoal, StageHeadCurrent, IInv, TypeOK, Head, graph
<1>2. head.epoch \in Epochs /\ head.epoch + 1 \in Epochs
  BY Typed DEF ReassessGoal, IInv, TypeOK, Head
<1>3. grants'[head.epoch + 1] = ActiveGrant(head.cycle, "reasoning")
  BY <1>2 DEF ReassessGoal, IInv, TypeOK
<1>4. NoOp \notin applied
  BY ConstantsAssumption DEF IInv, TypeOK
<1>5. PresentOrPruning'
  BY <1>1, <1>4, QuestionStays DEF PrunesHead
<1>6. GrantOfSuspended'
  BY <1>1 DEF GrantOfSuspended
<1>7. GrantAtWork'
  BY <1>1, <1>3, StrandedStays DEF GrantAtWork, ActiveGrant, HeadCanWork
<1>8. PendingGoesOn
  BY <1>1 DEF PendingGoesOn
<1>. QED
  BY <1>1, <1>5, <1>6, <1>7, <1>8, PendingStays DEF HeadCanWork

(* The head that was completed is not active; its Grant keeps its Stage.   *)
LEMMA EndKeepsHeadCanWork ==
  ASSUME IInv, HeadCanWork, AppliedGoOn, EndQuest
  PROVE  HeadCanWork'
<1>1. /\ head'.pending = head.pending
      /\ head'.status = "completed" /\ head.status = "active"
      /\ head'.question = head.question /\ head'.cycle = head.cycle
      /\ head'.stage = head.stage /\ head'.epoch = head.epoch
      /\ UNCHANGED <<ops, applied, lifecycle>>
  BY DEF EndQuest, IInv, TypeOK, Head, graph
<1>2. grants'[head.epoch].stage = grants[head.epoch].stage
  BY DEF EndQuest, IInv, TypeOK, Head, Grant
<1>3. PendingGoesOn
  BY <1>1 DEF PendingGoesOn
<1>4. PresentOrPruning'
  BY <1>1, QuestionStays DEF PrunesHead, Open, PendingResume
<1>5. GrantOfSuspended'
  BY <1>1 DEF GrantOfSuspended
<1>6. GrantAtWork'
  BY <1>1, <1>2, StrandedStays DEF GrantAtWork, HeadCanWork
<1>. QED
  BY <1>1, <1>3, <1>4, <1>5, <1>6, PendingStays DEF HeadCanWork

LEMMA StageStepKeepsHeadCanWork ==
  ASSUME IInv, HeadCanWork, StageStep
  PROVE  HeadCanWork'
<1>0. AppliedGoOn
  BY StageStepGoesOn
<1>1. CASE UNCHANGED <<head, grants, cycles, ops, lifecycle, applied>>
  <2>1. PendingGoesOn
    BY <1>1 DEF PendingGoesOn
  <2>. QED
    BY <1>0, <1>1, <2>1, QuietKeepsHeadCanWork
<1>2. ASSUME NEW f \in inflight, NEW next \in Stages,
             FinishRunCommit(f, next)
      PROVE  HeadCanWork'
  BY <1>0, <1>2, InFlightPosition, AdvanceKeepsHeadCanWork
     DEF FinishRunCommit, IInv, graph
<1>3. ASSUME NEW f \in inflight, FinishSkip(f)
      PROVE  HeadCanWork'
  <2>1. f.stage \in Stages \ {"reasoning"}
    BY <1>3 DEF IInv, TypeOK, InFlight, FinishSkip
  <2>2. NextStage[f.stage] \in Stages
    BY <2>1, SuccessorsAreLater
  <2>. QED
    BY <1>0, <1>3, <2>2, InFlightPosition, AdvanceKeepsHeadCanWork
       DEF FinishSkip, IInv, graph
<1>4. ASSUME NEW kind \in {"closed", "skipped"}, CommitBundle(kind)
      PROVE  HeadCanWork'
  <2>1. HeadPosition \in Position /\ "reasoning" \in Stages
    BY DEF HeadPosition, Position, IInv, TypeOK, Head, Stages
  <2>. QED
    BY <1>0, <1>4, <2>1, AdvanceKeepsHeadCanWork DEF CommitBundle, graph
<1>5. ASSUME NEW f \in inflight, NEW q \in Questions, NEW entry \in Stages,
             NEW c \in CycleIds, FinishNextCycle(f, q, entry, c)
      PROVE  HeadCanWork'
  BY <1>0, <1>5, NextCycleKeepsHeadCanWork
<1>6. CASE ReassessGoal
  BY <1>0, <1>6, ReassessKeepsHeadCanWork
<1>7. CASE EndQuest
  BY <1>0, <1>7, EndKeepsHeadCanWork
<1>. QED
  BY <1>1, <1>2, <1>3, <1>4, <1>5, <1>6, <1>7
     DEF StageStep, EnsureStageRequest, BeginStageCommit, BeginSkip, Crash,
         FinishCandidateCompletion, graph

(* A resume is prepared on a suspended head, for a Question that is        *)
(* present (_assert_foreground_action).                                    *)
LEMMA PrepareKeepsHeadCanWork ==
  ASSUME IInv, HeadCanWork, AppliedGoOn, NEW o \in Ops, NEW a \in Actions,
         NEW q \in Questions, NEW t \in CycleIds \cup {0},
         Prepare(o, a, q, t)
  PROVE  HeadCanWork'
<1>1. /\ head'.pending = o /\ o # NoOp
      /\ head'.cycle = head.cycle /\ head'.question = head.question
      /\ head'.stage = head.stage /\ head'.epoch = head.epoch
      /\ head'.status = head.status
      /\ UNCHANGED <<grants, cycles, lifecycle, applied>>
  BY ConstantsAssumption DEF Prepare, IInv, TypeOK, Head, graph
<1>2. /\ ops'[o].action = a /\ ops[o].status = "none"
      /\ o \notin applied
  BY DEF Prepare, IInv, TypeOK, HeadCanWork
<1>3. a = "resume" => /\ head.status = "suspended"
                      /\ lifecycle[head.question] = "active"
  <2>. SUFFICES ASSUME a = "resume"
                PROVE  /\ head.status = "suspended"
                       /\ lifecycle[head.question] = "active"
    OBVIOUS
  <2>1. head.status \in AllowedStatus["resume"] /\ QuestionAdmits("resume", q)
    BY DEF Prepare
  <2>2. q = head.question /\ lifecycle[q] = "active"
    BY <2>1 DEF QuestionAdmits, SwitchActions
  <2>. QED
    BY <2>1, <2>2 DEF AllowedStatus
<1>4. PresentOrPruning'
  <2>. SUFFICES ASSUME head.status = "active", a # "resume",
                       lifecycle[head.question] # "active"
                PROVE  \E p \in Ops : PrunesHead(p)'
    BY <1>1, <1>2, <1>3 DEF PresentOrPruning, PendingResume
  <2>1. PICK p \in Ops : PrunesHead(p)
    BY DEF HeadCanWork, PresentOrPruning
  <2>2. p # o /\ p # head.pending
    BY <1>2, <2>1, ConstantsAssumption
       DEF PrunesHead, Prepare, OverridesHandoff
  <2>3. ops'[p] = ops[p]
    BY <2>2 DEF Prepare
  <2>. QED
    BY <1>1, <2>1, <2>3 DEF PrunesHead, Open
<1>5. RestoreFindsStranded'
  BY <1>1, <1>2 DEF RestoreFindsStranded
<1>6. GrantOfSuspended'
  BY <1>1 DEF HeadCanWork, GrantOfSuspended
<1>7. GrantAtWork'
  BY <1>1, StrandedStays DEF HeadCanWork, GrantAtWork
<1>8. \A p \in applied' : ops'[p].status # "none"
  BY <1>1 DEF HeadCanWork, AppliedGoOn, IInv, TypeOK
<1>9. PendingResume' => head'.status = "suspended"
  BY <1>1, <1>2, <1>3 DEF PendingResume
<1>. QED
  BY <1>4, <1>5, <1>6, <1>7, <1>8, <1>9 DEF HeadCanWork

(* An operation that is aborted, invalidated or waits was not applied by   *)
(* RG.                                                                     *)
LEMMA ClosingKeepsHeadCanWork ==
  ASSUME IInv, HeadCanWork, AppliedGoOn, NEW o \in Ops,
         Abort(o) \/ InvalidateSwitchTarget(o) \/ AwaitHandoff(o)
  PROVE  HeadCanWork'
<1>1. /\ head'.cycle = head.cycle /\ head'.question = head.question
      /\ head'.stage = head.stage /\ head'.epoch = head.epoch
      /\ head'.status = head.status
      /\ UNCHANGED <<grants, cycles, lifecycle, applied>>
  BY DEF Abort, InvalidateSwitchTarget, AwaitHandoff, IInv, TypeOK, Head, graph
<1>2. CASE Abort(o) \/ InvalidateSwitchTarget(o)
  <2>1. \/ head'.pending = NoOp
        \/ head'.pending = head.pending /\ head.pending # o
    BY <1>2 DEF Abort, InvalidateSwitchTarget, IInv, TypeOK, Head
  <2>2. \A p \in Ops \ {o} : ops'[p] = ops[p]
    BY <1>2 DEF Abort, InvalidateSwitchTarget, IInv, TypeOK
  <2>3. head.pending # NoOp => head.pending \in Ops
    BY DEF IInv, TypeOK, Head
  <2>4. PendingGoesOn
    BY <1>1, <2>1, <2>2, <2>3 DEF PendingGoesOn
  <2>5. ~PrunesHead(o)
    BY <1>2
       DEF Abort, InvalidateSwitchTarget, SwitchReady, SwitchActions, PrunesHead
  <2>6. PrunesHead(head.pending) => ops'[head.pending] = ops[head.pending]
    BY <2>2, <2>5 DEF PrunesHead, IInv, TypeOK
  <2>. QED
    BY <1>1, <2>4, <2>6, QuietKeepsHeadCanWork
<1>3. CASE AwaitHandoff(o)
  <2>1. /\ head.pending = o /\ head' = head
        /\ ops[o].action = "normal_switch" /\ ops[o] \in Operation
        /\ ops' = [ops EXCEPT ![o].status = "handoff_pending"]
    BY <1>3 DEF AwaitHandoff, Holds, IInv, TypeOK
  <2>2. /\ ops'[o].action = ops[o].action
        /\ ops'[o].question = ops[o].question
        /\ ops'[o].target = ops[o].target
    BY <2>1 DEF IInv, TypeOK, Operation
  <2>3. PendingGoesOn
    BY <2>1, <2>2 DEF PendingGoesOn
  <2>. QED
    BY <1>1, <2>1, <2>3, QuietKeepsHeadCanWork DEF PrunesHead
<1>. QED
  BY <1>2, <1>3

(* RG prunes or restores the Question of the head before AE knows.         *)
LEMMA GraphKeepsHeadCanWork ==
  ASSUME IInv, HeadCanWork, AppliedGoOn, NEW o \in Ops, GraphApply(o)
  PROVE  HeadCanWork'
<1>1. /\ UNCHANGED <<head, grants, cycles, ops>>
      /\ applied' = applied \cup {o} /\ o \notin applied
      /\ ops[o].status = "prepared"
      /\ ops[o].action \in {"prune", "restore"}
      /\ head.question \in Questions
  BY DEF GraphApply, IInv, TypeOK, Head
<1>2. \A p \in applied' : ops'[p].status # "none"
  BY <1>1 DEF HeadCanWork
<1>3. PendingResume' => head'.status = "suspended"
  BY <1>1 DEF HeadCanWork, PendingResume
<1>4. ASSUME NEW p \in Ops, PrunesHead(p)
      PROVE  PrunesHead(p)'
  BY <1>1, <1>4 DEF PrunesHead, Open
<1>5. PresentOrPruning'
  <2>. SUFFICES ASSUME head.status = "active" \/ PendingResume
                PROVE  \/ lifecycle'[head.question] = "active"
                       \/ \E p \in Ops : PrunesHead(p)'
    BY <1>1 DEF PresentOrPruning, PendingResume
  <2>1. CASE head.question \notin Subtree[ops[o].question]
    <3>1. lifecycle'[head.question] = lifecycle[head.question]
      BY <1>1, <2>1 DEF GraphApply
    <3>. QED
      BY <1>4, <3>1 DEF HeadCanWork, PresentOrPruning
  <2>2. CASE head.question \in Subtree[ops[o].question] /\ ops[o].action = "prune"
    BY <1>1, <2>2 DEF PrunesHead, Open
  <2>3. CASE head.question \in Subtree[ops[o].question] /\ ops[o].action = "restore"
    BY <1>1, <2>3 DEF GraphApply
  <2>. QED
    BY <1>1, <2>1, <2>2, <2>3
<1>6. RestoreFindsStranded'
  <2>. SUFFICES ASSUME head.status = "active", head.pending \in applied',
                       ops[head.pending].action = "restore",
                       head.question \in Subtree[ops[head.pending].question]
                PROVE  AppliedStranded'
    BY <1>1 DEF RestoreFindsStranded
  <2>1. CASE head.pending \in applied
    BY <2>1, StrandedStays DEF HeadCanWork, RestoreFindsStranded
  <2>2. CASE head.pending = o
    <3>1. lifecycle[head.question] = "pruned"
      BY <1>1, <2>2 DEF GraphApply
    <3>2. PICK p \in Ops : PrunesHead(p)
      BY <3>1 DEF HeadCanWork, PresentOrPruning
    <3>3. p \in applied /\ Stranded(p)
      BY <3>2 DEF PrunesHead, Stranded
    <3>4. AppliedStranded
      BY <3>3 DEF AppliedStranded
    <3>. QED
      BY <3>4, StrandedStays
  <2>. QED
    BY <1>1, <2>1, <2>2
<1>7. GrantOfSuspended'
  BY <1>1 DEF HeadCanWork, GrantOfSuspended
<1>8. GrantAtWork'
  BY <1>1, StrandedStays DEF HeadCanWork, GrantAtWork
<1>. QED
  BY <1>2, <1>3, <1>5, <1>6, <1>7, <1>8 DEF HeadCanWork

(* pause, cancel and abandon: the head is no longer active.                *)
LEMMA SuspendingKeepsHeadCanWork ==
  ASSUME IInv, HeadCanWork, AppliedGoOn, NEW o \in Ops,
         ApplyPause(o) \/ ApplyCancel(o) \/ ApplyAbandon(o)
  PROVE  HeadCanWork'
<1>1. /\ head.pending = o /\ o # NoOp /\ ops[o].action # "resume"
      /\ ops[o].cycle = head.cycle /\ ops[o].epoch = head.epoch
      /\ head.cycle \in CycleIds /\ head.epoch \in Epochs
      /\ UNCHANGED <<lifecycle, applied>>
  BY HeldOperation, ConstantsAssumption
     DEF ApplyPause, ApplyCancel, ApplyAbandon, graph
<1>2. /\ head'.cycle = head.cycle /\ head'.question = head.question
      /\ head'.stage = head.stage /\ head'.epoch = head.epoch
      /\ head'.pending = NoOp /\ head'.status \in {"suspended", "abandoned"}
      /\ head'.status = "abandoned" => ApplyAbandon(o)
  BY DEF ApplyPause, ApplyCancel, ApplyAbandon, IInv, TypeOK, Head
<1>3. grants'[head.epoch].stage = grants[head.epoch].stage
  BY <1>1 DEF ApplyPause, ApplyCancel, ApplyAbandon, IInv, TypeOK, Grant
<1>4. PendingGoesOn
  BY <1>2 DEF PendingGoesOn
<1>5. PresentOrPruning'
  BY <1>2 DEF PresentOrPruning, PendingResume
<1>6. GrantOfSuspended'
  <2>1. CASE ApplyPause(o)
    <3>1. grants'[head.epoch].status = "suspended"
      BY <1>1, <2>1 DEF ApplyPause, IInv, TypeOK, Grant
    <3>. QED
      BY <1>2, <3>1 DEF GrantOfSuspended
  <2>2. CASE ApplyCancel(o)
    <3>1. grants'[head.epoch].status = "revoked"
      BY <1>1, <2>2 DEF ApplyCancel, IInv, TypeOK, Grant
    <3>2. cycles' = WithReason(cycles, head.cycle, "human_cancelled")
      BY <1>1, <2>2 DEF ApplyCancel
    <3>3. "human_cancelled" \in SuspensionReason /\ cycles \in [CycleIds -> Cycle]
      BY DEF SuspensionReason, IInv, TypeOK
    <3>4. cycles'[head.cycle].status = "ongoing" =>
            cycles'[head.cycle].reason = "human_cancelled"
      <4>1. cycles'[head.cycle].status = cycles[head.cycle].status
        BY <1>1, <3>2, <3>3, ReasonOnly
      <4>2. cycles[head.cycle].status = "ongoing" =>
              WithReason(cycles, head.cycle, "human_cancelled")[head.cycle].reason
                = "human_cancelled"
        BY <1>1, <3>3, ReasonWritten
      <4>. QED
        BY <3>2, <4>1, <4>2
    <3>. QED
      BY <1>2, <3>1, <3>4 DEF GrantOfSuspended
  <2>3. CASE ApplyAbandon(o)
    <3>1. head'.status = "abandoned"
      BY <2>3 DEF ApplyAbandon, IInv, TypeOK, Head
    <3>. QED
      BY <3>1 DEF GrantOfSuspended
  <2>. QED
    BY <2>1, <2>2, <2>3
<1>7. GrantAtWork'
  BY <1>2, <1>3, StrandedStays DEF HeadCanWork, GrantAtWork
<1>. QED
  BY <1>1, <1>2, <1>4, <1>5, <1>6, <1>7, PendingStays DEF HeadCanWork

(* A prune suspends the head it reaches; a restore leaves it as it is, and *)
(* reaches an active head only after a stranded operation.                 *)
LEMMA LifecycleKeepsHeadCanWork ==
  ASSUME IInv, HeadCanWork, AppliedGoOn, NEW o \in Ops,
         ApplyPrune(o) \/ ApplyRestore(o)
  PROVE  HeadCanWork'
<1>1. /\ head.pending = o /\ o # NoOp /\ ops[o].action \in {"prune", "restore"}
      /\ o \in applied
      /\ ops[o].epoch = head.epoch
      /\ head.cycle \in CycleIds /\ head.epoch \in Epochs
      /\ UNCHANGED <<lifecycle, applied>>
  BY HeldOperation, ConstantsAssumption
     DEF ApplyPrune, ApplyRestore, graph, IInv, TypeOK, Head
<1>2. /\ head'.cycle = head.cycle /\ head'.question = head.question
      /\ head'.stage = head.stage /\ head'.epoch = head.epoch
      /\ head'.pending = NoOp
  BY DEF ApplyPrune, ApplyRestore, IInv, TypeOK, Head
<1>3. PendingGoesOn
  BY <1>2 DEF PendingGoesOn
<1>4. CASE head.question \notin Subtree[ops[o].question]
  <2>1. UNCHANGED <<grants, cycles>> /\ head'.status = head.status
    BY <1>4 DEF ApplyPrune, ApplyRestore, IInv, TypeOK, Head
  <2>2. ~PrunesHead(head.pending)
    BY <1>1, <1>4 DEF PrunesHead
  <2>. QED
    BY <1>1, <1>2, <1>3, <2>1, <2>2, QuietKeepsHeadCanWork
<1>5. CASE head.question \in Subtree[ops[o].question]
  <2>1. grants' = [grants EXCEPT ![head.epoch].status = "suspended"]
    BY <1>1, <1>5 DEF ApplyPrune, ApplyRestore
  <2>2. /\ grants'[head.epoch].status = "suspended"
        /\ grants'[head.epoch].stage = grants[head.epoch].stage
    BY <1>1, <2>1 DEF IInv, TypeOK, Grant
  <2>3. /\ ApplyPrune(o) => head'.status = "suspended"
        /\ ApplyRestore(o) => head'.status = head.status
    BY <1>5 DEF ApplyPrune, ApplyRestore, IInv, TypeOK, Head
  <2>4. ASSUME ApplyRestore(o), head.status = "active"
        PROVE  AppliedStranded
    BY <1>1, <1>5, <2>4
       DEF ApplyRestore, HeadCanWork, RestoreFindsStranded
  <2>5. PresentOrPruning'
    <3>1. CASE ApplyPrune(o)
      BY <1>2, <2>3, <3>1 DEF PresentOrPruning, PendingResume
    <3>2. CASE ApplyRestore(o)
      <4>1. ~PrunesHead(head.pending)
        BY <1>1, <3>2 DEF PrunesHead, ApplyRestore
      <4>. QED
        BY <1>1, <1>2, <2>3, <3>2, <4>1, QuestionStays DEF PendingResume
    <3>. QED
      BY <3>1, <3>2
  <2>6. GrantOfSuspended'
    BY <1>2, <2>2 DEF GrantOfSuspended
  <2>7. GrantAtWork'
    BY <1>2, <2>2, <2>3, <2>4, StrandedStays DEF HeadCanWork, GrantAtWork
  <2>. QED
    BY <1>1, <1>2, <1>3, <2>5, <2>6, <2>7, PendingStays DEF HeadCanWork
<1>. QED
  BY <1>4, <1>5

(* A resume makes a suspended Grant active, or signs the next one after a  *)
(* cancel.                                                                 *)
LEMMA ResumeKeepsHeadCanWork ==
  ASSUME IInv, HeadCanWork, AppliedGoOn, NEW o \in Ops, ApplyResume(o)
  PROVE  HeadCanWork'
<1>. DEFINE resigns == /\ grants[head.epoch].status = "revoked"
                       /\ cycles[head.cycle].reason = "human_cancelled"
<1>1. /\ head.pending = o /\ o # NoOp /\ ops[o].action = "resume"
      /\ ops[o].cycle = head.cycle /\ ops[o].epoch = head.epoch
      /\ head.cycle \in CycleIds /\ head.epoch \in Epochs
      /\ cycles[head.cycle].status = "ongoing"
      /\ ops[o].epoch < MaxEpoch
      /\ UNCHANGED <<lifecycle, applied>>
  BY HeldOperation, ConstantsAssumption
     DEF ApplyResume, graph, IInv, OpenOperationsRecorded
<1>2. head.status = "suspended"
  BY <1>1 DEF HeadCanWork, PendingResume
<1>3. /\ head'.cycle = head.cycle /\ head'.question = head.question
      /\ head'.stage = head.stage /\ head'.status = "active"
      /\ head'.pending = NoOp
      /\ head'.epoch = IF resigns THEN head.epoch + 1 ELSE head.epoch
  <2>1. CASE resigns
    <3>1. head' = [head EXCEPT !.epoch = ops[o].epoch + 1, !.status = "active",
                               !.pending = NoOp]
      BY <1>1, <2>1 DEF ApplyResume
    <3>. QED
      BY <1>1, <2>1, <3>1 DEF IInv, TypeOK, Head
  <2>2. CASE ~resigns
    <3>1. head' = [head EXCEPT !.status = "active", !.pending = NoOp]
      BY <1>1, <2>2 DEF ApplyResume
    <3>. QED
      BY <2>2, <3>1 DEF IInv, TypeOK, Head
  <2>. QED
    BY <2>1, <2>2
<1>4. cycles'[head.cycle].reason = "none"
  <2>1. /\ cycles' = WithReason(cycles, head.cycle, "none")
        /\ "none" \in SuspensionReason /\ cycles \in [CycleIds -> Cycle]
    BY <1>1 DEF ApplyResume, SuspensionReason, IInv, TypeOK
  <2>. QED
    BY <1>1, <2>1, ReasonWritten
<1>5. PendingGoesOn
  BY <1>3 DEF PendingGoesOn
<1>6. PresentOrPruning'
  BY <1>1, <1>3, QuestionStays DEF PrunesHead, PendingResume
<1>7. GrantOfSuspended'
  BY <1>3 DEF GrantOfSuspended
<1>8. GrantAtWork'
  <2>. SUFFICES ASSUME ~AppliedStranded
                PROVE  /\ grants'[head'.epoch].stage = head.stage
                       /\ grants'[head'.epoch].status = "active"
    BY <1>3, <1>4, StrandedStays DEF GrantAtWork
  <2>1. CASE resigns
    <3>1. grants' = [grants EXCEPT
                       ![head.epoch + 1] = ActiveGrant(head.cycle, head.stage)]
      BY <1>1, <2>1 DEF ApplyResume
    <3>2. head.epoch + 1 \in Epochs
      BY <1>1, Typed DEF IInv, TypeOK, Head
    <3>3. grants'[head.epoch + 1] = ActiveGrant(head.cycle, head.stage)
      BY <3>1, <3>2 DEF IInv, TypeOK
    <3>. QED
      BY <1>3, <2>1, <3>3 DEF ActiveGrant
  <2>2. CASE ~resigns
    <3>1. grants[head.epoch].status = "suspended"
      BY <1>1, <1>2, <2>2 DEF HeadCanWork, GrantOfSuspended
    <3>2. grants' = [grants EXCEPT ![head.epoch].status = "active"]
      BY <1>1, <2>2, <3>1 DEF ApplyResume
    <3>3. /\ grants'[head.epoch].status = "active"
          /\ grants'[head.epoch].stage = grants[head.epoch].stage
      BY <1>1, <3>2 DEF IInv, TypeOK, Grant
    <3>. QED
      BY <1>3, <2>2, <3>3 DEF HeadCanWork, GrantAtWork
  <2>. QED
    BY <2>1, <2>2
<1>. QED
  BY <1>3, <1>5, <1>6, <1>7, <1>8, <1>1, PendingStays DEF HeadCanWork

(* A switch starts anew, on a Question that is present.                    *)
LEMMA SwitchKeepsHeadCanWork ==
  ASSUME IInv, HeadCanWork, AppliedGoOn, NEW o \in Ops, NEW c \in CycleIds,
         ApplySwitch(o, c)
  PROVE  HeadCanWork'
<1>1. /\ head'.cycle = c /\ head'.question = ops[o].question
      /\ head'.epoch = head.epoch + 1 /\ head'.status = "active"
      /\ head'.pending = NoOp
      /\ grants'[head.epoch + 1] = ActiveGrant(c, head'.stage)
      /\ cycles'[c].reason = "none"
  BY SwitchWrites
<1>2. lifecycle'[head'.question] = "active" /\ applied' = applied
  BY <1>1 DEF ApplySwitch, graph
<1>3. NoOp \notin applied
  BY ConstantsAssumption DEF IInv, TypeOK
<1>4. \A p \in applied' : ops'[p].status # "none"
  BY <1>2 DEF HeadCanWork, AppliedGoOn, IInv, TypeOK
<1>5. PresentOrPruning' /\ RestoreFindsStranded' /\ GrantOfSuspended'
  BY <1>1, <1>2, <1>3
     DEF PresentOrPruning, RestoreFindsStranded, GrantOfSuspended
<1>6. GrantAtWork'
  BY <1>1 DEF GrantAtWork, ActiveGrant
<1>. QED
  BY <1>1, <1>4, <1>5, <1>6 DEF HeadCanWork, PendingResume

LEMMA ControlStepKeepsHeadCanWork ==
  ASSUME IInv, HeadCanWork, NEW o \in Ops, ControlStep(o)
  PROVE  HeadCanWork'
<1>0. AppliedGoOn
  BY ControlStepGoesOn
<1>1. ASSUME NEW a \in Actions, NEW q \in Questions,
             NEW t \in CycleIds \cup {0}, Prepare(o, a, q, t)
      PROVE  HeadCanWork'
  BY <1>0, <1>1, PrepareKeepsHeadCanWork
<1>2. CASE Abort(o) \/ InvalidateSwitchTarget(o) \/ AwaitHandoff(o)
  BY <1>0, <1>2, ClosingKeepsHeadCanWork
<1>3. CASE GraphApply(o)
  BY <1>0, <1>3, GraphKeepsHeadCanWork
<1>4. CASE ApplyPause(o) \/ ApplyCancel(o) \/ ApplyAbandon(o)
  BY <1>0, <1>4, SuspendingKeepsHeadCanWork
<1>5. CASE ApplyPrune(o) \/ ApplyRestore(o)
  BY <1>0, <1>5, LifecycleKeepsHeadCanWork
<1>6. CASE ApplyResume(o)
  BY <1>0, <1>6, ResumeKeepsHeadCanWork
<1>7. ASSUME NEW c \in CycleIds, ApplySwitch(o, c)
      PROVE  HeadCanWork'
  BY <1>0, <1>7, SwitchKeepsHeadCanWork
<1>. QED
  BY <1>1, <1>2, <1>3, <1>4, <1>5, <1>6, <1>7 DEF ControlStep, Complete

LEMMA InitHeadCanWork == Init => HeadCanWork
<1>. SUFFICES ASSUME Init PROVE HeadCanWork
  OBVIOUS
<1>1. /\ lifecycle[head.question] = "active"
      /\ grants[head.epoch].stage = head.stage
      /\ grants[head.epoch].status = "active"
      /\ cycles[head.cycle].reason = "none"
  BY ConstantsAssumption DEF Init, Epochs, CycleIds, ActiveGrant, NoCycle
<1>. QED
  BY <1>1
     DEF Init, HeadCanWork, PendingResume, PresentOrPruning,
         RestoreFindsStranded, GrantOfSuspended, GrantAtWork

LEMMA NextKeepsHeadCanWork ==
  IInv /\ HeadCanWork /\ [Next]_vars => HeadCanWork'
<1>. SUFFICES ASSUME IInv, HeadCanWork, [Next]_vars PROVE HeadCanWork'
  OBVIOUS
<1>1. CASE StageStep
  BY <1>1, StageStepKeepsHeadCanWork
<1>2. ASSUME NEW o \in Ops, ControlStep(o) PROVE HeadCanWork'
  BY <1>2, ControlStepKeepsHeadCanWork
<1>3. CASE UNCHANGED vars
  <2>1. UNCHANGED <<head, grants, cycles, ops, lifecycle, applied>>
    BY <1>3 DEF vars, graph
  <2>2. AppliedGoOn /\ PendingGoesOn
    BY <2>1 DEF AppliedGoOn, PendingGoesOn
  <2>. QED
    BY <2>1, <2>2, QuietKeepsHeadCanWork
<1>. QED
  BY <1>1, <1>2, <1>3 DEF Next

(* Neither half of a control is ever undone alone.                         *)
THEOREM HeadsCanWork == Spec => []HeadCanWork
<1>1. Init => HeadCanWork
  BY InitHeadCanWork
<1>2. IInv /\ HeadCanWork /\ [Next]_vars => HeadCanWork'
  BY NextKeepsHeadCanWork
<1>. QED
  BY <1>1, <1>2, ForegroundInvariant, PTL DEF Spec

(* While no operation is stranded, an active head has an active Grant at   *)
(* its Stage and nothing suspends its Cycle.                               *)
THEOREM ActiveHeadsHaveGrants == Spec => []ActiveHeadHasGrant
<1>1. IInv /\ HeadCanWork => ActiveHeadHasGrant
  BY DEF IInv, TypeOK, HeadCanWork, GrantAtWork, AppliedStranded,
         ActiveHeadHasGrant
<1>. QED
  BY <1>1, ForegroundInvariant, HeadsCanWork, PTL

(* The foreground works on a Question that is not pruned, except while the *)
(* control that pruned it has not been completed.                          *)
THEOREM ActiveQuestionsPresent == Spec => []ActiveQuestionPresent
<1>1. HeadCanWork => ActiveQuestionPresent
  BY DEF HeadCanWork, PresentOrPruning, PrunesHead, ActiveQuestionPresent
<1>. QED
  BY <1>1, HeadsCanWork, PTL
=============================================================================
