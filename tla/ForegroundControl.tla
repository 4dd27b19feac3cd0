-------------------------- MODULE ForegroundControl --------------------------
(***************************************************************************)
(* The foreground of one Quest, as the Advancement Engine (AE) keeps it.   *)
(*                                                                         *)
(* A Quest has one foreground head: the Cycle, Question, Stage and Epoch   *)
(* that may do research now.  Every Epoch carries one Grant.  Stage        *)
(* commits move the head along idea -> plan -> bundle -> reasoning, an     *)
(* accepted Reasoning outcome opens the next Cycle, and confirmed human    *)
(* controls pause, resume, switch, cancel, abandon, prune or restore it    *)
(* through a prepare / complete / abort protocol.                          *)
(*                                                                         *)
(* One action is one database transaction of AE, except that a Stage       *)
(* commit of a run (and a skip) first checks the head in a read of its own *)
(* and writes in a later transaction: BeginStageCommit / BeginSkip put the *)
(* checked position in `inflight`, and any other action may come between.  *)
(*                                                                         *)
(* Research Graph (RG) appears only as what AE reads of it: the lifecycle  *)
(* of the Questions and the receipt of an applied prune or restore.        *)
(***************************************************************************)
EXTENDS Integers, FiniteSets

CONSTANTS
  Questions,      \* the Questions of the Quest
  RootQuestion,   \* the Question of the initial Cycle
  Subtree,        \* Subtree[q] is the set of q and its descendants
  Ops,            \* the control operations humans confirm
  NoOp,           \* no pending operation
  Actions,        \* the control actions those operations may take
  MaxCycle,       \* bound: Cycles are numbered 1..MaxCycle in creation order
  MaxEpoch,       \* bound: Epochs are numbered 1..MaxEpoch
  MaxInFlight     \* bound: Stage commits between their check and their write

SwitchActions == {"normal_switch", "forced_switch"}
GraphActions == {"prune", "restore"}
ControlActions ==
  {"pause", "resume", "cancel", "abandon"} \cup SwitchActions \cup GraphActions

ASSUME ConstantsAssumption ==
  /\ RootQuestion \in Questions
  /\ Subtree \in [Questions -> SUBSET Questions]
  /\ \A q \in Questions : q \in Subtree[q]
  /\ NoOp \notin Ops
  /\ Actions \subseteq ControlActions
  /\ MaxCycle \in Nat \ {0}
  /\ MaxEpoch \in Nat \ {0}
  /\ MaxInFlight \in Nat

VARIABLES
  head,       \* ae_foreground_heads, the row of the Quest
  grants,     \* ae_foreground_grants, by Epoch
  cycles,     \* ae_cycles
  requests,   \* ae_stage_run_requests: (cycle, stage, epoch)
  commits,    \* ae_stage_commits: (cycle, stage, epoch) and how it closed
  ops,        \* ae_control_operations
  inflight,   \* commit calls that passed their check and have not written
  ended,      \* ae_quest_endings has a row
  lifecycle,  \* RG: rg_question_lifecycle
  pruned,     \* RG: the roots of rg_prune_records
  applied     \* RG: the operations whose lifecycle change is applied

vars == <<head, grants, cycles, requests, commits, ops, inflight, ended,
          lifecycle, pruned, applied>>

graph == <<lifecycle, pruned, applied>>

-----------------------------------------------------------------------------
(* Records                                                                 *)

Stages == {"idea", "plan", "bundle", "reasoning"}
EarlierStages ==
  [idea |-> {}, plan |-> {"idea"}, bundle |-> {"idea", "plan"},
   reasoning |-> {"idea", "plan", "bundle"}]

CycleIds == 1..MaxCycle
Epochs == 1..MaxEpoch

HeadStatus == {"active", "suspended", "completed", "abandoned"}
GrantStatus ==
  {"none", "active", "suspended", "revoked", "completed", "abandoned"}
CycleStatus == {"none", "ongoing", "completed", "abandoned"}
SuspensionReason ==
  {"none", "human_paused", "human_cancelled", "foreground_switched",
   "question_pruned", "question_restored_revalidation_required"}
OpStatus == {"none", "prepared", "handoff_pending", "completed", "aborted"}

Head == [cycle : CycleIds, question : Questions, stage : Stages,
         epoch : Epochs, status : HeadStatus, pending : Ops \cup {NoOp}]
Grant == [cycle : CycleIds \cup {0}, stage : Stages, status : GrantStatus,
          revoked : BOOLEAN]    \* revoked: revoked_at is set
Cycle == [question : Questions, stage : Stages, status : CycleStatus,
          reason : SuspensionReason, successor : CycleIds \cup {0}]
Position == [cycle : CycleIds, stage : Stages, epoch : Epochs]
CommitKind == {"closed", "skipped", "next_cycle", "candidate_completion"}
StageCommit == [cycle : CycleIds, stage : Stages, epoch : Epochs,
                kind : CommitKind]
InFlight ==    \* Reasoning is never skipped
  [cycle : CycleIds, stage : Stages, epoch : Epochs, by : {"run"}] \cup
  [cycle : CycleIds, stage : Stages \ {"reasoning"}, epoch : Epochs,
   by : {"skip"}]
Operation == [action : ControlActions \cup {"none"}, status : OpStatus,
              cycle : CycleIds \cup {0}, epoch : Epochs \cup {0},
              stage : Stages, question : Questions,
              target : CycleIds \cup {0}]

NoGrant == [cycle |-> 0, stage |-> "idea", status |-> "none",
            revoked |-> FALSE]
ActiveGrant(c, stage) == [cycle |-> c, stage |-> stage, status |-> "active",
                          revoked |-> FALSE]
NoCycle == [question |-> RootQuestion, stage |-> "idea", status |-> "none",
            reason |-> "none", successor |-> 0]
NoOperation == [action |-> "none", status |-> "none", cycle |-> 0,
                epoch |-> 0, stage |-> "idea", question |-> RootQuestion,
                target |-> 0]

TypeOK ==
  /\ head \in Head
  /\ grants \in [Epochs -> Grant]
  /\ cycles \in [CycleIds -> Cycle]
  /\ requests \subseteq Position
  /\ commits \subseteq StageCommit
  /\ ops \in [Ops -> Operation]
  /\ inflight \subseteq InFlight
  /\ ended \in BOOLEAN
  /\ lifecycle \in [Questions -> {"active", "pruned"}]
  /\ pruned \subseteq Questions
  /\ applied \subseteq Ops

(* The initial Cycle: Idea of the root Question under Epoch 1.             *)
Init ==
  /\ head = [cycle |-> 1, question |-> RootQuestion, stage |-> "idea",
             epoch |-> 1, status |-> "active", pending |-> NoOp]
  /\ grants = [e \in Epochs |->
                 IF e = 1 THEN ActiveGrant(1, "idea") ELSE NoGrant]
  /\ cycles = [c \in CycleIds |->
                 IF c = 1 THEN [NoCycle EXCEPT !.status = "ongoing"]
                          ELSE NoCycle]
  /\ requests = {}
  /\ commits = {}
  /\ ops = [o \in Ops |-> NoOperation]
  /\ inflight = {}
  /\ ended = FALSE
  /\ lifecycle = [q \in Questions |-> "active"]
  /\ pruned = {}
  /\ applied = {}

-----------------------------------------------------------------------------
(* Positions                                                               *)

HeadPosition ==
  [cycle |-> head.cycle, stage |-> head.stage, epoch |-> head.epoch]

PositionOf(x) == [cycle |-> x.cycle, stage |-> x.stage, epoch |-> x.epoch]

CommittedAt(p) == \E m \in commits : PositionOf(m) = p

(* The Cycle the next INSERT into ae_cycles creates.                       *)
IsNewCycle(c) ==
  /\ cycles[c].status = "none"
  /\ \A d \in CycleIds : d < c => cycles[d].status # "none"

SpareCycle == \E c \in CycleIds : IsNewCycle(c)

(* SELECT ... WHERE question_ref = q AND status = 'ongoing'                *)
(* ORDER BY created_at DESC LIMIT 1                                        *)
IsLatestOngoing(c, q) ==
  /\ cycles[c].question = q
  /\ cycles[c].status = "ongoing"
  /\ \A d \in CycleIds :
       (cycles[d].question = q /\ cycles[d].status = "ongoing") => d <= c

(* Mutant of IsSwitchTarget: a switch never looks for an ongoing Cycle.     *)
AlwaysMints(t, q) == t = 0 /\ SpareCycle

(* The target Cycle a switch to q records: the latest ongoing Cycle of q,  *)
(* or a new reference (0: minted, no row yet) when q has none.             *)
IsSwitchTarget(t, q) ==
  IF \E c \in CycleIds : IsLatestOngoing(c, q)
    THEN t \in CycleIds /\ IsLatestOngoing(t, q)
    ELSE t = 0 /\ SpareCycle

-----------------------------------------------------------------------------
(* Stage requests and Stage commits                                        *)

(* _assert_stage_head_current, for the position of the head itself.        *)
StageHeadCurrent == head.status = "active" /\ head.pending = NoOp

(* ensure_idea/plan/bundle/reasoning_stage_request *)
EnsureStageRequest ==
  /\ StageHeadCurrent
  /\ HeadPosition \notin requests
  /\ requests' = requests \cup {HeadPosition}
  /\ UNCHANGED <<head, grants, cycles, commits, ops, inflight, ended, graph>>

(* _assert_stage_request_current: read before the commit's transaction.  A *)
(* pending normal switch lets the Stage reach its boundary.                *)
BeginStageCommit ==
  /\ head.status = "active"
  /\ head.pending # NoOp => ops[head.pending].action = "normal_switch"
  /\ HeadPosition \in requests
  /\ ~CommittedAt(HeadPosition)
  /\ Cardinality(inflight) < MaxInFlight
  /\ inflight' = inflight \cup
       {[cycle |-> head.cycle, stage |-> head.stage, epoch |-> head.epoch,
         by |-> "run"]}
  /\ UNCHANGED <<head, grants, cycles, requests, commits, ops, ended, graph>>

(* commit_stage_disposition('skipped'): its first read.                    *)
BeginSkip ==
  /\ StageHeadCurrent
  /\ head.stage # "reasoning"
  /\ cycles[head.cycle].status = "ongoing"
  /\ HeadPosition \notin requests
  /\ ~CommittedAt(HeadPosition)
  /\ Cardinality(inflight) < MaxInFlight
  /\ inflight' = inflight \cup
       {[cycle |-> head.cycle, stage |-> head.stage, epoch |-> head.epoch,
         by |-> "skip"]}
  /\ UNCHANGED <<head, grants, cycles, requests, commits, ops, ended, graph>>

(* The calls in flight are lost with the process.                          *)
Crash ==
  /\ inflight # {}
  /\ inflight' = {}
  /\ UNCHANGED <<head, grants, cycles, requests, commits, ops, ended, graph>>

(* REASONING_SUCCESSOR_ENTRY_STAGES: where the next Cycle may begin.       *)
SuccessorEntries == {"idea", "plan", "reasoning"}

(* Where a Stage closed by a run leads: an exhausted Stage, and an Idea    *)
(* with no viable candidate, go straight to Reasoning.                     *)
RunSuccessors ==
  [idea |-> {"plan", "reasoning"}, plan |-> {"bundle", "reasoning"},
   bundle |-> {"reasoning"}]

(* NEXT_STAGE, where a skipped Stage leads.                                *)
NextStage == [idea |-> "plan", plan |-> "bundle", bundle |-> "reasoning"]

(* Mutants of Advance: the Grant keeps its Stage; the Cycle row keeps its   *)
(* Stage; a commit of any Epoch and Stage of the head's Cycle is accepted. *)
AdvanceWithoutGrant(p, next) ==
  /\ HeadPosition = p
  /\ head.status = "active"
  /\ head' = [head EXCEPT !.stage = next]
  /\ cycles' = [cycles EXCEPT ![p.cycle].stage = next]
  /\ UNCHANGED grants

AdvanceWithoutCycle(p, next) ==
  /\ HeadPosition = p
  /\ head.status = "active"
  /\ head' = [head EXCEPT !.stage = next]
  /\ grants' = [grants EXCEPT ![p.epoch].stage = next]
  /\ UNCHANGED cycles

AdvanceUnchecked(p, next) ==
  /\ head.cycle = p.cycle
  /\ head.status = "active"
  /\ head' = [head EXCEPT !.stage = next]
  /\ grants' = [grants EXCEPT ![head.epoch].stage = next]
  /\ cycles' = [cycles EXCEPT ![p.cycle].stage = next]

(* _advance_cycle_after_stage_commit: the head must still be at p, but a   *)
(* control operation may be pending.                                       *)
Advance(p, next) ==
  /\ HeadPosition = p
  /\ head.status = "active"
  /\ head' = [head EXCEPT !.stage = next]
  /\ grants' = IF grants[p.epoch].status = "active"
                    /\ grants[p.epoch].cycle = p.cycle
                 THEN [grants EXCEPT ![p.epoch].stage = next]
                 ELSE grants
  /\ cycles' = IF cycles[p.cycle].status = "ongoing"
                 THEN [cycles EXCEPT ![p.cycle].stage = next,
                                     ![p.cycle].reason = "none"]
                 ELSE cycles

RecordCommit(p, kind) ==
  commits' = commits \cup {[cycle |-> p.cycle, stage |-> p.stage,
                            epoch |-> p.epoch, kind |-> kind]}

(* The write of commit_idea_stage and commit_plan_stage, and of            *)
(* commit_stage_disposition for an exhausted Idea, Plan or Bundle.         *)
FinishRunCommit(f, next) ==
  /\ f.by = "run"
  /\ f.stage # "reasoning"
  /\ next \in RunSuccessors[f.stage]
  /\ ~CommittedAt(PositionOf(f))
  /\ Advance(PositionOf(f), next)
  /\ RecordCommit(f, "closed")
  /\ inflight' = inflight \ {f}
  /\ UNCHANGED <<requests, ops, ended, graph>>

(* The write of commit_stage_disposition('skipped').                       *)
FinishSkip(f) ==
  /\ f.by = "skip"
  /\ ~CommittedAt(PositionOf(f))
  /\ PositionOf(f) \notin requests
  /\ Advance(PositionOf(f), NextStage[f.stage])
  /\ RecordCommit(f, "skipped")
  /\ inflight' = inflight \ {f}
  /\ UNCHANGED <<requests, ops, ended, graph>>

(* commit_bundle_stage / skip_bundle_stage: the head is checked again, and *)
(* no operation may be pending, inside the transaction.                    *)
CommitBundle(kind) ==
  /\ head.stage = "bundle"
  /\ StageHeadCurrent
  /\ HeadPosition \in requests
  /\ ~CommittedAt(HeadPosition)
  /\ Advance(HeadPosition, "reasoning")
  /\ RecordCommit(HeadPosition, kind)
  /\ UNCHANGED <<requests, ops, inflight, ended, graph>>

(* commit_reasoning_stage with a candidate completion: only the commit is  *)
(* recorded, and nothing is checked again.                                 *)
FinishCandidateCompletion(f) ==
  /\ f.by = "run"
  /\ f.stage = "reasoning"
  /\ ~CommittedAt(PositionOf(f))
  /\ RecordCommit(f, "candidate_completion")
  /\ inflight' = inflight \ {f}
  /\ UNCHANGED <<head, grants, cycles, requests, ops, ended, graph>>

(* commit_reasoning_stage with a next-Cycle proposal on Question q entering*)
(* at stage `entry` (_activate_reasoning_successor).  The Stages before    *)
(* the entry are committed as skipped, and the head's pending operation is *)
(* cleared whatever it is.                                                 *)
FinishNextCycle(f, q, entry, c) ==
  /\ f.by = "run"
  /\ entry \in SuccessorEntries
  /\ f.stage = "reasoning"
  /\ ~CommittedAt(PositionOf(f))
  /\ lifecycle[q] = "active"
  /\ HeadPosition = PositionOf(f)
  /\ head.status = "active"
  /\ grants[f.epoch].status = "active"
  /\ grants[f.epoch].cycle = f.cycle
  /\ cycles[f.cycle].status = "ongoing"
  /\ cycles[f.cycle].successor = 0
  /\ IsNewCycle(c)
  /\ f.epoch < MaxEpoch
  /\ cycles' = [cycles EXCEPT
                  ![f.cycle].status = "completed",
                  ![f.cycle].successor = c,
                  ![c] = [question |-> q, stage |-> entry,
                          status |-> "ongoing", reason |-> "none",
                          successor |-> 0]]
  /\ grants' = [grants EXCEPT
                  ![f.epoch].status = "completed",
                  ![f.epoch].revoked = TRUE,
                  ![f.epoch + 1] = ActiveGrant(c, entry)]
  /\ head' = [cycle |-> c, question |-> q, stage |-> entry,
              epoch |-> f.epoch + 1, status |-> "active", pending |-> NoOp]
  /\ commits' = commits
       \cup {[cycle |-> f.cycle, stage |-> "reasoning", epoch |-> f.epoch,
              kind |-> "next_cycle"]}
       \cup {[cycle |-> c, stage |-> s, epoch |-> f.epoch + 1,
              kind |-> "skipped"] : s \in EarlierStages[entry]}
  /\ inflight' = inflight \ {f}
  /\ UNCHANGED <<requests, ops, ended, graph>>

(* ensure_goal_reasoning_reassessment: a candidate completion is judged    *)
(* again under a new Epoch of the same Cycle.                              *)
ReassessGoal ==
  /\ StageHeadCurrent
  /\ head.stage = "reasoning"
  /\ HeadPosition \in requests
  /\ \E m \in commits : /\ PositionOf(m) = HeadPosition
                        /\ m.kind = "candidate_completion"
  /\ grants[head.epoch].status = "active"
  /\ cycles[head.cycle].status = "ongoing"
  /\ head.epoch < MaxEpoch
  /\ grants' = [grants EXCEPT
                  ![head.epoch].status = "completed",
                  ![head.epoch].revoked = TRUE,
                  ![head.epoch + 1] = ActiveGrant(head.cycle, "reasoning")]
  /\ head' = [head EXCEPT !.epoch = @ + 1]
  /\ UNCHANGED <<cycles, requests, commits, ops, inflight, ended, graph>>

(* end_quest, after the human accepted a candidate completion.  It does    *)
(* not look at the pending operation.                                      *)
EndQuest ==
  /\ ~ended
  /\ head.stage = "reasoning"
  /\ head.status = "active"
  /\ \E m \in commits : /\ PositionOf(m) = HeadPosition
                        /\ m.kind = "candidate_completion"
  /\ grants[head.epoch].status = "active"
  /\ grants[head.epoch].cycle = head.cycle
  /\ cycles[head.cycle].status = "ongoing"
  /\ cycles[head.cycle].successor = 0
  /\ ended' = TRUE
  /\ head' = [head EXCEPT !.status = "completed"]
  /\ grants' = [grants EXCEPT ![head.epoch].status = "completed",
                              ![head.epoch].revoked = TRUE]
  /\ cycles' = [cycles EXCEPT ![head.cycle].status = "completed",
                              ![head.cycle].reason = "none"]
  /\ UNCHANGED <<requests, commits, ops, inflight, graph>>

-----------------------------------------------------------------------------
(* Foreground control                                                      *)

(* _assert_foreground_action: the head statuses that admit each action.    *)
AllowedStatus ==
  [pause         |-> {"active"},
   resume        |-> {"suspended"},
   normal_switch |-> {"active"},
   forced_switch |-> {"active", "suspended"},
   cancel        |-> {"active", "suspended"},
   abandon       |-> {"active", "suspended"},
   prune         |-> {"active", "suspended"},
   restore       |-> {"active", "suspended"}]

(* A forced switch may take over a normal switch that waits for its Stage. *)
OverridesHandoff(a) ==
  /\ a = "forced_switch"
  /\ head.pending # NoOp
  /\ ops[head.pending].action = "normal_switch"
  /\ ops[head.pending].status = "handoff_pending"

(* Mutant of QuestionAdmits: a resume does not ask RG for its Question.     *)
ResumeOfPrunedAdmitted(a, q) ==
  CASE a \in SwitchActions -> q # head.question /\ lifecycle[q] = "active"
    [] a = "prune"         -> lifecycle[q] = "active"
    [] a = "restore"       -> TRUE
    [] OTHER               -> q = head.question

(* The Question a control is about, as the command's execution looks it up *)
(* in RG: a switch or a prune needs an active one, a resume needs the      *)
(* Question of the head to be active, a restore takes any.                 *)
QuestionAdmits(a, q) ==
  CASE a \in SwitchActions -> q # head.question /\ lifecycle[q] = "active"
    [] a = "prune"         -> lifecycle[q] = "active"
    [] a = "restore"       -> TRUE
    [] a = "resume"        -> q = head.question /\ lifecycle[q] = "active"
    [] OTHER               -> q = head.question

(* Bound: an operation that may sign a new Epoch finds one left.           *)
EpochLeft(a) == a \in SwitchActions \cup {"resume"} => head.epoch < MaxEpoch

(* An operation that is completed or aborted: only its status is read      *)
(* again, so the rest of its row is dropped.                               *)
Closed(status) == [NoOperation EXCEPT !.status = status]

(* prepare_foreground_control, its first call for an intent.               *)
Prepare(o, a, q, t) ==
  /\ ops[o].status = "none"
  /\ head.pending # NoOp => OverridesHandoff(a)
  /\ head.status \in AllowedStatus[a]
  /\ QuestionAdmits(a, q)
  /\ IF a \in SwitchActions THEN IsSwitchTarget(t, q) ELSE t = 0
  /\ EpochLeft(a)
  /\ ops' = [p \in Ops |->
               IF p = o
                 THEN [action |-> a, status |-> "prepared",
                       cycle |-> head.cycle, epoch |-> head.epoch,
                       stage |-> head.stage, question |-> q, target |-> t]
               ELSE IF p = head.pending THEN Closed("aborted")
               ELSE ops[p]]
  /\ head' = [head EXCEPT !.pending = o]
  /\ UNCHANGED <<grants, cycles, requests, commits, inflight, ended, graph>>

(* Mutants of Abort: only the operation is closed; only the head is freed. *)
AbortKeepsHead(o) ==
  /\ ops[o].status \in {"prepared", "handoff_pending"}
  /\ o \notin applied
  /\ ops' = [ops EXCEPT ![o] = Closed("aborted")]
  /\ UNCHANGED <<head, grants, cycles, requests, commits, inflight, ended,
                 graph>>

AbortKeepsOperation(o) ==
  /\ head.pending = o
  /\ o \notin applied
  /\ head' = [head EXCEPT !.pending = NoOp]
  /\ UNCHANGED <<grants, cycles, requests, commits, ops, inflight, ended,
                 graph>>

(* abort_foreground_control.  Its callers abort the RG reservation first,  *)
(* and that raises once RG has applied the change.                         *)
Abort(o) ==
  /\ ops[o].status \in {"prepared", "handoff_pending"}
  /\ o \notin applied
  /\ ops' = [ops EXCEPT ![o] = Closed("aborted")]
  /\ head' = IF head.pending = o THEN [head EXCEPT !.pending = NoOp]
                                 ELSE head
  /\ UNCHANGED <<grants, cycles, requests, commits, inflight, ended, graph>>

(* p is the parent of q in the Question tree.                              *)
IsParent(p, q) ==
  /\ q \in Subtree[p] \ {p}
  /\ \A r \in Questions : q \in Subtree[r] \ {r} => p \in Subtree[r]

(* apply_question_control in RG, between AE's prepare and AE's complete.   *)
(* A prune takes the whole subtree and keeps a record of its root; a       *)
(* restore undoes the prune of a record.                                   *)
GraphApply(o) ==
  LET q == ops[o].question
      SetTo(status) == lifecycle' = [x \in Questions |->
                         IF x \in Subtree[q] THEN status ELSE lifecycle[x]]
  IN /\ ops[o].status = "prepared"
     /\ o \notin applied
     /\ \/ /\ ops[o].action = "prune"
           /\ \A x \in Subtree[q] : lifecycle[x] = "active"
           /\ SetTo("pruned")
           /\ pruned' = pruned \cup {q}
        \/ /\ ops[o].action = "restore"
           /\ q \in pruned
           /\ \A x \in Subtree[q] : lifecycle[x] = "pruned"
           /\ \A p \in Questions : IsParent(p, q) => lifecycle[p] = "active"
           /\ SetTo("active")
           /\ UNCHANGED pruned
     /\ applied' = applied \cup {o}
     /\ UNCHANGED <<head, grants, cycles, requests, commits, ops, inflight,
                    ended>>

-----------------------------------------------------------------------------
(* complete_foreground_control                                             *)

(* Mutant of Holds: an operation that lost the head may be completed.       *)
HoldsNothing(o) == ops[o].status \in {"prepared", "handoff_pending"}

(* The operation is live and holds the head; anything else is 'stale'.     *)
Holds(o) ==
  /\ ops[o].status \in {"prepared", "handoff_pending"}
  /\ head.pending = o

OpPosition(o) ==
  [cycle |-> ops[o].cycle, stage |-> ops[o].stage, epoch |-> ops[o].epoch]

(* _normal_handoff_requires_commit: when it raises, and what it returns.   *)
HandoffValid(o) ==
  /\ head.cycle = ops[o].cycle
  /\ head.epoch = ops[o].epoch
  /\ head.status \in {"active", "completed"}
  /\ (head.status = "completed" /\ ops[o].stage # "bundle") =>
       ops[o].stage = "reasoning" /\ CommittedAt(OpPosition(o))

HandoffRequiresCommit(o) ==
  /\ ops[o].stage # "bundle"
  /\ head.status = "active"
  /\ OpPosition(o) \in requests
  /\ ~CommittedAt(OpPosition(o))

(* A normal switch whose source Stage still runs waits for its commit.     *)
AwaitHandoff(o) ==
  /\ Holds(o)
  /\ ops[o].action = "normal_switch"
  /\ HandoffValid(o)
  /\ HandoffRequiresCommit(o)
  /\ ops' = [ops EXCEPT ![o].status = "handoff_pending"]
  /\ UNCHANGED <<head, grants, cycles, requests, commits, inflight, ended,
                 graph>>

(* A switch that may go ahead now.                                         *)
SwitchReady(o) ==
  /\ Holds(o)
  /\ ops[o].action \in SwitchActions
  /\ ops[o].action = "normal_switch" =>
       HandoffValid(o) /\ ~HandoffRequiresCommit(o)

(* The target Question is no longer present: the operation is aborted.     *)
InvalidateSwitchTarget(o) ==
  /\ SwitchReady(o)
  /\ lifecycle[ops[o].question] # "active"
  /\ ops' = [ops EXCEPT ![o] = Closed("aborted")]
  /\ head' = [head EXCEPT !.pending = NoOp]
  /\ UNCHANGED <<grants, cycles, requests, commits, inflight, ended, graph>>

(* Mutants of WithReason: the reason goes into the status column; the first *)
(* reason is kept.                                                         *)
ReasonAsStatus(cs, c, r) == [cs EXCEPT ![c].status = r]

FirstReasonKept(cs, c, r) ==
  IF cs[c].reason = "none" THEN [cs EXCEPT ![c].reason = r] ELSE cs

(* UPDATE ae_cycles SET suspension_reason WHERE cycle_ref AND 'ongoing'    *)
WithReason(cs, c, r) ==
  IF cs[c].status = "ongoing" THEN [cs EXCEPT ![c].reason = r] ELSE cs

CompleteOp(o) == ops' = [ops EXCEPT ![o] = Closed("completed")]

ApplyPause(o) ==
  /\ Holds(o)
  /\ ops[o].action = "pause"
  /\ cycles' = WithReason(cycles, ops[o].cycle, "human_paused")
  /\ grants' = [grants EXCEPT ![ops[o].epoch].status = "suspended"]
  /\ head' = [head EXCEPT !.status = "suspended", !.pending = NoOp]
  /\ CompleteOp(o)
  /\ UNCHANGED <<requests, commits, inflight, ended, graph>>

(* Reads the suspension reason of the ongoing Cycle (scalar_one).          *)
ApplyResume(o) ==
  /\ Holds(o)
  /\ ops[o].action = "resume"
  /\ cycles[ops[o].cycle].status = "ongoing"
  /\ LET e == ops[o].epoch
         resigns == /\ grants[e].status = "revoked"
                    /\ cycles[ops[o].cycle].reason = "human_cancelled"
     IN \/ /\ resigns
           /\ grants' = [grants EXCEPT
                           ![e + 1] = ActiveGrant(ops[o].cycle, head.stage)]
           /\ head' = [head EXCEPT !.epoch = e + 1, !.status = "active",
                                   !.pending = NoOp]
        \/ /\ ~resigns
           /\ grants' = IF grants[e].status = "suspended"
                          THEN [grants EXCEPT ![e].status = "active"]
                          ELSE grants
           /\ head' = [head EXCEPT !.status = "active", !.pending = NoOp]
  /\ cycles' = WithReason(cycles, ops[o].cycle, "none")
  /\ CompleteOp(o)
  /\ UNCHANGED <<requests, commits, inflight, ended, graph>>

(* Mutant of WithTargetCycle: the row of an existing target is replaced.    *)
TargetCycleReset(o, c) ==
  [cycles EXCEPT ![c] = [question |-> ops[o].question, stage |-> "idea",
                         status |-> "ongoing", reason |-> "none",
                         successor |-> 0]]

(* The rows of ae_cycles once the target Cycle c of a switch exists: a     *)
(* minted Cycle is inserted at Idea and becomes the successor of the       *)
(* latest Cycle of its Question.                                           *)
WithTargetCycle(o, c) ==
  IF ops[o].target # 0
    THEN cycles
    ELSE [d \in CycleIds |->
            CASE d = c ->
                   [question |-> ops[o].question, stage |-> "idea",
                    status |-> "ongoing", reason |-> "none",
                    successor |-> 0]
              [] /\ d # c
                 /\ cycles[d].status # "none"
                 /\ cycles[d].question = ops[o].question
                 /\ cycles[d].successor = 0
                 /\ \A x \in CycleIds :
                      (/\ cycles[x].status # "none"
                       /\ cycles[x].question = ops[o].question) => x <= d ->
                   [cycles[d] EXCEPT !.successor = c]
              [] OTHER -> cycles[d]]

ApplySwitch(o, c) ==
  /\ SwitchReady(o)
  /\ lifecycle[ops[o].question] = "active"
  /\ IF ops[o].target = 0
       THEN IsNewCycle(c)
       ELSE c = ops[o].target /\ cycles[c].status = "ongoing"
  /\ LET e == ops[o].epoch
         rows == WithTargetCycle(o, c)
     IN /\ cycles' = WithReason(
                       WithReason(rows, ops[o].cycle, "foreground_switched"),
                       c, "none")
        /\ grants' = [grants EXCEPT
                        ![e].status = IF @ = "completed" THEN @
                                                         ELSE "revoked",
                        ![e].revoked = TRUE,
                        ![e + 1] = ActiveGrant(c, rows[c].stage)]
        /\ head' = [cycle |-> c, question |-> ops[o].question,
                    stage |-> rows[c].stage, epoch |-> e + 1,
                    status |-> "active", pending |-> NoOp]
  /\ CompleteOp(o)
  /\ UNCHANGED <<requests, commits, inflight, ended, graph>>

ApplyCancel(o) ==
  /\ Holds(o)
  /\ ops[o].action = "cancel"
  /\ cycles' = WithReason(cycles, ops[o].cycle, "human_cancelled")
  /\ grants' = [grants EXCEPT ![ops[o].epoch].status = "revoked",
                              ![ops[o].epoch].revoked = TRUE]
  /\ head' = [head EXCEPT !.status = "suspended", !.pending = NoOp]
  /\ CompleteOp(o)
  /\ UNCHANGED <<requests, commits, inflight, ended, graph>>

ApplyAbandon(o) ==
  /\ Holds(o)
  /\ ops[o].action = "abandon"
  /\ cycles' = [cycles EXCEPT ![ops[o].cycle].status = "abandoned"]
  /\ grants' = [grants EXCEPT ![ops[o].epoch].status = "abandoned",
                              ![ops[o].epoch].revoked = TRUE]
  /\ head' = [head EXCEPT !.status = "abandoned", !.pending = NoOp]
  /\ CompleteOp(o)
  /\ UNCHANGED <<requests, commits, inflight, ended, graph>>

(* Prune and restore need RG's receipt.  Both leave the foreground alone   *)
(* when its Question is not among the affected ones.                       *)
ApplyPrune(o) ==
  /\ Holds(o)
  /\ ops[o].action = "prune"
  /\ o \in applied
  /\ IF head.question \in Subtree[ops[o].question]
       THEN /\ cycles' = WithReason(cycles, head.cycle, "question_pruned")
            /\ grants' = [grants EXCEPT ![ops[o].epoch].status = "suspended"]
            /\ head' = [head EXCEPT !.status = "suspended", !.pending = NoOp]
       ELSE /\ head' = [head EXCEPT !.pending = NoOp]
            /\ UNCHANGED <<cycles, grants>>
  /\ CompleteOp(o)
  /\ UNCHANGED <<requests, commits, inflight, ended, graph>>

ApplyRestore(o) ==
  /\ Holds(o)
  /\ ops[o].action = "restore"
  /\ o \in applied
  /\ IF head.question \in Subtree[ops[o].question]
       THEN /\ cycles' = WithReason(cycles, head.cycle,
                                    "question_restored_revalidation_required")
            /\ grants' = [grants EXCEPT ![head.epoch].status = "suspended"]
       ELSE UNCHANGED <<cycles, grants>>
  /\ head' = [head EXCEPT !.pending = NoOp]
  /\ CompleteOp(o)
  /\ UNCHANGED <<requests, commits, inflight, ended, graph>>

Complete(o) ==
  \/ AwaitHandoff(o)
  \/ InvalidateSwitchTarget(o)
  \/ ApplyPause(o)
  \/ ApplyResume(o)
  \/ \E c \in CycleIds : ApplySwitch(o, c)
  \/ ApplyCancel(o)
  \/ ApplyAbandon(o)
  \/ ApplyPrune(o)
  \/ ApplyRestore(o)

-----------------------------------------------------------------------------
StageStep ==
  \/ EnsureStageRequest
  \/ BeginStageCommit
  \/ BeginSkip
  \/ Crash
  \/ \E f \in inflight : \/ \E next \in Stages : FinishRunCommit(f, next)
                         \/ FinishSkip(f)
                         \/ FinishCandidateCompletion(f)
                         \/ \E q \in Questions, entry \in Stages,
                              c \in CycleIds : FinishNextCycle(f, q, entry, c)
  \/ \E kind \in {"closed", "skipped"} : CommitBundle(kind)
  \/ ReassessGoal
  \/ EndQuest

ControlStep(o) ==
  \/ \E a \in Actions, q \in Questions, t \in CycleIds \cup {0} :
       Prepare(o, a, q, t)
  \/ Abort(o)
  \/ GraphApply(o)
  \/ Complete(o)

Next == StageStep \/ \E o \in Ops : ControlStep(o)

Spec == Init /\ [][Next]_vars

-----------------------------------------------------------------------------
(* What the checks ask                                                     *)

Open(o) == ops[o].status \in {"prepared", "handoff_pending"}

StageRank == [idea |-> 1, plan |-> 2, bundle |-> 3, reasoning |-> 4]

(* Epochs are signed one after another, and only the Grant of the head's   *)
(* Epoch can be active, for the head's Cycle, while the head is active:    *)
(* whatever controls, commits and successors interleave, two Grants never  *)
(* allow research at the same time (complete_foreground_control,           *)
(* _activate_reasoning_successor, end_quest).                              *)
SoleActiveGrant ==
  /\ \A e \in Epochs : grants[e].status # "none" <=> e <= head.epoch
  /\ \A e \in Epochs : grants[e].status = "active" =>
       /\ e = head.epoch
       /\ grants[e].cycle = head.cycle
       /\ head.status = "active"

(* The head never shows a Question or a Stage its Cycle does not have, and *)
(* an active head stands on an ongoing Cycle that no control suspended.    *)
HeadMatchesCycle ==
  /\ cycles[head.cycle].status # "none"
  /\ cycles[head.cycle].question = head.question
  /\ cycles[head.cycle].stage = head.stage
  /\ head.status = "active" => cycles[head.cycle].status = "ongoing"

(* Every ongoing Cycle other than the head's was suspended by a switch: no *)
(* Cycle is left behind that looks as if it were running.                  *)
BackgroundCyclesSuspended ==
  \A c \in CycleIds :
    (cycles[c].status = "ongoing" /\ c # head.cycle) =>
      cycles[c].reason = "foreground_switched"

(* The operation that holds the head is open and was prepared for the      *)
(* Cycle and Epoch the head still has, so completing it acts on the        *)
(* foreground the human saw.                                               *)
PendingIsCurrent ==
  head.pending # NoOp =>
    /\ Open(head.pending)
    /\ ops[head.pending].cycle = head.cycle
    /\ ops[head.pending].epoch = head.epoch
    /\ StageRank[ops[head.pending].stage] <= StageRank[head.stage]

(* Only a Reasoning outcome that opened the next Cycle takes the head from *)
(* an open operation.                                                      *)
StrandedOnlyBySuccessor ==
  \A o \in Ops : Open(o) =>
    \/ head.pending = o
    \/ \E m \in commits : /\ m.kind = "next_cycle"
                          /\ m.cycle = ops[o].cycle
                          /\ m.epoch = ops[o].epoch

(* The target a switch chose when it was prepared is still right when it   *)
(* is completed: a recorded Cycle is still ongoing, and a minted one does  *)
(* not shadow an ongoing Cycle of the Question.                            *)
SwitchTargetFresh ==
  LET o == head.pending
  IN (o # NoOp /\ ops[o].action \in SwitchActions) =>
       IF ops[o].target # 0
         THEN IsLatestOngoing(ops[o].target, ops[o].question)
         ELSE \A c \in CycleIds : ~IsLatestOngoing(c, ops[o].question)

(* A Cycle closes each Stage before Reasoning at most once, in whatever    *)
(* order the commit calls that passed their check write.                   *)
StageClosedOnce ==
  \A m, n \in commits :
    (m.cycle = n.cycle /\ m.stage = n.stage /\ m.stage # "reasoning") => m = n

(* Only a Stage that its Cycle has passed has a commit.                    *)
PassedStagesCommitted ==
  \A m \in commits : m.stage # "reasoning" =>
    StageRank[m.stage] < StageRank[cycles[m.cycle].stage]

(* The foreground works on a Question that is not pruned, except while the *)
(* control that pruned it has not been completed.                          *)
ActiveQuestionPresent ==
  head.status = "active" =>
    \/ lifecycle[head.question] = "active"
    \/ \E o \in Ops : /\ o \in applied
                      /\ Open(o)
                      /\ head.question \in Subtree[ops[o].question]

(* Research in a Cycle goes one way: its Stage never moves back, and a     *)
(* Cycle that was completed or abandoned is never ongoing again.           *)
NoWayBack ==
  \A c \in CycleIds : cycles[c].status # "none" =>
    /\ StageRank[cycles[c].stage] <= StageRank[cycles'[c].stage]
    /\ cycles[c].status # "ongoing" => cycles'[c].status # "ongoing"

OneWay == [][NoWayBack]_vars

(* An operation that is still open but no longer holds the head.           *)
Stranded(o) == Open(o) /\ head.pending # o

(* While no operation is stranded, an active head can do research: its     *)
(* Grant is active at the head's Stage and nothing suspends its Cycle.     *)
(* Neither half of a control is ever undone alone.                         *)
ActiveHeadHasGrant ==
  (head.status = "active" /\ \A o \in Ops : ~Stranded(o)) =>
    /\ grants[head.epoch].status = "active"
    /\ grants[head.epoch].stage = head.stage
    /\ cycles[head.cycle].reason = "none"

(* What the source says and the code does not keep: a run finds how.       *)
(* query_quest_ending of an ended Quest raises quest_ending_invalid unless *)
(* its foreground and the Grant of the head's Epoch are completed.         *)
EndedStaysCompleted ==
  ended => head.status = "completed" /\ grants[head.epoch].status = "completed"

=============================================================================
