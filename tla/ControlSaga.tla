----------------------------- MODULE ControlSaga -----------------------------
(***************************************************************************)
(* A confirmed control command crosses four Owners, each with its own      *)
(* database transactions: Human Collaboration (HC) drives, the Advancement *)
(* Engine (AE) holds the foreground, the Research Graph (RG) the Questions *)
(* and the Agent Runtime (AR) the Runs.  Every Owner prepares, AR and RG   *)
(* apply, AE completes, HC writes the execution; a failure unwinds.        *)
(*                                                                         *)
(* Two drivers run the same code on the same commands: the handler of the  *)
(* web request that executes a command, and the recovery of the daemon.    *)
(* Each transaction is one step of a driver; the daemon may die between    *)
(* any two of them, and then every driver forgets where it was.            *)
(*                                                                         *)
(* RG is the module QuestionControl.  AE is its operations and the pending *)
(* operation of the foreground, AR its reservations: ForegroundControl and *)
(* RuntimeControl have what happens inside the two.                        *)
(***************************************************************************)
EXTENDS QuestionControl, Sequences

CONSTANTS
  Drivers,      \* the web handler and the recovery
  Recovery,     \* the recovery
  Kinds         \* the kinds of commands humans confirm

GraphKinds == {"prune", "restore"}
SwitchKinds == {"normal_switch", "forced_switch"}

(* An AE operation is aborted, on request or because its target is gone.   *)
AbortedStatus == {"aborted", "invalidated"}

CycleKinds == {"pause"}
RunKinds == {"pause_run"}       \* target_scope = "run"

ASSUME SagaAssumption ==
  /\ Recovery \in Drivers
  /\ Kinds \subseteq GraphKinds \cup SwitchKinds \cup CycleKinds \cup RunKinds

VARIABLES
  kind,         \* what a confirmed command asks for
  target,       \* the Question a switch goes to
  saga,         \* hc_control_sagas: none, open, compensated, aborted, completed
  executions,   \* hc_command_executions
  aeOps,        \* ae_control_operations
  pending,      \* the pending operation of the foreground head
  aeFresh,      \* commands whose previewed AE revision is current
  arOps,        \* ar_control_reservations, _operations and _compensations
  arFresh,      \* commands whose previewed AR revision is current
  suspends,     \* commands whose AR receipt shows a suspended or fenced Run
  driver        \* where each driver is

hcVars == <<kind, target, saga, executions>>
aeVars == <<aeOps, pending, aeFresh>>
arVars == <<arOps, arFresh, suspends>>
sagaVars == <<questionVars, hcVars, aeVars, arVars, driver>>

-----------------------------------------------------------------------------
NeedsForeground(c) == kind[c] \notin RunKinds
NeedsGraph(c) == kind[c] \in GraphKinds

(* A driver: its place in the code, its command, the status of the AE      *)
(* operation it read at the start, and the releases it has left to do.     *)
Idle == [pc |-> "idle", cmd |-> NoControl, seen |-> "none", todo |-> <<>>]

At(d, pc) == driver[d].pc = pc
Cmd(d) == driver[d].cmd
Goes(d, pc) == driver' = [driver EXCEPT ![d].pc = pc]
Stops(d) == driver' = [driver EXCEPT ![d] = Idle]
Unwinds(d, steps) ==
  driver' = [driver EXCEPT ![d].pc = "unwind", ![d].todo = steps]

(* A driver marks the progress of the saga before it goes on.              *)
Marks(d, next) ==
  driver' = [driver EXCEPT ![d].pc = "mark", ![d].todo = <<next>>]

(* Mutant: the foreground is not released.                                 *)
KeepsForeground(c) == <<>>

ForegroundPart(c) == IF NeedsForeground(c) THEN <<"ae">> ELSE <<>>

GraphPart(c) == IF NeedsGraph(c) THEN <<"rg">> ELSE <<>>

(* _switch_runtime_effect_requires_compensation: what AR did for a switch  *)
(* whose target is gone is undone when its receipt shows a stopped Run.    *)
InvalidatedPart(c) == IF c \in suspends THEN <<"comp">> ELSE <<>>

InitSaga ==
  /\ InitQuestions
  /\ kind = [c \in Controls |-> "none"]
  /\ target = [c \in Controls |-> Root]
  /\ saga = [c \in Controls |-> "none"]
  /\ executions = {}
  /\ aeOps = [c \in Controls |-> "none"]
  /\ pending = NoControl
  /\ aeFresh = {}
  /\ arOps = [c \in Controls |-> "none"]
  /\ arFresh = {}
  /\ suspends = {}
  /\ driver = [d \in Drivers |-> Idle]

-----------------------------------------------------------------------------
(* The human: every Owner previews, the human confirms                     *)

(* Mutant: a new operation overrides whatever is pending.                  *)
TakesAnyHead(k) == TRUE

(* One operation may be pending at the head; a forced switch overrides a   *)
(* normal one that waits for its Stage commit.                             *)
MayTakeForeground(k) ==
  pending # NoControl => k = "forced_switch" /\ aeOps[pending] = "handoff_pending"

Confirmed(c, k, t) ==
  /\ kind[c] = "none"
  /\ k \in Kinds
  /\ k \notin RunKinds => MayTakeForeground(k)
  /\ kind' = [kind EXCEPT ![c] = k]
  /\ target' = [target EXCEPT ![c] = t]
  /\ aeFresh' = aeFresh \cup {c}
  /\ arFresh' = arFresh \cup {c}
  /\ UNCHANGED <<saga, executions, aeOps, pending, arOps, suspends, driver>>

Confirm(c) ==
  \/ \E q \in Questions : PreviewPrune(c, q) /\ Confirmed(c, "prune", q)
  \/ \E r \in Controls : PreviewRestore(c, r) /\ Confirmed(c, "restore", Root)
  \/ \E k \in SwitchKinds, q \in Active \ {Root} :
       Confirmed(c, k, q) /\ UNCHANGED questionVars
  \/ \E k \in CycleKinds \cup RunKinds :
       Confirmed(c, k, Root) /\ UNCHANGED questionVars

(* Other writes of AE and AR make the previews stale.                      *)
OwnerMoves ==
  \/ aeFresh # {} /\ aeFresh' = {} /\ UNCHANGED <<aeOps, pending, arVars>>
  \/ arFresh # {} /\ arFresh' = {} /\ UNCHANGED <<arOps, suspends, aeVars>>

OwnerMovesOn == OwnerMoves /\ UNCHANGED <<questionVars, hcVars, driver>>

(* _activate_reasoning_successor moves the head to the next Cycle, whatever*)
(* operation is pending there; that operation stays prepared for good.     *)
ActivateReasoningSuccessor ==
  /\ pending # NoControl
  /\ pending' = NoControl
  /\ aeFresh' = {}
  /\ UNCHANGED <<questionVars, hcVars, aeOps, arVars, driver>>

(* The operation at the head ends.  A switch whose target is gone by then  *)
(* is aborted, with the reason switch_target_invalidated.                  *)
TargetGone(c) == kind[c] \in SwitchKinds /\ target[c] \notin Active

EndsAtHead(c) ==
  /\ aeOps' = [aeOps EXCEPT ![c] = IF TargetGone(c) THEN "invalidated"
                                                    ELSE "completed"]
  /\ pending' = NoControl
  /\ aeFresh' = {}

(* The commit of the source Stage ends a waiting normal switch.            *)
StageCommitCompletesHandoff(c) ==
  /\ aeOps[c] = "handoff_pending" /\ pending = c
  /\ EndsAtHead(c)
  /\ UNCHANGED <<questionVars, hcVars, arVars, driver>>

-----------------------------------------------------------------------------
(* execute_confirmed_command                                               *)

(* The Question a command is about must be there: active, or, once the     *)
(* command has an AE operation (and for a restore), merely known.          *)
QuestionPresent(c) ==
  CASE kind[c] = "prune" -> control[c].root \in Active \/ aeOps[c] # "none"
    [] kind[c] \in SwitchKinds -> target[c] \in Active \/ aeOps[c] # "none"
    [] OTHER -> TRUE

(* A POST of a confirmed command, or a retry of it; recovery takes the     *)
(* sagas that are not terminal.                                            *)
Takes(d, c) ==
  /\ At(d, "idle")
  /\ kind[c] # "none"
  /\ d = Recovery => saga[c] = "open" /\ arOps[c] # "compensated"

Start(d, c) ==
  /\ Takes(d, c)
  /\ c \notin executions
  /\ QuestionPresent(c)
  /\ driver' = [driver EXCEPT ![d] =
                  [pc |-> "ensure", cmd |-> c, seen |-> aeOps[c], todo |-> <<>>]]
  /\ UNCHANGED <<questionVars, hcVars, aeVars, arVars>>

(* The execution exists: the saga is marked completed once more.           *)
StartExecuted(d, c) ==
  /\ Takes(d, c)
  /\ c \in executions
  /\ saga' = [saga EXCEPT ![c] = "completed"]
  /\ UNCHANGED <<questionVars, kind, target, executions, aeVars, arVars, driver>>

(* Recovery unwinds a compensated command without executing it.            *)
StartCompensated(d, c) ==
  /\ d = Recovery /\ At(d, "idle")
  /\ saga[c] \in {"open", "compensated"}
  /\ saga[c] = "compensated" \/ arOps[c] = "compensated"
  /\ saga' = [saga EXCEPT ![c] = "compensated"]
  /\ driver' = [driver EXCEPT ![d] =
                  [pc |-> "unwind", cmd |-> c, seen |-> "none",
                   todo |-> GraphPart(c) \o ForegroundPart(c)]]
  /\ UNCHANGED <<questionVars, kind, target, executions, aeVars, arVars>>

(* The saga row is written, then the compensation is looked up.            *)
EnsureSaga(d) ==
  LET c == Cmd(d) IN
  /\ At(d, "ensure")
  /\ saga' = [saga EXCEPT ![c] = IF @ = "none" THEN "open" ELSE @]
  /\ IF saga[c] \in {"compensated", "aborted"} \/ arOps[c] = "compensated"
     THEN Unwinds(d, GraphPart(c) \o ForegroundPart(c))
     ELSE IF driver[d].seen = "aborted" THEN Unwinds(d, <<>>)
     ELSE IF driver[d].seen = "invalidated" THEN Unwinds(d, InvalidatedPart(c))
     ELSE Goes(d, IF NeedsForeground(c) THEN "ae" ELSE "ar")
  /\ UNCHANGED <<questionVars, kind, target, executions, aeVars, arVars>>

AfterForeground(c) == IF NeedsGraph(c) THEN "rg" ELSE "ar"

(* prepare_foreground_control                                              *)
PrepareForeground(d) ==
  LET c == Cmd(d)
      accepts == aeOps[c] = "none" /\ c \in aeFresh /\ MayTakeForeground(kind[c])
  IN
  /\ At(d, "ae")
  /\ \/ /\ accepts
        /\ aeOps' = [o \in Controls |->
                       IF o = c THEN "prepared"
                       ELSE IF o = pending THEN "aborted" ELSE aeOps[o]]
        /\ pending' = c
        /\ aeFresh' = {}
        /\ Goes(d, AfterForeground(c))
     \/ /\ aeOps[c] \notin {"none"} \cup AbortedStatus
        /\ Goes(d, AfterForeground(c))
        /\ UNCHANGED aeVars
     \/ /\ aeOps[c] \in AbortedStatus \/ (aeOps[c] = "none" /\ ~accepts)
        /\ Unwinds(d, <<>>)
        /\ UNCHANGED aeVars
  /\ UNCHANGED <<questionVars, hcVars, arVars>>

(* prepare_question_control                                                *)
PrepareGraph(d) ==
  LET c == Cmd(d) IN
  /\ At(d, "rg")
  /\ \/ PrepareQuestionControl(c) /\ Goes(d, "ar")
     \/ /\ reserved[c] \in {"prepared", "applied"}
        /\ Goes(d, "ar")
        /\ UNCHANGED questionVars
     \/ /\ reserved[c] = "aborted" \/ (reserved[c] = "none" /\ ~MayReserve(c))
        /\ Unwinds(d, <<"ae">>)
        /\ UNCHANGED questionVars
  /\ UNCHANGED <<hcVars, aeVars, arVars>>

(* prepare_runtime_control, then the saga is marked prepared.              *)
PrepareRuntime(d) ==
  LET c == Cmd(d) IN
  /\ At(d, "ar")
  /\ \/ /\ arOps[c] = "none" /\ c \in arFresh
        /\ arOps' = [arOps EXCEPT ![c] = "prepared"]
        /\ arFresh' = arFresh \ {c}
        /\ UNCHANGED suspends
        /\ Marks(d, "apply")
     \/ /\ arOps[c] \notin {"none", "aborted"}
        /\ Marks(d, "apply")
        /\ UNCHANGED arVars
     \/ /\ arOps[c] = "aborted" \/ (arOps[c] = "none" /\ c \notin arFresh)
        /\ Unwinds(d, GraphPart(c) \o ForegroundPart(c))
        /\ UNCHANGED arVars
  /\ UNCHANGED <<questionVars, hcVars, aeVars>>

(* Mutant: the row says what comes next.                                   *)
MarksNext(d) ==
  /\ At(d, "mark")
  /\ saga' = [saga EXCEPT ![Cmd(d)] = Head(driver[d].todo)]
  /\ Stops(d)
  /\ UNCHANGED <<questionVars, kind, target, executions, aeVars, arVars>>

(* _mark_control_saga writes its status whatever the row says by now; the  *)
(* statuses between preparing and the end are one, "open".                 *)
MarkProgress(d) ==
  /\ At(d, "mark")
  /\ saga' = [saga EXCEPT ![Cmd(d)] = "open"]
  /\ IF Head(driver[d].todo) = "idle" THEN Stops(d)
     ELSE driver' = [driver EXCEPT ![d].pc = Head(driver[d].todo), ![d].todo = <<>>]
  /\ UNCHANGED <<questionVars, kind, target, executions, aeVars, arVars>>

AfterRuntime(c) ==
  IF NeedsGraph(c) THEN "verify"
  ELSE IF NeedsForeground(c) THEN "complete" ELSE "finish"

(* apply_runtime_control: the Runs of a pause or a prune did not stop in   *)
(* time, or the reserved rows moved; else the effect is applied, once.     *)
ApplyRuntime(d) ==
  LET c == Cmd(d) IN
  /\ At(d, "apply")
  /\ \/ /\ arOps[c] = "prepared"
        /\ arOps' = [arOps EXCEPT ![c] = "applied"]
        /\ arFresh' = {}
        /\ suspends' \in IF kind[c] \in SwitchKinds
                           THEN {suspends, suspends \cup {c}} ELSE {suspends}
        /\ Marks(d, AfterRuntime(c))
     \/ /\ arOps[c] \in {"applied", "compensated"}
        /\ Marks(d, AfterRuntime(c))
        /\ UNCHANGED arVars
     \/ /\ arOps[c] \in {"prepared", "aborted"}
        /\ Unwinds(d, GraphPart(c) \o <<"ar">> \o ForegroundPart(c))
        /\ UNCHANGED arVars
  /\ UNCHANGED <<questionVars, hcVars, aeVars>>

(* RG or AE lost currentness after AR applied a prune or a restore.        *)
Compensates(d) == Unwinds(d, <<"comp", "rg", "ae">>)

(* apply_question_control first reads the reservation and AR's receipt ... *)
VerifyRuntimeReceipt(d) ==
  LET c == Cmd(d) IN
  /\ At(d, "verify")
  /\ IF reserved[c] # "aborted" /\ arOps[c] = "applied"
     THEN Goes(d, "graph") ELSE Compensates(d)
  /\ UNCHANGED <<questionVars, hcVars, aeVars, arVars>>

(* ... and then writes.                                                    *)
ApplyGraph(d) ==
  LET c == Cmd(d) IN
  /\ At(d, "graph")
  /\ \/ ApplyQuestionControl(c) /\ Marks(d, "complete")
     \/ /\ reserved[c] = "applied"
        /\ Marks(d, "complete")
        /\ UNCHANGED questionVars
     \/ /\ reserved[c] # "applied" /\ ~MayApply(c)
        /\ Compensates(d)
        /\ UNCHANGED questionVars
  /\ UNCHANGED <<hcVars, aeVars, arVars>>

(* Mutant: AE does not look whether it still holds the foreground.         *)
CompletesAnyway(c) == arOps[c] = "applied"

MayComplete(c) ==
  /\ arOps[c] = "applied"
  /\ aeOps[c] = "completed" \/ (aeOps[c] \notin AbortedStatus /\ pending = c)

(* complete_foreground_control.  A switch whose target is gone is undone   *)
(* at AR; any other refusal leaves the saga to be recovered forward.       *)
CompleteForeground(d) ==
  LET c == Cmd(d) IN
  /\ At(d, "complete")
  /\ \/ /\ MayComplete(c) /\ aeOps[c] = "completed"
        /\ Marks(d, "finish")
        /\ UNCHANGED aeVars
     \/ /\ MayComplete(c) /\ aeOps[c] # "completed"
        /\ EndsAtHead(c)
        /\ IF TargetGone(c) THEN Unwinds(d, InvalidatedPart(c))
                            ELSE Marks(d, "finish")
     \/ /\ MayComplete(c) /\ aeOps[c] # "completed" /\ kind[c] = "normal_switch"
        /\ aeOps' = [aeOps EXCEPT ![c] = "handoff_pending"]
        /\ aeFresh' = {}
        /\ Marks(d, "idle")
        /\ UNCHANGED pending
     \/ ~MayComplete(c) /\ Marks(d, "idle") /\ UNCHANGED aeVars
  /\ UNCHANGED <<questionVars, hcVars, arVars>>

(* The execution and the end of the saga are one HC transaction.           *)
Finish(d) ==
  LET c == Cmd(d) IN
  /\ At(d, "finish")
  /\ executions' = executions \cup {c}
  /\ saga' = [saga EXCEPT ![c] = "completed"]
  /\ Stops(d)
  /\ UNCHANGED <<questionVars, kind, target, aeVars, arVars>>

-----------------------------------------------------------------------------
(* Unwinding: the releases one after the other, then the saga is aborted.  *)
(* An Owner that has already applied raises, and the driver stops there.   *)

Next1(d) == driver' = [driver EXCEPT ![d].todo = Tail(@)]
Due(d, step) ==
  At(d, "unwind") /\ driver[d].todo # <<>> /\ Head(driver[d].todo) = step

ReleaseGraph(d) ==
  LET c == Cmd(d) IN
  /\ Due(d, "rg")
  /\ \/ AbortQuestionControl(c) /\ Next1(d)
     \/ reserved[c] = "applied" /\ Stops(d) /\ UNCHANGED questionVars
  /\ UNCHANGED <<hcVars, aeVars, arVars>>

ReleaseRuntime(d) ==
  LET c == Cmd(d) IN
  /\ Due(d, "ar")
  /\ \/ /\ arOps[c] \in {"none", "prepared", "aborted"}
        /\ arOps' = [arOps EXCEPT ![c] = IF @ = "prepared" THEN "aborted" ELSE @]
        /\ Next1(d)
     \/ /\ arOps[c] \in {"applied", "compensated"}
        /\ Stops(d) /\ UNCHANGED arOps
  /\ UNCHANGED <<questionVars, hcVars, aeVars, arFresh, suspends>>

(* abort_foreground_control leaves the revision of AE alone.               *)
ReleaseForeground(d) ==
  LET c == Cmd(d) IN
  /\ Due(d, "ae")
  /\ \/ /\ aeOps[c] # "completed"
        /\ aeOps' = [aeOps EXCEPT
             ![c] = IF @ \in {"prepared", "handoff_pending"} THEN "aborted" ELSE @]
        /\ pending' = IF pending = c THEN NoControl ELSE pending
        /\ Next1(d)
        /\ UNCHANGED aeFresh
     \/ aeOps[c] = "completed" /\ Stops(d) /\ UNCHANGED aeVars
  /\ UNCHANGED <<questionVars, hcVars, arVars>>

(* compensate_runtime_control and the mark after it.  A Run that was       *)
(* running and has ended cannot be brought back: the driver stops.         *)
CompensateRuntime(d) ==
  LET c == Cmd(d) IN
  /\ Due(d, "comp")
  /\ arOps' = [arOps EXCEPT ![c] = "compensated"]
  /\ arFresh' = {}
  /\ driver' = [driver EXCEPT ![d].todo = <<"marked">> \o Tail(@)]
  /\ UNCHANGED <<questionVars, hcVars, aeVars, suspends>>

CannotCompensate(d) ==
  /\ Due(d, "comp") /\ arOps[Cmd(d)] = "applied"
  /\ Stops(d)
  /\ UNCHANGED <<questionVars, hcVars, aeVars, arVars>>

MarkCompensated(d) ==
  /\ Due(d, "marked")
  /\ saga' = [saga EXCEPT ![Cmd(d)] = "compensated"]
  /\ Next1(d)
  /\ UNCHANGED <<questionVars, kind, target, executions, aeVars, arVars>>

MarkAborted(d) ==
  /\ At(d, "unwind") /\ driver[d].todo = <<>>
  /\ saga' = [saga EXCEPT ![Cmd(d)] = "aborted"]
  /\ Stops(d)
  /\ UNCHANGED <<questionVars, kind, target, executions, aeVars, arVars>>

-----------------------------------------------------------------------------
Step(d) ==
  \/ \E c \in Controls : Start(d, c) \/ StartExecuted(d, c) \/ StartCompensated(d, c)
  \/ EnsureSaga(d)
  \/ PrepareForeground(d) \/ PrepareGraph(d) \/ PrepareRuntime(d)
  \/ MarkProgress(d)
  \/ ApplyRuntime(d) \/ VerifyRuntimeReceipt(d) \/ ApplyGraph(d)
  \/ CompleteForeground(d) \/ Finish(d)
  \/ ReleaseGraph(d) \/ ReleaseRuntime(d) \/ ReleaseForeground(d)
  \/ CompensateRuntime(d) \/ CannotCompensate(d)
  \/ MarkCompensated(d) \/ MarkAborted(d)

(* The daemon dies: every driver forgets, every database row stays.        *)
Crash ==
  /\ \E d \in Drivers : ~At(d, "idle")
  /\ driver' = [d \in Drivers |-> Idle]
  /\ UNCHANGED <<questionVars, hcVars, aeVars, arVars>>

Environment ==
  \/ OwnerMovesOn
  \/ ActivateReasoningSuccessor
  \/ Growth /\ UNCHANGED <<hcVars, aeVars, arVars, driver>>
  \/ \E c \in Controls : Confirm(c) \/ StageCommitCompletesHandoff(c)
  \/ Crash

NextSaga == Environment \/ \E d \in Drivers : Step(d)

SpecSaga == InitSaga /\ [][NextSaga]_sagaVars

-----------------------------------------------------------------------------
(* Properties                                                              *)

SagaTypeOK ==
  /\ QuestionTypeOK
  /\ kind \in [Controls -> Kinds \cup {"none"}]
  /\ target \in [Controls -> Questions]
  /\ saga \in [Controls -> {"none", "open", "compensated", "aborted", "completed"}]
  /\ executions \subseteq Controls
  /\ aeOps \in [Controls ->
       {"none", "prepared", "handoff_pending", "completed"} \cup AbortedStatus]
  /\ pending \in Controls \cup {NoControl}
  /\ aeFresh \subseteq Controls /\ arFresh \subseteq Controls
  /\ arOps \in [Controls -> {"none", "prepared", "applied", "aborted", "compensated"}]
  /\ suspends \subseteq Controls
  /\ driver \in [Drivers ->
       [pc : {"idle", "ensure", "ae", "rg", "ar", "mark", "apply", "verify",
              "graph", "complete", "finish", "unwind"},
        cmd : Controls \cup {NoControl},
        seen : {"none", "prepared", "handoff_pending", "completed"} \cup AbortedStatus,
        todo : Seq({"ae", "rg", "ar", "comp", "marked", "apply", "verify",
                    "complete", "finish", "idle"})]]

(* The abstract command: the Owners it needs, whose effect is in place,    *)
(* and how it was decided.                                                 *)
NeededBy(c) ==
  IF kind[c] = "none" THEN {}
  ELSE {"runtime"} \cup (IF NeedsGraph(c) THEN {"graph"} ELSE {})
                   \cup (IF NeedsForeground(c) THEN {"foreground"} ELSE {})

EffectsOf(c) ==
  {o \in {"runtime", "graph", "foreground"} :
     \/ o = "runtime" /\ arOps[c] = "applied"
     \/ o = "graph" /\ reserved[c] = "applied"
     \/ o = "foreground" /\ aeOps[c] = "completed"}

OutcomeOf(c) ==
  IF c \in executions THEN "executed"
  ELSE IF \/ arOps[c] \in {"aborted", "compensated"}
          \/ reserved[c] = "aborted" \/ aeOps[c] \in AbortedStatus
  THEN "refused" ELSE "undecided"

Outcome == INSTANCE ControlOutcome WITH
  Commands <- Controls,
  needs <- [c \in Controls |-> NeededBy(c)],
  effects <- [c \in Controls |-> EffectsOf(c)],
  outcome <- [c \in Controls |-> OutcomeOf(c)]

(* Whatever the two drivers and the crashes do, the command behaves as     *)
(* ControlOutcome promises.                                                *)
ImplementsOutcome == Outcome!SpecOutcome

Works(c) == \E d \in Drivers : driver[d].pc # "idle" /\ driver[d].cmd = c

(* An aborted command that nobody works on holds neither the foreground    *)
(* nor the graph: the next preview can take both.                          *)
AbortedFreesForeground ==
  \A c \in Controls : saga[c] = "aborted" /\ ~Works(c) =>
    pending # c /\ reserved[c] # "prepared"

(* A comment in execute_confirmed_command: on a failure it will "release   *)
(* every pending reservation so a fresh preview can proceed".  AR's        *)
(* reservation stops new provider work while it is prepared.               *)
AbortedReleasesRuntime ==
  \A c \in Controls : saga[c] = "aborted" /\ ~Works(c) => arOps[c] # "prepared"

(* A prune that goes on at RG although a successor took the head from it.  *)
StrandedPrune(p) ==
  /\ kind[p] = "prune" /\ reserved[p] = "applied"
  /\ aeOps[p] = "prepared" /\ pending # p

(* While a switch holds the foreground only a prune whose operation was    *)
(* cleared from the head takes its target away: every other prune holds    *)
(* the head before it touches the graph.                                   *)
SwitchTargetStaysActive ==
  \A c \in Controls : pending = c /\ kind[c] \in SwitchKinds =>
    \/ target[c] \in Active
    \/ \E p \in Controls : StrandedPrune(p) /\ target[c] \in affected[p]

=============================================================================
