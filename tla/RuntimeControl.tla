--------------------------- MODULE RuntimeControl ---------------------------
(***************************************************************************)
(* The managed Stage Runs of one Cycle, as Agent Runtime (AR) keeps them.  *)
(*                                                                         *)
(* A Run is carried out by successive Attempts under one root Session.     *)
(* Each Attempt has a Fence; work is accepted only under the current Fence *)
(* of a running Run.  A provider unit is the external process of an        *)
(* Attempt: AR cannot stop it, it can only revoke its Fence and wait for   *)
(* the proof that it ended.                                                *)
(*                                                                         *)
(* Human controls are prepared (the affected Runs are frozen in a          *)
(* reservation), then applied, aborted or, when another Owner cannot       *)
(* follow, compensated.  AE admits one control of a Cycle at a time; a     *)
(* pause or resume of one Run does not ask AE and may overlap it.          *)
(* `foreground` is what AE shows AR of the Cycle.                          *)
(*                                                                         *)
(* One action is one database transaction.  A provider unit lives from one *)
(* transaction to another, and the daemon may restart between any two.     *)
(***************************************************************************)
EXTENDS Integers, FiniteSets

CONSTANTS
  Runs,       \* identities of Stage Runs
  Actions,    \* the control actions humans confirm for the Cycle
  Features,   \* which of AllFeatures happen
  MaxGen,     \* bound: Attempts of a Run
  MaxEpoch    \* bound: Epochs of the Cycle

(* bundle_switch is a normal switch whose source Stage is Bundle; abandon   *)
(* is cancel for AR.                                                       *)
SwitchActions == {"normal_switch", "bundle_switch", "forced_switch"}
ControlActions == {"pause", "resume", "cancel", "prune", "restore"}
                    \cup SwitchActions
AllFeatures == {"restart", "human_wait", "ceiling", "rejection", "run_scope"}

(* Controls in progress: the one of the Cycle and one of a single Run.     *)
(* Bound: a second control of a Run starts after the first.                *)
Slots == {"cycle", "run"}

(* A Stage Run is not cancelled alone: AE would ask for it for ever        *)
(* (_validate_formal_run_control_scope).                                   *)
RunActions == {"pause", "resume"}

ASSUME RuntimeAssumption ==
  /\ Actions \subseteq ControlActions
  /\ Features \subseteq AllFeatures
  /\ MaxGen \in Nat \ {0}
  /\ MaxEpoch \in Nat \ {0}

VARIABLES
  run,         \* ar_run_controls
  fences,      \* ar_execution_fences: status by Run and generation
  revoked,     \* ar_fence_revocations: (Run, generation)
  units,       \* ar_provider_units: status by Run and generation
  orphans,     \* live units whose worker died with an earlier daemon
  operation,   \* the provider operation of an Attempt: the generation that
               \* minted it, shared by the Attempts that reuse it
  waiter,      \* generation whose human request is not consumed, or 0
  control,     \* ar_control_reservations, by Slot
  foreground   \* AE: the head, as far as this Cycle is concerned

vars == <<run, fences, revoked, units, orphans, operation, waiter, control,
          foreground>>

attempts == <<fences, revoked, units, orphans, operation, waiter>>

-----------------------------------------------------------------------------
(* Records                                                                 *)

Gens == 1..MaxGen
Epochs == 1..MaxEpoch

ClosedStatus == {"completed", "terminated"}
SuspendedStatus == {"suspended", "suspended_fenced"}
RunStatus == {"none", "running"} \cup SuspendedStatus \cup ClosedStatus
Reason == {"none", "human_request_wait", "codex_operation_stopped", "ceiling"}
Live == {"active", "revocation_pending"}

Run == [status : RunStatus, gen : Gens, epoch : Epochs,
        cleanup : {"none", "pending", "completed"}, reason : Reason]
Control == [action : ControlActions \cup {"none"},
            phase : {"none", "prepared", "applied"},
            frozen : [Runs -> RunStatus],   \* "none": not affected
            changed : SUBSET Runs,     \* control_revision moved since
            replaced : SUBSET Runs,    \* Attempt and Fence replaced since
            suspends : BOOLEAN]        \* the receipt shows a suspended Run
Foreground == [epoch : Epochs, open : BOOLEAN, here : BOOLEAN,
               revoked : BOOLEAN, pruned : BOOLEAN]

NoControl == [action |-> "none", phase |-> "none",
              frozen |-> [r \in Runs |-> "none"], changed |-> {},
              replaced |-> {}, suspends |-> FALSE]

TypeOK ==
  /\ run \in [Runs -> Run]
  /\ fences \in [Runs -> [Gens -> {"none", "current", "submitted",
                                   "rejected", "completed"}]]
  /\ revoked \subseteq Runs \X Gens
  /\ units \in [Runs -> [Gens -> {"none", "completed", "revoked"} \cup Live]]
  /\ orphans \subseteq Runs \X Gens
  /\ operation \in [Runs -> [Gens -> 0..MaxGen]]
  /\ waiter \in [Runs -> 0..MaxGen]
  /\ control \in [Slots -> Control]
  /\ foreground \in Foreground

Init ==
  /\ run = [r \in Runs |-> [status |-> "none", gen |-> 1, epoch |-> 1,
                            cleanup |-> "none", reason |-> "none"]]
  /\ fences = [r \in Runs |-> [g \in Gens |-> "none"]]
  /\ revoked = {}
  /\ units = [r \in Runs |-> [g \in Gens |-> "none"]]
  /\ orphans = {}
  /\ operation = [r \in Runs |-> [g \in Gens |-> 0]]
  /\ waiter = [r \in Runs |-> 0]
  /\ control = [c \in Slots |-> NoControl]
  /\ foreground = [epoch |-> 1, open |-> TRUE, here |-> TRUE,
                   revoked |-> FALSE, pruned |-> FALSE]

-----------------------------------------------------------------------------
(* Runs, Attempts and Fences                                               *)

Gen(r) == run[r].gen
Running(r) == run[r].status = "running"
Closed(r) == run[r].status \in ClosedStatus
FenceOf(r) == fences[r][Gen(r)]
FenceRevoked(r) == <<r, Gen(r)>> \in revoked
LiveUnits(r) == {g \in Gens : units[r][g] \in Live}

(* The Runs _controlled_runs_for_target selects for the head's Epoch.      *)
InScope(r) == run[r].status # "none" /\ run[r].epoch = foreground.epoch

(* The Runs of a reservation.                                              *)
Affected(c) == {r \in Runs : control[c].frozen[r] # "none"}

(* _prepared_control_reservations_for_run, _prepared_control_affects_run   *)
ReservedBy(c, r) == control[c].phase = "prepared" /\ r \in Affected(c)
Reserved(r) == \E c \in Slots : ReservedBy(c, r)

(* Controls that wait until no provider unit of their Runs is live.        *)
GracefulActions == {"pause", "prune", "bundle_switch"}

(* Mutant of Quiescing: a pending cleanup is not looked at.                *)
QuiescingByControl(r) ==
  \E c \in Slots : ReservedBy(c, r) /\ control[c].action \in GracefulActions

(* _provider_quiescence_requested *)
Quiescing(r) ==
  \/ run[r].cleanup = "pending"
  \/ \E c \in Slots : ReservedBy(c, r) /\ control[c].action \in GracefulActions

(* _assert_runtime_control_allows *)
Allows(r) == Running(r) /\ ~FenceRevoked(r)

(* A reservation is compared with control_revision, or for a pause with    *)
(* the Attempt: what happens to the Runs R while controls are prepared.    *)
Touched(R, replaced) ==
  [c \in Slots |->
     [control[c] EXCEPT
        !.changed = @ \cup {r \in R : ReservedBy(c, r)},
        !.replaced = @ \cup {r \in replaced : ReservedBy(c, r)}]]

(* _replace_fenced_managed_attempt: a completed StageRun has no successor. *)
(* Bound: a generation is left.                                            *)
Replaceable(r) == Gen(r) < MaxGen /\ FenceOf(r) # "completed"

(* Mutant of Rejected: a Fence gets the status of a unit.                  *)
RejectedAsUnit(status) ==
  IF status \in {"current", "submitted"} THEN "revoked" ELSE status

Rejected(status) ==
  IF status \in {"current", "submitted"} THEN "rejected" ELSE status

(* The Attempts of the Runs N are replaced.  The old Fences of `rejected`  *)
(* are closed, and the Attempts of `fresh` get a provider operation of     *)
(* their own instead of their predecessor's.                               *)
Replace(N, rejected, fresh) ==
  /\ \A r \in N : Replaceable(r)
  /\ fences' = [r \in Runs |->
       IF r \in N
         THEN [fences[r] EXCEPT
                 ![Gen(r)] = IF r \in rejected THEN Rejected(@) ELSE @,
                 ![Gen(r) + 1] = "current"]
         ELSE fences[r]]
  /\ operation' = [r \in Runs |->
       IF r \in N
         THEN [operation[r] EXCEPT
                 ![Gen(r) + 1] = IF r \in fresh THEN Gen(r) + 1
                                                ELSE operation[r][Gen(r)]]
         ELSE operation[r]]

(* Mutant of Successor: the row is not moved to the new Attempt.           *)
SuccessorSameAttempt(r) == [run[r] EXCEPT !.status = "running",
                                          !.cleanup = "none", !.reason = "none"]

(* The control row of a Run whose Attempt was replaced and that goes on.   *)
Successor(r) == [run[r] EXCEPT !.status = "running", !.gen = @ + 1,
                               !.cleanup = "none", !.reason = "none"]

(* Mutant of RequestCurrent: a suspended head is not noticed.              *)
RequestOfAnyHead ==
  /\ foreground.here
  /\ control["cycle"].action \in {"none", "normal_switch", "bundle_switch"}
  /\ \A s \in Runs : InScope(s) => Closed(s)

(* admit_stage_run, no resumable Run: AE must show the request as current. *)
(* AE asks for one Stage at a time.                                        *)
RequestCurrent ==
  /\ foreground.open /\ foreground.here
  /\ control["cycle"].action \in {"none", "normal_switch", "bundle_switch"}
  /\ \A s \in Runs : InScope(s) => Closed(s)

Admit(r) ==
  /\ RequestCurrent
  /\ run[r].status = "none"
  /\ run' = [run EXCEPT ![r] = [status |-> "running", gen |-> 1,
                                epoch |-> foreground.epoch,
                                cleanup |-> "none", reason |-> "none"]]
  /\ fences' = [fences EXCEPT ![r][1] = "current"]
  /\ operation' = [operation EXCEPT ![r][1] = 1]
  /\ UNCHANGED <<revoked, units, orphans, waiter, control, foreground>>

(* admit_stage_run, resuming a fenced Run of an older Epoch of the same    *)
(* Stage.                                                                  *)
Rebind(r) ==
  /\ RequestCurrent
  /\ run[r].status = "suspended_fenced"
  /\ run[r].epoch < foreground.epoch
  /\ Replace({r}, {r}, {})
  /\ run' = [run EXCEPT ![r] = [Successor(r) EXCEPT
                                  !.epoch = foreground.epoch]]
  /\ control' = Touched({r}, {r})
  /\ UNCHANGED <<revoked, units, orphans, waiter, foreground>>

-----------------------------------------------------------------------------
(* Provider units                                                          *)

(* A unit of the current Attempt may begin, or begin again.                *)
MayBegin(r) ==
  /\ Allows(r)
  /\ units[r][Gen(r)] \in {"none", "completed"}
  /\ ~Quiescing(r)
  /\ \A g \in Gens : units[r][g] # "active"

(* begin_provider_unit *)
BeginUnit(r) ==
  /\ MayBegin(r)
  /\ units' = [units EXCEPT ![r][Gen(r)] = "active"]
  /\ UNCHANGED <<run, fences, revoked, orphans, operation, waiter, control,
                 foreground>>

(* The units of r once the one of generation g is proven stopped: pending  *)
(* units of the same provider operation are stopped with it.               *)
Acknowledged(r, g) ==
  [h \in Gens |->
     IF h = g THEN IF <<r, g>> \in revoked THEN "revoked" ELSE "completed"
     ELSE IF /\ units[r][h] = "revocation_pending"
             /\ operation[r][h] = operation[r][g]
       THEN "revoked"
       ELSE units[r][h]]

(* Mutant of CleanupAfter: the first acknowledgement ends the cleanup.      *)
CleanupAfterFirst(r, us) ==
  IF run[r].cleanup = "pending" THEN "completed" ELSE run[r].cleanup

CleanupAfter(r, us) ==
  IF run[r].cleanup = "pending" /\ \A g \in Gens : us[g] \notin Live
    THEN "completed" ELSE run[r].cleanup

(* acknowledge_provider_safe_point, called by the worker whose call ended, *)
(* by a control that waits, and by reconcile_pending_provider_cleanup.     *)
AcknowledgeUnit(r, g) ==
  /\ units[r][g] \in Live
  /\ <<r, g>> \in orphans => Quiescing(r)
  /\ units' = [units EXCEPT ![r] = Acknowledged(r, g)]
  /\ run' = [run EXCEPT ![r].cleanup = CleanupAfter(r, Acknowledged(r, g))]
  /\ orphans' = {o \in orphans : o[1] = r => Acknowledged(r, g)[o[2]] \in Live}
  /\ UNCHANGED <<fences, revoked, operation, waiter, control, foreground>>

(* record_stage_provider_hard_ceiling: the provider stopped at a limit, or *)
(* with the daemon.                                                        *)
HardCeiling(r, reason) ==
  /\ "ceiling" \in Features
  /\ Allows(r)
  /\ units[r][Gen(r)] = "active"
  /\ revoked' = revoked \cup {<<r, Gen(r)>>}
  /\ fences' = [fences EXCEPT ![r][Gen(r)] = Rejected(@)]
  /\ units' = [units EXCEPT ![r][Gen(r)] = "revoked"]
  /\ run' = [run EXCEPT ![r].status = "suspended_fenced",
                        ![r].reason = reason, ![r].cleanup = "completed"]
  /\ control' = Touched({r}, {})
  /\ UNCHANGED <<orphans, operation, waiter, foreground>>

-----------------------------------------------------------------------------
(* What an Attempt returns                                                 *)

(* reject_stage_completion_candidate, and _record_stage_provider_correction*)
(* of a completed turn: a successor continues in the same Session.         *)
RejectCandidate(r) ==
  /\ "rejection" \in Features
  /\ Running(r)
  /\ units[r][Gen(r)] = "active"
  /\ FenceOf(r) = "current"
  /\ Replace({r}, {r}, {r})
  /\ units' = [units EXCEPT ![r][Gen(r)] = "completed"]
  /\ run' = [run EXCEPT ![r] = Successor(r)]
  /\ control' = Touched({r}, {r})
  /\ UNCHANGED <<revoked, orphans, waiter, foreground>>

(* submit_*_attempt_execution: the outcome of a unit is recorded; the row  *)
(* of the Run's control does not change.                                   *)
Submit(r) ==
  /\ Allows(r)
  /\ FenceOf(r) = "current"
  /\ units[r][Gen(r)] # "none"
  /\ fences' = [fences EXCEPT ![r][Gen(r)] = "submitted"]
  /\ UNCHANGED <<run, revoked, units, orphans, operation, waiter, control,
                 foreground>>

(* The worker looks at the decision only after its unit is acknowledged.   *)
UnitLeft(r) == units[r][Gen(r)] # "active"

(* continue_after_*_rejection: the other Owner refused the outcome.        *)
ContinueAfterRejection(r) ==
  /\ "rejection" \in Features
  /\ Allows(r) /\ UnitLeft(r)
  /\ FenceOf(r) = "submitted"
  /\ Replace({r}, {r}, {r})
  /\ run' = [run EXCEPT ![r] = Successor(r)]
  /\ control' = Touched({r}, {r})
  /\ UNCHANGED <<revoked, units, orphans, waiter, foreground>>

(* Mutant of MayComplete: the control of the Run is not asked.             *)
MayCompleteFenceOnly(r) == UnitLeft(r) /\ FenceOf(r) = "submitted"

MayComplete(r) == Allows(r) /\ UnitLeft(r) /\ FenceOf(r) = "submitted"

(* complete_*_run *)
CompleteRun(r) ==
  /\ MayComplete(r)
  /\ fences' = [fences EXCEPT ![r][Gen(r)] = "completed"]
  /\ run' = [run EXCEPT ![r].status = "completed", ![r].reason = "none",
                        ![r].cleanup = "none"]
  /\ control' = Touched({r}, {})
  /\ UNCHANGED <<revoked, units, orphans, operation, waiter, foreground>>

-----------------------------------------------------------------------------
(* Human requests of an Attempt                                            *)

(* _yield_operation_for_human_request: the agent asks inside its turn.     *)
OpenHumanRequest(r) ==
  /\ "human_wait" \in Features
  /\ Running(r)
  /\ FenceOf(r) = "current"
  /\ units[r][Gen(r)] = "active"
  /\ waiter' = [waiter EXCEPT ![r] = Gen(r)]
  /\ run' = [run EXCEPT ![r].status = "suspended",
                        ![r].reason = "human_request_wait"]
  /\ control' = Touched({r}, {})
  /\ UNCHANGED <<fences, revoked, units, orphans, operation, foreground>>

(* _managed_run_has_pending_root_human_request *)
Waiting(r) == waiter[r] = Gen(r)

(* The unit that asked was fenced by a restart and is not proven stopped.  *)
AskedByFencedUnit(r) ==
  units[r][Gen(r)] = "revocation_pending" /\ FenceRevoked(r)

(* reconcile_root_human_request and _resume_operation_after_human_request  *)
AnswerHumanRequest(r) ==
  /\ Waiting(r)
  /\ run[r].status = "suspended"
  /\ FenceOf(r) = "current"
  /\ waiter' = [waiter EXCEPT ![r] = 0]
  /\ LET N == IF AskedByFencedUnit(r) THEN {r} ELSE {}
         running == [run[r] EXCEPT !.status = "running", !.reason = "none"]
     IN  /\ Replace(N, N, {})
         /\ run' = [run EXCEPT ![r] = IF N = {} THEN running
                                      ELSE [running EXCEPT !.gen = @ + 1]]
         /\ control' = Touched({r}, N)
  /\ UNCHANGED <<revoked, units, orphans, foreground>>

-----------------------------------------------------------------------------
(* Restart of the daemon                                                   *)

(* Mutant of Held: recovery does not look for prepared controls.           *)
HeldByNothing(r) == FALSE

(* A prepared control keeps the Attempt it froze.                          *)
Held(r) == Reserved(r)

(* Units whose worker recorded its result before the daemon stopped.       *)
Recorded(done) == done \cup {u \in Runs \X Gens :
                               /\ units[u[1]][u[2]] \in Live
                               /\ run[u[1]].status = "completed"}

(* Units of the dead daemon whose Fence recovery revokes: all that were    *)
(* active, and a pending one only if its Attempt is still the running one. *)
Fenced(done) == {u \in (Runs \X Gens) \ Recorded(done) :
  /\ ~Held(u[1])
  /\ \/ units[u[1]][u[2]] = "active"
     \/ /\ units[u[1]][u[2]] = "revocation_pending"
        /\ Running(u[1]) /\ u[2] = Gen(u[1])}

(* Runs that stopped with a daemon which shut down in order.               *)
StoppedWithDaemon == {r \in Runs : /\ run[r].status = "suspended_fenced"
                                   /\ run[r].reason = "codex_operation_stopped"
                                   /\ run[r].cleanup = "completed"
                                   /\ ~Held(r)}

(* _recover_interrupted_provider_units, then                               *)
(* _recover_daemon_stopped_stage_runs; both run before anything else does. *)
Restart ==
  /\ "restart" \in Features
  /\ \E done \in SUBSET {u \in (Runs \X Gens) \ orphans :
                           units[u[1]][u[2]] \in Live} :
       LET replaced == {r \in Runs : Running(r) /\ \E u \in Fenced(done) :
                                                     u[1] = r}
           successors == replaced \cup StoppedWithDaemon
       IN  /\ \A r \in successors : Replaceable(r)
           /\ units' = [r \in Runs |-> [g \in Gens |->
                IF <<r, g>> \in Recorded(done) THEN "completed"
                ELSE IF units[r][g] = "active" THEN "revocation_pending"
                ELSE units[r][g]]]
           /\ orphans' = {u \in Runs \X Gens : /\ units[u[1]][u[2]] \in Live
                                               /\ u \notin Recorded(done)}
           /\ revoked' = revoked \cup Fenced(done)
           /\ fences' = [r \in Runs |-> [g \in Gens |->
                IF r \in successors /\ g = Gen(r) + 1 THEN "current"
                ELSE IF r \in replaced /\ <<r, g>> \in Fenced(done)
                  THEN Rejected(fences[r][g])
                ELSE fences[r][g]]]
           /\ operation' = [r \in Runs |->
                IF r \in successors
                  THEN [operation[r] EXCEPT ![Gen(r) + 1] =
                          IF r \in replaced THEN operation[r][Gen(r)]
                                            ELSE Gen(r) + 1]
                  ELSE operation[r]]
           /\ run' = [r \in Runs |->
                IF r \in successors THEN Successor(r) ELSE run[r]]
           /\ control' = Touched(successors, successors)
  /\ UNCHANGED <<waiter, foreground>>

-----------------------------------------------------------------------------
(* Controls: prepare and abort                                             *)

(* What AE asks of the head before it admits the control.                  *)
Admitted(a) ==
  /\ foreground.here
  /\ CASE a \in {"pause", "normal_switch", "bundle_switch"} -> foreground.open
       [] a = "resume" -> ~foreground.open /\ ~foreground.pruned
       [] a \in {"forced_switch", "cancel"} -> TRUE
       [] a = "prune" -> ~foreground.pruned
       [] a = "restore" -> ~foreground.open /\ foreground.pruned

(* prepare_runtime_control *)
Prepared(action, R) ==
  [NoControl EXCEPT
     !.action = action, !.phase = "prepared",
     !.frozen = [r \in Runs |-> IF r \in R THEN run[r].status ELSE "none"]]

(* A control of the Cycle.  A forced switch may take the head from a normal *)
(* switch that waits for its Stage.                                        *)
PrepareControl(a) ==
  /\ \/ control["cycle"].phase = "none"
     \/ /\ a = "forced_switch"
        /\ control["cycle"].action = "normal_switch"
        /\ control["cycle"].phase = "applied"
  /\ Admitted(a)
  /\ control' = [control EXCEPT !["cycle"] = Prepared(a, {r \in Runs :
                                                           InScope(r)})]
  /\ UNCHANGED <<run, attempts, foreground>>

(* A control of one Run, whatever its Cycle does; a pruned Question is not *)
(* resumed.                                                                *)
PrepareRunControl(a, r) ==
  /\ "run_scope" \in Features
  /\ control["run"].phase = "none"
  /\ run[r].status # "none"
  /\ a = "resume" => ~foreground.pruned
  /\ control' = [control EXCEPT !["run"] = Prepared(a, {r})]
  /\ UNCHANGED <<run, attempts, foreground>>

(* abort_runtime_control *)
AbortControl(c) ==
  /\ control[c].phase = "prepared"
  /\ control' = [control EXCEPT ![c] = NoControl]
  /\ UNCHANGED <<run, attempts, foreground>>

-----------------------------------------------------------------------------
(* Controls: apply                                                         *)

(* Mutant of Controlled: closed Runs are not skipped.                      *)
ControlledToo(c) == Affected(c)

(* Closed Runs only get a safe point.                                      *)
Controlled(c) == {r \in Affected(c) : ~Closed(r)}

(* The target of the control of a Run is that Run.                         *)
SameScope(c) ==
  c = "cycle" => \A r \in Runs : InScope(r) <=> r \in Affected(c)

(* The reservation is compared with what the target selects now: the rows  *)
(* with their control_revision, for a pause only the Attempts.             *)
Fresh(c) ==
  /\ SameScope(c)
  /\ IF control[c].action = "pause" THEN control[c].replaced = {}
                                    ELSE control[c].changed = {}

(* Mutant of Quiet: the handoff of a Bundle does not wait.                 *)
QuietForPause(c) ==
  control[c].action \in {"pause", "prune"} =>
    \A r \in Affected(c) : LiveUnits(r) = {}

(* _wait_for_provider_quiescence has waited; the write asks again.         *)
Quiet(c) ==
  control[c].action \in GracefulActions =>
    \A r \in Affected(c) : LiveUnits(r) = {}

ApplyTo(c, actions) ==
  /\ control[c].phase = "prepared" /\ control[c].action \in actions
  /\ Fresh(c) /\ Quiet(c)

(* The receipt of the operation: `rows` are the control rows it leaves, N  *)
(* the Runs it replaced.  A control of a Run needs no other Owner.         *)
Applied(c, rows, N) ==
  [Touched(Affected(c), N) EXCEPT
     ![c] = IF c = "run" THEN NoControl
            ELSE [control[c] EXCEPT
                    !.phase = "applied",
                    !.suspends = \E r \in Controlled(c) :
                                    rows[r].status \in SuspendedStatus]]

Row(r, status, cleanup) ==
  [run[r] EXCEPT !.status = status, !.cleanup = cleanup, !.reason = "none"]

(* A graceful stop keeps the Attempt and its Fence.                        *)
ApplySuspend(c) ==
  /\ ApplyTo(c, {"pause", "bundle_switch"})
  /\ run' = [r \in Runs |-> IF r \in Controlled(c)
                              THEN Row(r, "suspended", "none") ELSE run[r]]
  /\ control' = Applied(c, run', {})
  /\ UNCHANGED <<attempts, foreground>>

(* The Runs of a normal handoff go on; one whose unit was interrupted by a *)
(* restart gets its successor now.                                         *)
ApplyHandoff(c) ==
  LET N == {r \in Controlled(c) : units[r][Gen(r)] = "revocation_pending"}
  IN  /\ ApplyTo(c, {"normal_switch"})
      /\ Replace(N, N, {})
      /\ revoked' = revoked \cup {<<r, Gen(r)>> : r \in N}
      /\ run' = [r \in Runs |->
           IF r \in Controlled(c)
             THEN [run[r] EXCEPT !.reason = "none",
                                 !.gen = IF r \in N THEN @ + 1 ELSE @]
             ELSE run[r]]
      /\ control' = Applied(c, run', N)
      /\ UNCHANGED <<units, orphans, waiter, foreground>>

(* The call of a paused Run ended.  Whether it left a checkpoint that a    *)
(* successor continues from is up to the provider.                         *)
MayHaveStopped(r) ==
  /\ run[r].status = "suspended"
  /\ units[r][Gen(r)] = "completed" /\ FenceOf(r) = "current"
  /\ LiveUnits(r) = {}

(* Mutant of KeepsWaiting: resume releases the Runs that wait for a human. *)
KeepsNobodyWaiting(r) == FALSE

(* An exact request of the Attempt is not consumed by a resume.            *)
KeepsWaiting(r) == Waiting(r)

ApplyResume(c) ==
  /\ ApplyTo(c, {"resume"})
  /\ LET R == {r \in Controlled(c) : ~KeepsWaiting(r)}
         fenced == {r \in R : run[r].status = "suspended_fenced"}
     IN  \E stopped \in SUBSET {r \in R : MayHaveStopped(r)},
            fresh \in SUBSET {r \in fenced : run[r].reason = "ceiling"} :
           LET N == stopped \cup fenced
           IN  /\ Replace(N, stopped, stopped \cup fresh)
               /\ revoked' = revoked \cup {<<r, Gen(r)>> : r \in stopped}
               /\ run' = [r \in Runs |->
                    IF r \in N THEN Successor(r)
                    ELSE IF r \in R THEN Row(r, "running", "none")
                    ELSE IF r \in Controlled(c)
                      THEN [Row(r, "suspended", "none")
                              EXCEPT !.reason = "human_request_wait"]
                    ELSE run[r]]
               /\ control' = Applied(c, run', N)
  /\ UNCHANGED <<units, orphans, waiter, foreground>>

(* Restored Runs stay suspended, with a Fence they can resume under.       *)
ApplyRestore(c) ==
  LET N == {r \in Controlled(c) : run[r].status = "suspended_fenced"}
  IN  /\ ApplyTo(c, {"restore"})
      /\ Replace(N, {}, {})
      /\ run' = [r \in Runs |->
           IF r \in Controlled(c)
             THEN [Row(r, "suspended", "none")
                     EXCEPT !.gen = IF r \in N THEN @ + 1 ELSE @]
             ELSE run[r]]
      /\ control' = Applied(c, run', N)
      /\ UNCHANGED <<revoked, units, orphans, waiter, foreground>>

(* FORCE_FENCE_ACTIONS: the Fence is revoked whatever the unit does.       *)
ApplyForce(c) ==
  LET C == Controlled(c)
      cancelled == IF control[c].action = "cancel" THEN C ELSE {}
  IN  /\ ApplyTo(c, {"prune", "forced_switch", "cancel"})
      /\ units' = [r \in Runs |-> [g \in Gens |->
           IF r \in C /\ units[r][g] = "active"
             THEN "revocation_pending" ELSE units[r][g]]]
      /\ revoked' = revoked \cup {<<r, Gen(r)>> : r \in C}
      /\ fences' = [r \in Runs |->
           IF r \in cancelled
             THEN [fences[r] EXCEPT ![Gen(r)] = Rejected(@)] ELSE fences[r]]
      /\ run' = [r \in Runs |->
           IF r \in C
             THEN Row(r,
                      IF r \in cancelled THEN "terminated"
                                         ELSE "suspended_fenced",
                      IF LiveUnits(r) # {} THEN "pending"
                      ELSE IF r \in cancelled THEN "completed" ELSE "none")
             ELSE run[r]]
      /\ control' = Applied(c, run', {})
      /\ UNCHANGED <<orphans, operation, waiter, foreground>>

-----------------------------------------------------------------------------
(* What the other Owners make of an applied control of the Cycle           *)

Head == control["cycle"]
EndControl(fg) ==
  /\ control' = [control EXCEPT !["cycle"] = NoControl]
  /\ foreground' = fg
  /\ UNCHANGED <<run, attempts>>

(* The Stage a normal switch waits for is committed after its Run closed.  *)
HandoffReady ==
  Head.action = "normal_switch" => \A r \in Runs : InScope(r) => Closed(r)

(* AE completes the operation (for prune and restore after RG applied it). *)
(* A resume after a cancel signs a new Epoch.  Bound: MaxEpoch.            *)
Settle ==
  /\ Head.phase = "applied"
  /\ HandoffReady
  /\ \/ /\ Head.action = "pause"
        /\ EndControl([foreground EXCEPT !.open = FALSE])
     \/ /\ Head.action = "cancel"
        /\ EndControl([foreground EXCEPT !.open = FALSE, !.revoked = TRUE])
     \/ /\ Head.action = "prune"
        /\ EndControl([foreground EXCEPT !.open = FALSE, !.pruned = TRUE])
     \/ /\ Head.action = "restore"
        /\ EndControl([foreground EXCEPT !.pruned = FALSE])
     \/ /\ Head.action = "resume"
        /\ foreground.revoked => foreground.epoch < MaxEpoch
        /\ EndControl([foreground EXCEPT
             !.open = TRUE, !.revoked = FALSE,
             !.epoch = IF foreground.revoked THEN @ + 1 ELSE @])
     \/ /\ Head.action \in SwitchActions
        /\ EndControl([foreground EXCEPT !.here = FALSE])

(* A switch back to this Cycle: its Epoch is new.  Bound: MaxEpoch.        *)
SwitchBack ==
  /\ ~foreground.here
  /\ foreground.epoch < MaxEpoch
  /\ foreground' = [foreground EXCEPT !.here = TRUE, !.open = TRUE,
                                      !.revoked = FALSE, !.epoch = @ + 1]
  /\ UNCHANGED <<run, attempts, control>>

(* _switch_runtime_effect_requires_compensation, and RG refusing to apply. *)
RequiresCompensation ==
  \/ Head.action \in {"prune", "restore"}
  \/ Head.action \in SwitchActions /\ Head.suspends

(* The target of a switch is gone, and AR has nothing to undo.             *)
InvalidateSwitch ==
  /\ Head.phase = "applied" /\ Head.action \in SwitchActions
  /\ HandoffReady /\ ~RequiresCompensation
  /\ EndControl(foreground)

(* compensate_runtime_control: Runs that ran get a successor, Runs that    *)
(* were suspended are fenced.                                              *)
Compensate ==
  LET frozen == Head.frozen
      N == {r \in Runs : frozen[r] = "running"}
      F == {r \in Runs : frozen[r] \in SuspendedStatus}
  IN  /\ Head.phase = "applied"
      /\ HandoffReady /\ RequiresCompensation
      /\ \A r \in N : ~Closed(r) /\ Replaceable(r)
      /\ revoked' = revoked \cup {<<r, Gen(r)>> : r \in N \cup F}
      /\ fences' = [r \in Runs |->
           [g \in Gens |->
              IF r \in N /\ g = Gen(r) + 1 THEN "current"
              ELSE IF r \in N \cup F /\ g = Gen(r) THEN Rejected(fences[r][g])
              ELSE fences[r][g]]]
      /\ operation' = [r \in Runs |->
           IF r \in N
             THEN [operation[r] EXCEPT ![Gen(r) + 1] = operation[r][Gen(r)]]
             ELSE operation[r]]
      /\ run' = [r \in Runs |->
           IF r \in N THEN Successor(r)
           ELSE IF r \in F THEN Row(r, "suspended_fenced", "none")
           ELSE IF frozen[r] # "none" THEN Row(r, frozen[r], "none")
           ELSE run[r]]
      /\ control' = [Touched(Affected("cycle"), N) EXCEPT
                       !["cycle"] = NoControl]
      /\ UNCHANGED <<units, orphans, waiter, foreground>>

-----------------------------------------------------------------------------
Next ==
  \/ \E r \in Runs : \/ Admit(r) \/ Rebind(r) \/ BeginUnit(r)
                     \/ RejectCandidate(r) \/ Submit(r)
                     \/ ContinueAfterRejection(r) \/ CompleteRun(r)
                     \/ OpenHumanRequest(r) \/ AnswerHumanRequest(r)
                     \/ \E g \in Gens : AcknowledgeUnit(r, g)
                     \/ \E reason \in {"ceiling", "codex_operation_stopped"} :
                          HardCeiling(r, reason)
                     \/ \E a \in RunActions : PrepareRunControl(a, r)
  \/ Restart
  \/ \E a \in Actions : PrepareControl(a)
  \/ \E c \in Slots : \/ AbortControl(c) \/ ApplySuspend(c) \/ ApplyHandoff(c)
                      \/ ApplyResume(c) \/ ApplyRestore(c) \/ ApplyForce(c)
  \/ Settle \/ SwitchBack \/ InvalidateSwitch \/ Compensate

Spec == Init /\ [][Next]_vars

(* The workers and the daemon's loop come back to every unit that is not   *)
(* proven stopped.                                                         *)
FairSpec ==
  Spec /\ \A r \in Runs, g \in Gens : WF_vars(AcknowledgeUnit(r, g))

-----------------------------------------------------------------------------
(* Properties                                                              *)

(* A running Run can work: its Attempt's Fence is not closed or revoked,   *)
(* whatever sequence of pauses, resumes, restarts and recoveries led there. *)
RunsUnderALiveFence ==
  \A r \in Runs : Running(r) =>
    FenceOf(r) \in {"current", "submitted"} /\ ~FenceRevoked(r)

(* A suspended or cancelled Run has no unit at work that was not told to   *)
(* stop; only a Run that waits for a human still has the turn that asked.  *)
QuietRun(r) ==
  run[r].status \in SuspendedStatus \cup {"terminated"} /\ ~Waiting(r) =>
    \A g \in Gens : units[r][g] # "active"

QuietWhenSuspended == \A r \in Runs : QuietRun(r)

(* A cancelled Run is reported as cleaned up only when every provider unit *)
(* it ever started is proven stopped.                                      *)
CleanupMeansStopped ==
  \A r \in Runs : run[r].status = "terminated" /\ run[r].cleanup = "completed"
                    => LiveUnits(r) = {}

(* While the Cycle is paused, cancelled or pruned none of its Runs works:  *)
(* "a Run in flight becomes suspended once it reached its Safe Point".     *)
PausedRun(r) ==
  foreground.here /\ ~foreground.open /\ Head.phase = "none" /\ InScope(r) =>
    ~Running(r)

PausedMeansStopped == \A r \in Runs : PausedRun(r)

(* Work is accepted only from a current Attempt: a Run that completes does *)
(* so under the Fence it was running under.                                *)
CompletedUnderALiveFence ==
  \A r \in Runs : run[r].status = "completed" =>
    FenceOf(r) = "completed" /\ ~FenceRevoked(r)

(* The compensation of an applied control is about to put back what it     *)
(* froze: a Run that was suspended then, for a human say, and may have     *)
(* been answered and completed since.                                      *)
PutsBackSuspended(r) ==
  Head.phase = "applied" /\ Head.frozen[r] \in SuspendedStatus

(* A completed or cancelled Run is not reopened by a control, a recovery   *)
(* or a late answer, and a compensation reopens none but a Run its control *)
(* found suspended: that one is fenced ("... must never be reopened").     *)
ClosedStaysClosed ==
  [][\A r \in Runs : Closed(r) =>
       /\ run'[r].gen = run[r].gen
       /\ \/ run'[r].status = run[r].status
          \/ PutsBackSuspended(r) /\ run'[r].status = "suspended_fenced"]_vars

(* A Run that asked a human does not run in the same Attempt before it got *)
(* its answer: neither a resume nor a restart releases it.                 *)
RunsOnlyIfAnswered == \A r \in Runs : Running(r) => ~Waiting(r)

(* The Fence a prepared control froze is revoked by the application or the *)
(* compensation of a control of that Run, or by the provider's own stop; a *)
(* restart leaves it alone.                                                *)
FrozenFenceKept ==
  [][\A r \in Runs : Reserved(r) /\ <<r, Gen(r)>> \in revoked' \ revoked =>
       \/ run'[r].status = "suspended_fenced"
       \/ \E c \in Slots : r \in Affected(c)
                          /\ control'[c].phase # control[c].phase]_vars

(* All processes of a Run that stays cancelled stop, also those a dead     *)
(* daemon left; only a compensation takes a cancellation back.             *)
CancelledIsCleaned ==
  \A r \in Runs : run[r].status = "terminated" ~>
                     (run[r].status # "terminated" \/ LiveUnits(r) = {})
=============================================================================
