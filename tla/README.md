# Verification of Meta Research

Meta Research runs long research "Quests": a Quest is a tree of Questions, each
Question is worked on in Cycles, and a Cycle passes through four Stages (idea, plan,
bundle, reasoning), each carried out by an agent Run. A human steers the work with
confirmed controls (pause, resume, switch, cancel, abandon, prune, restore). The
program is a single daemon over one SQLite database; its state is split among five
*Owners*, each the only writer of its tables, and everything that concerns two Owners
is a saga of separate transactions.

This directory holds TLA+ modules translated from the code, the TLC configurations
that check them, and TLAPS proofs. Paths below are relative to
`src/src/meta_research/`.

## 1. Inventory

### Storage and concurrency

`database.py` gives every Owner the same SQLite file. `Database.write()` holds a
process-wide re-entrant lock and one transaction: what happens inside one
`with ... write()` block is atomic, and an exception rolls it back. Reads outside a
write take no lock. So **one action of a module is one write transaction**, and state
that the code reads before it opens the transaction is stale by then: such reads are
separate actions. The HTTP handlers (`web.py`) and the background worker run
concurrently, and the daemon may stop between any two transactions.

### Components, their state, operations and hard behaviour

| Component | State | Operations | Hard part | What makes it correct |
|---|---|---|---|---|
| Advancement Engine (AE), foreground: `owners/advancement_engine.py` | head, Grants, Cycles, Stage requests and commits, control operations | ensure/commit per Stage, Reasoning successor, end of Quest, prepare/complete/abort of eight controls | commits check and write in different transactions; operations wait at a normal boundary; controls race commits, successors and the end | one live Grant; head, Grant and Cycle agree; pending operation belongs to the head; research never goes back |
| Agent Runtime (AR), managed Runs: `owners/agent_runtime.py` | Run controls, execution fences, provider units, reservations, applied operations, compensations | prepare/apply/abort/compensate a control, begin/acknowledge a provider unit, recovery after a restart | a provider process outlives the transaction that stops it; quiescence wait; replacement Attempts | a revoked Fence never works again; at most one live unit per Fence; a paused Run has no live unit |
| Research Graph (RG), lifecycle of Questions: `owners/research_graph.py`, `manual_creation.py` | lifecycle rows, prune and restore records, reservations, graph version | accept a Question below a parent; preview/prepare/abort/apply prune and restore | the tree grows between a reservation and its write; records of nested and repeated prunes | a reservation that still applies is exact; each pruned Question is in one open record; no control leaves an active Question below a pruned one |
| Human Collaboration (HC), control commands: `owners/human_collaboration.py` | commands, control sagas, executions | execute a confirmed command, recover interrupted sagas | the driver may die between any two Owners; web and worker may both drive one saga | every Owner carries a command out or none shows it; an aborted command lets go of what it held |
| Quest completion: `quest_completion.py` | decisions, completion record | HC decision -> RG completion -> AE ending -> HC receipt | four Owners in turn, retried after a crash | the Quest ends once, only from the accepted candidate |
| Research Memory (RM): `owners/research_memory.py` | memory objects, context packs | admit, freeze, select | content-addressed, append-only | immutability of what a receipt names |
| Target Runs: `owners/target_run_runtime.py`, `owners/target_root_lifecycle.py`, `target_run_finalizer.py` | target root leases, workspaces, finalisation | start, commit, quarantine, clean up | processes and files outside the database | one live root per Target; cleanup after commit |
| Provider supervision: `provider_supervisor.py`, `streaming_provider_supervisor.py`, `quest_drafting.py`, `harness*.py` | per operation: lock, markers, exit receipt, stop file; processes | launch a supervisor, start and watch the provider, seal, request a stop, prove that nothing started | processes that outlive the daemon or die at any point; checks that read files and `/proc` in turn | the provider is started once; a receipt and a believed stop are the end of it |
| Runtime protection: `runtime_protection.py`, `runtime_conditions.py` | conditions, holds | raise, clear | flapping conditions | work is held while a condition stands |
| Human requests and guidance: `owners/human_requests.py`, `owners/human_guidance.py`, `owners/human_collaboration_ladder.py` | requests, answers, consumption | ask, answer, consume, expire | an answer racing its timeout or a restart | an answer is consumed once by the Run that asked |
| Quest creation and goals: `manual_creation.py`, `quest_drafting.py`, `autonomous_creation.py`, `owners/quest_goals.py` | drafts, goals | draft, confirm, revise | a revision racing a Stage | goals are immutable once used |
| DeepFetch: `deepfetch.py`, `acquisition.py`, `search_sources.py` | queue of acquisition Runs | admit, run, reconcile | external I/O | a queue row is claimed by one worker |
| Asset lifecycle: `owners/asset_lifecycle.py`, `asset_lifecycle_operations.py` | assets, operations | archive, restore, delete | multi-step file operations | files and rows agree after a crash |
| Durable feed and projection: `feed.py`, `projection.py` | events, projection offset | record, read after a revision | gaps and pruning | a reader never misses an event without being told |
| Daemon and web: `daemon.py`, `web.py`, `composition.py` | file lock, background worker | start, stop, serve, poll | two daemons on one data root | one daemon per data root |
| Timeline summaries: `timeline_summaries.py`, `timeline_summary_provider.py` | nodes, jobs, the recorder's session | observe, claim, launch or recover, publish, fail, retry | sources change while a provider works; providers outlive the daemon | no node is forgotten, no summary gets older, every node is read in the end |
| Stage skills and contracts: `idea_skill.py`, `plan_skill.py`, `bundle_skill.py`, `reasoning_skill.py`, `*_contract.py` | none of their own | validate and assemble Stage payloads | payload validation | data, not control |
| Web client, migrations, vendored skills: `web/`, `migrations/`, `skills/` | none of the program's control | - | - | - |

### How the components interact

- A **human control** is a saga run by HC (`execute_confirmed_command`): prepare in AE,
  RG (prune and restore only) and AR; then apply in AR, apply in RG, complete in AE. Each
  step is a transaction of its own. When an Owner refuses to prepare, what was prepared
  is aborted; when RG or AE refuses after AR applied, AR compensates. A control of a single
  Run goes to AR alone.
- **Stage workers** (`idea_stage.py`, `plan_stage.py`, `bundle_stage.py`,
  `reasoning_stage.py`) poll: they read the head from AE, admit a Run in AR, run the
  provider under a Fence, submit, ask RG to decide, complete the Run in AR and commit the
  Stage in AE, one transaction per round.
- **Human requests**: an agent asks inside its turn; AR suspends the Run, HC takes the
  answer, AR releases the Run.
- **Recovery**: when the daemon starts, AR first revokes the Fences of the units that a dead
  daemon left and gives their Runs successors, then resumes Runs that stopped with the
  daemon, then HC continues interrupted sagas. The background worker repeats the rest.

## 2. Plan

In this order; a module is written with its runs, and its proofs follow in a module of
their own. 1 to 6 are done, the rest is what a continuation would take up.

1. `ForegroundControl`: the head, what is researched and under whose authority.
2. `RuntimeControl`: the Runs under control, provider units, restarts.
3. `QuestionControl`: RG's reservations and records on a changing tree.
4. `ControlSaga` extends `QuestionControl` with HC, and with AE and AR reduced to what HC
   sees of them; it is shown to implement `ControlOutcome`, the abstract command
   (`Outcome == INSTANCE ControlOutcome WITH ...`), by TLC and by proof.
5. `TimelineSummaries`: the recorder's durable jobs.
6. `ProviderSupervisor`: one durable provider operation and its processes.
7. Open: the chain that ends a Quest (`quest_completion.py`), runtime protection, the life of
   a human request, Target roots. Every safety property that a passing run checks is a
   theorem, with three exceptions about Runs of which two are proved Run by Run (section 6);
   two theorems about Questions exclude spent records, and section 6 says why.

## 3. The modules and the code

### ForegroundControl

| State | Table | Abstraction |
|---|---|---|
| `head` | `ae_foreground_heads` | one Quest, hence one row |
| `grants` | `ae_foreground_grants` | by Epoch |
| `cycles` | `ae_cycles` | Question, Stage, status and reason |
| `ops` | `ae_control_operations` | prepared, waiting for a handoff, completed, aborted |
| `requests`, `commits`, `ended` | `ae_stage_run_requests`, `ae_stage_commits`, `ae_quest_endings` | payloads dropped |
| `inflight` | none | commit calls that passed their check and have not written |
| `lifecycle`, `pruned`, `applied` | RG: `rg_question_lifecycle`, `rg_prune_records`, applied operations | a Question is active or pruned; one record per pruned root |

A commit (`commit_idea_stage` and its siblings) checks its request, then writes in
another transaction: hence `BeginStageCommit`, `BeginSkip` and the `Finish...` actions.
`Prepare`, `Abort` and `Complete` are `prepare_`, `abort_` and
`complete_foreground_control`; `Complete` is one disjunct per branch of the code, in the
order of its tests (`Holds`, the normal boundary, the target of a switch, the action).
RG's and HC's part are guards (`QuestionAdmits`, `GraphApply`). `expected_revision` is left
out: it only makes a prepare fail, and the saga then aborts.

### RuntimeControl

| State | Table | Abstraction |
|---|---|---|
| `run` | `ar_run_controls` (with `ar_stage_runs`) | status, Attempt as a generation number, Epoch, cleanup status, terminal reason |
| `fences`, `revoked` | `ar_execution_fences`, `ar_fence_revocations` | one Fence per generation |
| `units` | `ar_provider_units` | one per generation: the primary and the review call of an Attempt use the same slot, one after the other |
| `operation` | the provider operation named by an Attempt | the generation that minted it; a successor that continues from a checkpoint keeps it |
| `orphans` | none: which units have no worker in this daemon | set at a restart |
| `waiter` | the Root HumanRequest of an Attempt | not consumed yet, or 0 |
| `control` | `ar_control_reservations` | the frozen rows, and whether `control_revision` or the Attempt moved since; one control of the Cycle and one of a single Run |
| `foreground` | AE's head, as admission sees it | Epoch, running or not, on this Cycle or not, last cancel not resumed, Question pruned |

One action per operation: `prepare_`, `abort_` and `compensate_runtime_control`;
`apply_runtime_control` is five actions, one per branch (`ApplySuspend`, `ApplyHandoff`,
`ApplyResume`, `ApplyRestore`, `ApplyForce`), that share its checks (`ApplyTo`) and its
receipt (`Applied`). `Restart` is the whole recovery of AR when the daemon starts: it
runs to its end before a worker or a handler does, so it is one action, with a
nondeterministic choice of the units whose worker recorded its result before the daemon
died. `Settle`, `InvalidateSwitch` and `SwitchBack` are AE's side, reduced to what AR
can see of it. `Features` turns groups of actions off, so that each run can go deep where
its question lies; the theorems hold for every choice of it. A control of a single Run is
a pause or a resume (`RunActions`): a formal Stage Run is not cancelled alone
(`_validate_formal_run_control_scope`), since AE would go on asking for it.

`Abandon` is `cancel` for AR. A background prune (of Questions outside the
foreground) affects no Run of the Cycle and is left out.

### QuestionControl

| State | Table | Abstraction |
|---|---|---|
| `lifecycle` | `rg_question_lifecycle` | absent until accepted, then active or pruned; `Parent` fixes below which Question each may be accepted, and is the Question itself for one of the mode "new", which has no parent |
| `drafts` | none: manual Questions whose parent `_reconcile` has found active | |
| `control` | the confirmed payload | prune of a root, or restore of a record |
| `reserved`, `affected` | `rg_question_control_reservations`; of applied prunes, `rg_prune_records` | a record is named by its operation |
| `current`, `fresh` | `graph_version`, the Owner's `revision` | the versions only grow and are compared for equality, so the module keeps the operations whose comparison still succeeds |
| `restored` | `rg_restore_records` | the prunes that a restore has named |

Two checks of the code are not atomic with what follows: the parent of a manual Question
(`CheckManualParent`, then `AcceptManualQuestion`) and the preview. The acceptance of an
autonomous Question holds the writer fence while it checks, and is one action; it looks its
parent up by the receipt, so a parent that is known but pruned is accepted
(`AutonomousParentKnown`).
`SpentRecords` says whether a restore may name a record that was used before: the web client
never offers one, the Owner accepts it.

### ControlSaga and ControlOutcome

| State | Table | Abstraction |
|---|---|---|
| `saga`, `executions` | `hc_control_sagas`, `hc_command_executions` | the statuses prepared, runtime_applied, graph_applied, advancement_applied are one, "open": nothing reads the difference |
| `aeOps`, `pending` | `ae_control_operations`, the head's pending operation | `ForegroundControl` without the head, Grants, Cycles; an abort with the reason `switch_target_invalidated` is a status of its own, "invalidated" |
| `kind`, `target` | the confirmed payload | prune, restore, the two switches, pause, pause of one Run; the Question a switch goes to |
| `arOps`, `suspends` | `ar_control_reservations`, applied operations, compensations; the receipt of an applied switch | `RuntimeControl` without the Runs: of the receipt only whether it shows a Run suspended or fenced |
| `aeFresh`, `arFresh` | the previewed revisions | as `fresh` |
| `driver` | none: local variables of `execute_confirmed_command` | two drivers, the web handler and the recovery |

One action per transaction that the code of `execute_confirmed_command` makes, in its
order; the `except` blocks are lists of releases (`Unwinds`) of which each is a
transaction. `ApplyGraph` is two actions because `apply_question_control` verifies the receipt of AR
before it opens its transaction. `Crash` ends both drivers and loses nothing else.

Three things happen at AE without a driver: other writes make previews stale
(`OwnerMoves`), the commit of the source Stage completes a waiting normal switch
(`StageCommitCompletesHandoff`), and a Reasoning successor takes the head to the next
Cycle and clears whatever operation is pending there, which stays prepared
(`ActivateReasoningSuccessor`). After the last one a switch may take the head while a prune goes
on at RG, and lose its target to it. `EndsAtHead` then aborts the switch in place of completing
it, for a driver as for the Stage commit, and the driver that sees it undoes AR's part if
the receipt shows a stopped Run (`InvalidatedPart`): in `CompleteForeground` at once, in
`EnsureSaga` when it finds the operation aborted so.

`ControlOutcome` knows a command's needs, the Owners whose effect is in place, and
whether it is undecided, executed or refused. The mapping (`NeededBy`, `EffectsOf`,
`OutcomeOf`) reads these off the rows: executed when HC has the execution, refused when some
Owner's row is aborted or compensated.

### TimelineSummaries

`nodes`, `jobs` and `native` are the tables of the recorder's database for one Quest. A
content is one of `Hashes`; a node absent from the observed cut is `Gone`. `waiting`
stands for `retry_at`. `worker` is the place of `process_once`, whose transactions are the
actions; `provider` has the durable directory of each job. The batch claimed is any
nonempty set of pending nodes, which covers every size limit; the cadence of scans
is any. Job names are reused once a job has no request, since the code never looks at such a
job again.

### ProviderSupervisor

Files (`ready`, `started`, `sealed`, `stopFile`) are those in the directory of an operation;
`ready` and `started` hold the supervisor they name. `sup` is the place of each supervisor
in `supervise` and `_supervise_locked`, or in `_seal_absent_provider_interruption` of
`streaming_provider_supervisor.py`; `provider` the process group it started. `stopper` is the
check the daemon is in: `request_supervisor_stop` with
`_terminate_or_verify_bound_provider_absent`, or `supervisor_request_never_started`. `stopped`
and `unstarted` are history: which supervisors the daemon has declared stopped or never started. Starting a process is one
step; a reused process number is not modelled, since the code compares command line and environment.

## 4. What the runs check

Every run allows deadlock: the bounds on Epochs, Attempts, operations, launches and changes
stop the system.

| Run | Bounds | Shows |
|---|---|---|
| `FgControls` | 2 Questions, 2 Cycles, 2 Epochs, 2 operations, all eight actions | one live Grant, head and Cycle agree, the pending operation is the head's, no pruned Question is researched |
| `FgSwitching` | 3 Cycles, 3 Epochs, 2 operations, 2 commit calls in flight | switches there and back: the recorded target stays right, Cycles in the background stay suspended, no Stage is repeated; a Stage is closed once although the check and the write of a commit are apart |
| `RtControls` | 2 Runs, 2 Attempts, 2 Epochs, all actions, restarts | every control against every state of a unit; what stops stays stopped, what completes keeps its Fence, a restart leaves frozen Fences alone |
| `RtOverlap` | 1 Run, 3 Attempts, human requests, limits, rejections, restarts, a pause or resume of the Run beside a resume, cancel or prune of its Cycle; fair | only the answer releases a waiting Run; a closed Run is reopened only by the compensation of a control that found it suspended, which fences it; a cancelled Run is reported clean only when it is, and it gets there |
| `Questions` | 4 Questions on three levels, 3 operations, open records only | reservations are exact, records cover what is pruned, no control orphans a Question |
| `Saga` | 2 Questions, 2 commands of 5 kinds (prune, restore, normal and forced switch, pause of one Run), 2 drivers, any number of crashes and successors | a command behaves as `ControlOutcome` says; an aborted one holds neither foreground nor graph; a switch at the head loses its target only to a prune whose operation a successor cleared |
| `Timeline` | 2 nodes, 2 jobs, 2 changes, 2 mishaps; fair | no node is forgotten, one provider at a time, no summary older than its predecessor, every node is read in the end |
| `Supervisor` | 3 supervisors, any of which may be killed; fair | the provider is started once, a receipt or a believed stop is final, a filed stop ends the operation |

Two operations are enough for every race between controls that the code distinguishes:
an operation knows only whether it still holds the head, not how many others there were. Two
Questions give a switch a target; the third Cycle and Epoch let the head return to where it
was. In `RuntimeControl` Runs interact only through `foreground` and the set a control
freezes, so two of them show every pair; three Attempts let a restart and a limit or a
rejection follow each other within one Run before a cancel. In `QuestionControl` three
levels give a prune inside a pruned subtree's parent and a sibling that stays; three
operations are a prune, its restore, and one that crosses both. In `Saga` the
second command is what makes the first stale or takes its foreground;
`Explored` takes the two commands of different kinds and lets a forced switch meet normal
switches only and a pause of one Run nothing else, since it touches AR alone. Both drivers are
at work while only one command is confirmed, and with two where these meet
(`CommandsMeet`: a prune and its restore, a switch beside a prune that is reserved at RG or
lost the head, a switch without its target, a forced switch over a waiting normal one); elsewhere two commands exclude
each other by the head, and one driver at a time, with crashes anywhere, takes them in turn. The
run has some 670 000 distinct states; the theorems have none of these bounds.
A pause, resume, cancel or abandon of a Cycle crosses AE
and AR as a switch does, without a target; the theorems also cover the pause of a Cycle (`CycleKinds`). Three supervisors are one that holds the lock, one
that is dead and one that waits. Two changes let a source move while its summary is being
written and again while that summary is late; two mishaps let a retry fail.

Four more runs show where the program does not do what the repository says. Each
is one property that TLC finds violated, described with the quoted text under
`findings` in `PROJECT.json`:

- `FgEndedReopened`: a pause prepared before the Quest ended suspends the ended head, and
  `query_quest_ending` (`owners/advancement_engine.py`, 2100-2112), which asserts that head and
  Grant of an ended Quest are completed, raises from then on.
- `RtDeadFence`: limit, pause, resume leaves a Run running under a revoked Fence.
- `QuestionSpentRecord`: a restore that names a record used before leaves a newer record
  open over active Questions, and the recovery view of the Quest raises from then on.
- `SagaReservationLeft`: a driver that dies between two releases leaves AR's reservation
  prepared under an aborted saga, which no recovery looks at again.

`RunsUnderALiveFence` and `OpenRecordsArePruned` also appear in a passing run:
`RtControls` has no limits and `Questions` no used records, and without these both hold.

Smaller disagreements seen while modelling, with no run of their own:

- A Reasoning commit that opens the next Cycle takes the head from the normal switch that
  waited for it; the switch stays open (`StrandedOnlyBySuccessor` says this is the only way).
- Cancel, prune, restore, resume reactivate a revoked Grant in its old Epoch.
- A pause prepared before a restart and aborted after it leaves a Run whose unit can
  neither begin again nor is fenced, until the next restart.
- A compensated normal switch, prepared while its Run waited for a human, reopens that Run
  though it has completed or was cancelled since (`owners/agent_runtime.py`, 10022-10056), while
  the docstring of the compensation (`owners/human_collaboration.py:164`) says that a Run
  "must never be reopened". `ClosedStaysClosed` and its theorem state exactly this
  exception, and `CancelledIsCleaned` therefore speaks of Runs that stay terminated.
- A driver that has read AE's operation of a switch before a Stage commit invalidates it
  (`owners/human_collaboration.py:2895`) fails at AE's prepare, which refuses an aborted
  operation, and marks the saga aborted there. AR's suspension is then not compensated by
  anybody, though the docstring at 164-168 says that such switches "do require the durable
  compensation path". `ControlOutcome` allows it: a refused command may leave AR's effect.
- An answer to a human request releases its Run also while the Cycle is paused or the
  foreground has gone elsewhere, and a resume of a single Run runs it while its Cycle is
  paused. `PausedMeansStopped` and `QuietWhenSuspended` are therefore checked without these two
  features, and proved for each Run that is not singled out in this way (section 6).
- The answer looks only for units whose Fence is still to be revoked
  (`owners/agent_runtime.py`, 7751-7860). If a restart fenced the unit of a waiting Run and a
  pause lets that unit be acknowledged, the answer resumes the Run under its revoked Fence.
- A pause of a single Run prepared before a prune and applied after it overwrites
  `suspended_fenced`, and a resume then runs the revoked Attempt: another way to what
  `RtDeadFence` shows.
- The branch of the recovery that sets the cleanup of a terminated Run back to pending because
  of an active unit is never reached: a terminated Run has no active unit.
- The preview of a prune speaks of the active descendants, the prepare refuses a subtree
  with a pruned one.
- A manual Question may be accepted below a parent that was pruned since it was checked, an
  autonomous one below a parent that is pruned; `ControlOrphansNothing` therefore speaks of controls.
- A late mark can set an ended saga back to an open status; the recovery then ends it again.
- `reconcile_once` recovers the oldest open saga only, so a switch that waits for its Stage commit
  keeps later ones waiting until the daemon starts again.
- A recorder job that failed before its session was known is retried in a new session, which
  replaces the Quest's.
- "Never started" is two looks, markers and then `/proc`. A supervisor that publishes and
  starts its provider after the first is missed when it is gone by the second, be it killed
  over the living provider or through with it, receipt and all: the docstring
  (`provider_supervisor.py:795`, "without Popen") says more than the function proves. What
  holds is that no covered supervisor starts anything later (`NeverStartedIsFinal`).

## 5. Fairness

`ForegroundControl`, `QuestionControl` and `ControlSaga` state none: their steps are requests
of humans and workers or drivers that may die, and no property of theirs promises progress.

`RuntimeControl!FairSpec` has weak fairness on `AcknowledgeUnit(r, g)` for each Run and
Attempt: the worker of a live unit always comes back from its call (a provider call
has a deadline), and the daemon's loop calls `reconcile_pending_provider_cleanup` again and
again for units whose Run has a pending cleanup. What is assumed of the provider is that it
eventually proves the end of a process it was told to stop. Units without a worker whose
Run has no pending cleanup are acknowledged by nobody, and the guard of the action says so.

`TimelineSummaries!FairTimeline`: weak fairness of the worker (`web.py` calls `process_once`
from a loop), of the clock and of the end of a provider (it has a time limit). Failures and
restarts are not fair, but bounded by `MaxMishaps`: if everything fails for ever, nothing is read.

`ProviderSupervisor!FairSupervisor`: strong fairness of each supervisor's own steps. It is a
process that nobody suspends, and one that waits for the file lock gets it if the
lock is free again and again. The end of a provider without a stop, kills and launches are
not fair.

## 6. What is proved

The safety properties (invariants and action properties) that the passing runs check are stated by
theorems, for every value of the constants, but for three: `QuietWhenSuspended` and
`PausedMeansStopped` are proved Run by Run, for the Runs that are not singled out, and
`RunsUnderALiveFence` is only model-checked. Where a theorem excludes something, the
hypothesis is in its statement and the reason below.

`ForegroundControlProofs` proves, for every set of Questions, every tree, every choice of
actions and every bound (only `ForegroundControl`'s assumptions on its constants), all
properties of `FgControls` and `FgSwitching`.

The argument starts with one inductive invariant, `ForegroundInvariant` (`IInv`), the
conjunction of

- `TypeOK`;
- `OpenOperationsRecorded`: what an open operation recorded when it was prepared exists;
- `PendingIsCurrent`: the pending operation is open and was prepared for the head's Cycle and
  Epoch. Needed because completing a control changes the head through the operation's record;
- `SoleActiveGrant` and `GrantOfHead`: only the Grant of the head's Epoch may be active and
  it is of the head's Cycle. The second half is not visible in any property but without
  it a new Epoch could leave the Grant of another Cycle active;
- `HeadMatchesCycle`: without it an `Advance` could move a Cycle the head does not show.

`TypeCorrect`, `OneGrant`, `PendingCurrent`, `HeadAgrees` and the action property
`ResearchGoesOneWay` follow from it. On top of it stand three invariants, each inductive with
`IInv` alone (all three were checked on `FgControls` and `FgSwitching` before they were proved):

- `CommitsInOrder` (`CommitsStayInOrder`; hence `ClosedOnce`, `OnlyPassedCommitted`). The commit
  calls in flight need no invariant of their own: a write is right because `Advance` looks again
  at the head, whose Stage is that of its Cycle, and because no Cycle goes back
  (`ResearchGoesOneWay`), so a Stage that was passed is never the head's again.
  `CommitsOfCycles` says that commits and calls are of Cycles that have a row: otherwise a new
  Cycle could start behind a commit of its own.
- `LeftBehind` (`ControlsLeaveOrder`; hence `BackgroundSuspended`, `OnlySuccessorsStrand`,
  `TargetStaysFresh`). `SwitchLeavesQuestion`, that a pending switch goes to another Question
  than the head's, is what keeps its target fresh: nothing that happens to the head's Cycle
  touches the Cycles of the target.
- `HeadCanWork` (`HeadsCanWork`; hence `ActiveHeadsHaveGrants`, `ActiveQuestionsPresent`).
  `PresentOrPruning` is `ActiveQuestionPresent` for the heads a pending resume will make active as
  well. `GrantOfSuspended` says in what state a suspended head's Grant is, since a
  resume revives it. `GrantAtWork` excludes only operations that are stranded *and applied to the
  graph*: one that is stranded and not applied may still be aborted, after which the property
  must hold again. `RestoreFindsStranded` says that a restore brings the Question of an active
  head back only after a prune of it was stranded.

`RuntimeControlProofs` proves, for every set of Runs, every choice of controls and
features and every bound (only `RuntimeAssumption`): `RuntimeTypeCorrect`,
`CompletedLive` (a completed Run is completed under a Fence that is never revoked) and
`OnlyCompensationReopens`: of all transactions, `Compensate` is the only one that can give a
closed Run another status.
The invariant, `RuntimeInvariant`, is the conjunction of

- `TypeOK`;
- `CompletedUnderALiveFence`;
- `FrozenClosedKept`: a Run that was closed when the control of the Cycle froze it still
  has that status. Needed because `Compensate` writes the frozen status back: without it a
  compensation could make a Run "completed" whose Fence was closed otherwise.

All actions but `PrepareControl`, `CompleteRun` and `Compensate` are shown to be `Safe`:
they keep closed Runs and their Fences, complete no Run and leave what was frozen. One
lemma (`SafeKeepsIInv`) derives the invariant from that; the three others have proofs of
their own.

`RuntimeStopsProofs` builds three more on top of it.

- `AttemptsInOrder` (`AttemptsStayInOrder`; hence `AnswerBeforeRunning`, `CleanedUpMeansStopped`).
  Nothing of a Run is ahead of its Attempt (`NothingAhead`), so a successor starts with a clean
  slot, and active units are equal (`ActiveAlone`).
- `HeadShown` (`HeadsAreShown`). AE's head and AR's control are two Owners' rows; this says
  how they agree between the steps of a saga.
- `Stops(r)` of one Run (`StopsAreKept`; hence `SuspendedIsQuiet`, `PausedIsStopped`), as long as
  that very Run is not singled out: no human request of it is answered and no control of it alone
  begins (`SingledOut`). Both are meant to let one Run go on inside a stopped Cycle, and then
  the two properties fail (section 4). Every other Run may be answered and controlled meanwhile,
  which is why the hypothesis is about `r` and not about the program. `StoppedCycle` says what a Cycle
  stopped by AE looks like to AR, and `FrozenStaysSuspended` that a Run which a control froze
  suspended is so until it releases or ends it: otherwise a compensation could put it back.

`ClosedForGood` and `FrozenFencesAreKept` need no hypothesis. The first follows from the invariant
of `RuntimeControlProofs`: `Compensate` gives a closed Run the status that was frozen, which is
that status itself or, for a Run frozen while it waited for a human, "suspended_fenced". The
second goes through every action that revokes a Fence and finds the control that took it.
`RunsUnderALiveFence` is left to the runs: it fails with provider limits (`RtDeadFence`) and in
the other ways that section 4 lists, and a theorem that excludes them all would say little.

`QuestionControlProofs` proves, for every tree of Questions and every set of operations (only
`TreeAssumption`): `QuestionTypeCorrect`, `FrozenScope`, `OrphansNothing` and, for
`~SpentRecords`, `RecoveryIsExact` and `PrunedStaysRecoverable`. The last two are stated under
that assumption because they fail without it (`QuestionSpentRecord`). The invariant
`QuestionInvariant` says that a
reservation that is still current is exact (`FrozenScopeHolds`), that what it froze is
connected to its root (`FrozenSets`, needed to show that a restore leaves nothing below a
pruned parent), and that restores name records of applied prunes. `RecordsInvariant` adds, for
open records, that their members are pruned, that they are disjoint and cover what is pruned.
The subtree of a root is treated as the least set closed
under accepted children, so that no induction over the tree is needed.

`ProviderSupervisorProofs` proves, for every set of supervisors (only
`SupervisorAssumption`): `OneProvider`, `SealIsOver`, `StopFinal`, `NeverStartedFinal` and the
types. The invariant says who may be where: whoever starts, watches or seals holds the lock
(`LockHeld`), the ready marker names the only supervisor that ever has a provider
(`ReadyNames`), a receipt comes after the markers (`MarkersOrder`), nothing runs while
an interruption is sealed, and what the daemon has concluded stays so (`DaemonSaw`,
`StoppedAreSilent`, `UnstartedAreGone`).

`TimelineSummariesProofs` proves, for every set of nodes, contents and jobs and every bound (only
the assumptions on the constants): `TimelineTypeCorrect`, `EveryNodeRemembered`, `NoOverlap` and
the action property `SentencesMoveOn`. The invariant, `TimelineInvariant`, adds to the
properties

- `OneActiveJob`: `claim` takes up an active job before it makes another one active. Without it a
  second job could take the nodes of the first;
- `RevisionsOf`: neither a summary nor a request is about a later cut than the one observed last.
  Otherwise `publish`, which passes over a node whose sentence is newer, could leave a node
  "updating" with no job;
- `FailedIsCurrent`: a failed job is about the cut of all its nodes, since every observation
  retires the failed jobs it supersedes;
- `WorkerPlaced`: the job the worker is at is the active one, and it is decided only when its
  provider has ended. `NoOverlap` needs it, since a worker may die and leave its provider.

It was checked on the whole `Timeline` instance before it was proved.

`ControlSagaProofs` proves, for every tree of Questions, every set of commands and every
number of drivers (only the assumptions on the constants), that `ControlSaga` implements
`ControlOutcome` (`SagaImplementsOutcome`), that what this promises holds of the saga's own rows
(`CommandsAllOrNothing`, `CommandsDecidedOnce`, through the mapping), that an aborted command holds
neither foreground nor graph (`AbortedCommandsFree`), how the target of a switch can be lost
(`SwitchTargets`), and that the graph inside the saga behaves as `QuestionControl`
(`SagaDrivesQuestions`), whose theorems about prunes and restores therefore hold of it. The
invariant, `SagaInvariant`, is the conjunction of

- `SagaTypeOK` and `QuestionInvariant`;
- `CurrentPrepared`: only reservations that are still prepared are current;
- `RowsOK`: for each command, its rows at the four Owners fit. It touches only the Owners it
  needs (`OnlyNeededRows`); they prepare in the order AE, RG, AR and act in the order AR, RG, AE
  (`OwnersInOrder`); an Owner gives up only when the command cannot go on any more
  (`ReleasedForGood`, with `GraphLost` and `ForegroundLost`); HC records an execution only when
  every Owner has acted (`ExecutedInFull`); a previewed command whose AE revision is current can
  still take the head, since every write that closes the head makes it stale (`FreshCanTake`); a
  switch that has the head, or still could take it, has an active target, or a prune that lost
  the head to a successor has taken it (`TargetActive`, `TargetHeld`, `StrandedPrune`). The last
  two belong together: a prune that does hold the head excludes a fresh switch, and one that lost it
  stays stranded, so what it takes from a switch is accounted for;
- `DriversOK`: each driver stands where the rows of its command allow (`Placed`), and the
  releases it has left are those of what it found lost (`Unwinding`).

Two drivers may work on one command, so what a driver has seen is of use only if it stays true.
`GraphGoesOn` and `OwnersGoOn` say what no step of anybody undoes (an aborted reservation stays
aborted, an outdated one is never current again, an applied one stays applied);
`OthersKept` concludes that a driver that takes no step keeps its footing, and
`DriverStepKeeps` reduces each step to its own command. For the refinement every step of a
driver maps to `Act`, `Execute`, `Refuse` or `Undo` of its command or to a stutter, and
`Confirm` to `Confirm`; `ForegroundActs` covers the Stage commit that completes a waiting
switch without any driver.

Only model-checked: progress. `CancelledIsCleaned`, `EventuallyRead` and `StopReachesBoundary`
are liveness properties under fairness, which are out of the prover's reach, as are ENABLED and
induction over data. So is what the four runs that expect a violation show: counterexamples
are TLC's.

## 7. Not modelled

Receipts, hashes and idempotency keys (a repeated call returns the stored receipt: the
step does not happen twice); payloads and their validation; `expected_revision`
conflicts of `ForegroundControl` and `RuntimeControl` (`ControlSaga` has them); several Quests in one
database; Bundle's targets and their own Runs; DeepFetch Runs under control; the two phases of
an Attempt; a second control of a single Run before the first one ended; the order in which
recovery takes sagas; Windows processes; and the components that section 1 names and
section 3 does not: most of their code builds and validates payloads, and the parts with
control of their own are the open points of the plan.
