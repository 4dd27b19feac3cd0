------------------------ MODULE RuntimeControlProofs ------------------------
(***************************************************************************)
(* Type correctness of the managed Runs, and what a completed Run may rely *)
(* on, for every set of Runs, every choice of controls and features and    *)
(* every bound: RuntimeControl's TypeOK and CompletedUnderALiveFence, and  *)
(* that nothing but a compensation takes a closed Run out of its status.   *)
(*                                                                         *)
(* CompletedUnderALiveFence is not inductive: a compensation writes back   *)
(* the status that the control froze, possibly "completed", and is right   *)
(* only because a Run that was closed when it was frozen is still closed   *)
(* (FrozenClosedKept).                                                     *)
(***************************************************************************)
EXTENDS RuntimeControl, TLAPS

(* A Run that was closed when the control of the Cycle was prepared.       *)
FrozenClosedKept ==
  \A r \in Runs : Head.frozen[r] \in ClosedStatus =>
    run[r].status = Head.frozen[r]

IInv == TypeOK /\ FrozenClosedKept /\ CompletedUnderALiveFence

(* The step leaves closed Runs as they are, and a completed one its Fence. *)
ClosedKept ==
  \A r \in Runs :
    /\ Closed(r) => run'[r].status = run[r].status /\ run'[r].gen = run[r].gen
    /\ run[r].status = "completed" =>
         /\ fences'[r][run[r].gen] = fences[r][run[r].gen]
         /\ <<r, run[r].gen>> \in revoked' => <<r, run[r].gen>> \in revoked

(* The step completes no Run.                                              *)
NoneCompletes ==
  \A r \in Runs : run'[r].status = "completed" => run[r].status = "completed"

(* The control of the Cycle keeps what it froze, or starts or ends.        *)
FrozenKept ==
  \A r \in Runs : Head'.frozen[r] \in {Head.frozen[r], "none"}

-----------------------------------------------------------------------------
(* Types                                                                   *)

(* A Control without Runs, and the constants of the records.               *)
LEMMA Typed ==
  /\ NoControl \in Control
  /\ MaxGen \in Nat \ {0} /\ MaxEpoch \in Nat \ {0}
  /\ \A g \in Gens : g < MaxGen => g + 1 \in Gens
  /\ 1 \in Gens /\ 1 \in Epochs
  /\ Gens \subseteq Nat
<1>1. NoControl \in Control
  BY DEF NoControl, Control, RunStatus
<1>. QED
  BY <1>1, RuntimeAssumption DEF Gens, Epochs

(* Nothing has happened yet.                                               *)
LEMMA InitIInv == Init => IInv
<1>. SUFFICES ASSUME Init PROVE IInv
  OBVIOUS
<1>. USE Typed DEF Init
<1>1. run \in [Runs -> Run]
  BY DEF Run, RunStatus, Reason
<1>2. fences \in [Runs -> [Gens -> {"none", "current", "submitted",
                                    "rejected", "completed"}]]
  OBVIOUS
<1>3. units \in [Runs -> [Gens -> {"none", "completed", "revoked"} \cup Live]]
  OBVIOUS
<1>4. /\ operation \in [Runs -> [Gens -> 0..MaxGen]]
      /\ waiter \in [Runs -> 0..MaxGen]
  OBVIOUS
<1>5. control \in [Slots -> Control] /\ foreground \in Foreground
  BY DEF Foreground
<1>6. TypeOK
  BY <1>1, <1>2, <1>3, <1>4, <1>5 DEF TypeOK
<1>7. FrozenClosedKept
  BY DEF FrozenClosedKept, Head, NoControl, ClosedStatus, Slots
<1>8. CompletedUnderALiveFence
  BY DEF CompletedUnderALiveFence
<1>. QED
  BY <1>6, <1>7, <1>8 DEF IInv

(* Touching a control changes nothing of what it froze.                    *)
LEMMA TouchedTypes ==
  ASSUME TypeOK, NEW R \in SUBSET Runs, NEW N \in SUBSET Runs
  PROVE  /\ Touched(R, N) \in [Slots -> Control]
         /\ \A c \in Slots : Touched(R, N)[c].frozen = control[c].frozen
<1>. USE DEF TypeOK, Touched
<1>1. ASSUME NEW c \in Slots
      PROVE  /\ Touched(R, N)[c] \in Control
             /\ Touched(R, N)[c].frozen = control[c].frozen
  BY <1>1 DEF Control
<1>. QED
  BY <1>1

(* A replaced Attempt leaves a Run with a next generation, and the Fence   *)
(* and operation tables well formed (_replace_fenced_managed_attempt).     *)
LEMMA ReplaceTypes ==
  ASSUME TypeOK, NEW N \in SUBSET Runs, NEW X, NEW Y, Replace(N, X, Y)
  PROVE  /\ fences' \in [Runs -> [Gens -> {"none", "current", "submitted",
                                           "rejected", "completed"}]]
         /\ operation' \in [Runs -> [Gens -> 0..MaxGen]]
         /\ \A r \in N : Gen(r) + 1 \in Gens
         /\ \A r \in Runs \ N : fences'[r] = fences[r]
<1>. USE Typed DEF TypeOK, Replace
<1>1. \A r \in Runs : Gen(r) \in Gens
  BY DEF Gen, Run
<1>2. \A r \in N : Gen(r) + 1 \in Gens
  BY <1>1 DEF Replaceable
<1>3. ASSUME NEW r \in Runs
      PROVE  fences'[r] \in [Gens -> {"none", "current", "submitted",
                                      "rejected", "completed"}]
  BY <1>1, <1>2 DEF Rejected
<1>4. ASSUME NEW r \in Runs
      PROVE  operation'[r] \in [Gens -> 0..MaxGen]
  <2>1. Gen(r) \in 0..MaxGen /\ (r \in N => Gen(r) + 1 \in 0..MaxGen)
    BY <1>1, <1>2 DEF Gens
  <2>. QED
    BY <1>1, <1>2, <2>1
<1>. QED
  BY <1>2, <1>3, <1>4

(* The control row of a Run that goes on in a new Attempt.                 *)
LEMMA SuccessorTypes ==
  ASSUME TypeOK, NEW r \in Runs, Gen(r) + 1 \in Gens
  PROVE  /\ Successor(r) \in Run
         /\ Successor(r).status = "running"
         /\ Successor(r).gen = Gen(r) + 1
BY DEF TypeOK, Successor, Run, RunStatus, Reason, Gen

(* A control row written by an applied control.                            *)
LEMMA RowTypes ==
  ASSUME TypeOK, NEW r \in Runs, NEW s \in RunStatus,
         NEW cleanup \in {"none", "pending", "completed"}
  PROVE  /\ Row(r, s, cleanup) \in Run
         /\ Row(r, s, cleanup).status = s
         /\ Row(r, s, cleanup).gen = Gen(r)
BY DEF TypeOK, Row, Run, Reason, Gen

(* The row of one Run is written.                                          *)
LEMMA RowPut ==
  ASSUME TypeOK, NEW r \in Runs, NEW row \in Run,
         run' = [run EXCEPT ![r] = row]
  PROVE  /\ run' \in [Runs -> Run] /\ run'[r] = row
         /\ \A t \in Runs \ {r} : run'[t] = run[t]
BY DEF TypeOK

(* The row of one Run gets a status, a reason and a cleanup status.        *)
LEMMA RowUpdateTypes ==
  ASSUME TypeOK, NEW r \in Runs, NEW s \in RunStatus, NEW reason \in Reason,
         NEW cleanup \in {"none", "pending", "completed"},
         run' = [run EXCEPT ![r].status = s, ![r].reason = reason,
                            ![r].cleanup = cleanup]
  PROVE  /\ run' \in [Runs -> Run]
         /\ run'[r].status = s /\ run'[r].gen = Gen(r)
         /\ \A t \in Runs \ {r} : run'[t] = run[t]
<1>. DEFINE row == [run[r] EXCEPT !.status = s, !.reason = reason,
                                  !.cleanup = cleanup]
<1>1. run \in [Runs -> Run] /\ run[r] \in Run
  BY DEF TypeOK
<1>2. row \in Run /\ row.status = s /\ row.gen = Gen(r)
  BY <1>1 DEF Run, Gen
<1>3. run' = [run EXCEPT ![r] = row]
  BY <1>1
<1>. HIDE DEF row
<1>4. /\ run' \in [Runs -> Run] /\ run'[r] = row
      /\ \A t \in Runs \ {r} : run'[t] = run[t]
  BY <1>2, <1>3, RowPut
<1>. QED
  BY <1>2, <1>4

(* A step that keeps closed Runs, completes none and keeps what the        *)
(* control of the Cycle froze preserves the invariant.                     *)
Safe == TypeOK' /\ ClosedKept /\ NoneCompletes /\ FrozenKept

LEMMA SafeKeepsIInv == ASSUME IInv, Safe PROVE IInv'
<1>. USE DEF IInv, Safe
<1>1. FrozenClosedKept'
  <2>. SUFFICES ASSUME NEW r \in Runs, Head'.frozen[r] \in ClosedStatus
                PROVE  run'[r].status = Head'.frozen[r]
    BY DEF FrozenClosedKept
  <2>1. Head'.frozen[r] = Head.frozen[r]
    BY DEF FrozenKept, ClosedStatus
  <2>2. run[r].status = Head.frozen[r] /\ Closed(r)
    BY <2>1 DEF FrozenClosedKept, Closed
  <2>. QED
    BY <2>1, <2>2 DEF ClosedKept
<1>2. CompletedUnderALiveFence'
  <2>. SUFFICES ASSUME NEW r \in Runs, run'[r].status = "completed"
                PROVE  /\ fences'[r][run'[r].gen] = "completed"
                       /\ <<r, run'[r].gen>> \notin revoked'
    BY DEF CompletedUnderALiveFence, FenceOf, FenceRevoked, Gen
  <2>1. run[r].status = "completed" /\ Closed(r)
    BY DEF NoneCompletes, Closed, ClosedStatus
  <2>2. run'[r].gen = run[r].gen
    BY <2>1 DEF ClosedKept
  <2>3. fences[r][run[r].gen] = "completed" /\ <<r, run[r].gen>> \notin revoked
    BY <2>1 DEF CompletedUnderALiveFence, FenceOf, FenceRevoked, Gen
  <2>. QED
    BY <2>1, <2>2, <2>3 DEF ClosedKept
<1>. QED
  BY <1>1, <1>2

(* Nothing changes but foreground, units and controls that keep what they  *)
(* froze.                                                                  *)
LEMMA RunsUnchangedSafe ==
  ASSUME TypeOK, TypeOK', FrozenKept, UNCHANGED <<run, fences, revoked>>
  PROVE  Safe
BY DEF Safe, ClosedKept, NoneCompletes

-----------------------------------------------------------------------------
(* Admission and provider units                                            *)

LEMMA AdmitSafe == ASSUME TypeOK, NEW r \in Runs, Admit(r) PROVE Safe
<1>. USE Typed DEF Admit
<1>1. TypeOK'
  <2>1. run' \in [Runs -> Run]
    BY DEF TypeOK, Run, RunStatus, Reason, Foreground
  <2>2. fences' \in [Runs -> [Gens -> {"none", "current", "submitted",
                                       "rejected", "completed"}]]
    BY DEF TypeOK
  <2>3. operation' \in [Runs -> [Gens -> 0..MaxGen]]
    BY DEF TypeOK
  <2>. QED
    BY <2>1, <2>2, <2>3 DEF TypeOK
<1>2. ClosedKept /\ NoneCompletes
  BY DEF TypeOK, ClosedKept, NoneCompletes, Closed, ClosedStatus, Run
<1>3. FrozenKept
  BY DEF FrozenKept, Head
<1>. QED
  BY <1>1, <1>2, <1>3 DEF Safe

LEMMA RebindSafe == ASSUME TypeOK, NEW r \in Runs, Rebind(r) PROVE Safe
<1>. USE DEF Rebind
<1>1. Replace({r}, {r}, {})
  OBVIOUS
<1>2. /\ fences' \in [Runs -> [Gens -> {"none", "current", "submitted",
                                        "rejected", "completed"}]]
      /\ operation' \in [Runs -> [Gens -> 0..MaxGen]]
      /\ Gen(r) + 1 \in Gens
      /\ \A s \in Runs \ {r} : fences'[s] = fences[s]
  BY <1>1, ReplaceTypes
<1>3. /\ Touched({r}, {r}) \in [Slots -> Control]
      /\ Touched({r}, {r})["cycle"].frozen = control["cycle"].frozen
  BY TouchedTypes DEF Slots
<1>4. Successor(r) \in Run /\ Successor(r).status = "running"
  BY <1>2, SuccessorTypes
<1>5. run' \in [Runs -> Run]
  BY <1>4 DEF TypeOK, Run, Foreground
<1>6. TypeOK'
  BY <1>2, <1>3, <1>5 DEF TypeOK
<1>7. ClosedKept /\ NoneCompletes
  BY <1>2, <1>4 DEF TypeOK, ClosedKept, NoneCompletes, Closed, ClosedStatus, Run
<1>8. FrozenKept
  BY <1>3 DEF FrozenKept, Head
<1>. QED
  BY <1>6, <1>7, <1>8 DEF Safe

LEMMA BeginUnitSafe == ASSUME TypeOK, NEW r \in Runs, BeginUnit(r) PROVE Safe
<1>1. TypeOK'
  BY DEF TypeOK, BeginUnit, Live
<1>. QED
  BY <1>1, RunsUnchangedSafe DEF BeginUnit, FrozenKept, Head

(* Only the units and the cleanup status of a row change.                  *)
LEMMA AcknowledgeUnitSafe ==
  ASSUME TypeOK, NEW r \in Runs, NEW g \in Gens, AcknowledgeUnit(r, g)
  PROVE  Safe
<1>. USE DEF AcknowledgeUnit
<1>1. Acknowledged(r, g) \in [Gens -> {"none", "completed", "revoked"} \cup Live]
  BY DEF TypeOK, Acknowledged
<1>2. CleanupAfter(r, Acknowledged(r, g)) \in {"none", "pending", "completed"}
  BY DEF TypeOK, Run, CleanupAfter
<1>3. /\ run' \in [Runs -> Run]
      /\ \A s \in Runs : run'[s].status = run[s].status /\ run'[s].gen = run[s].gen
  BY <1>2 DEF TypeOK, Run
<1>4. TypeOK'
  <2>1. units' \in [Runs -> [Gens -> {"none", "completed", "revoked"} \cup Live]]
    BY <1>1 DEF TypeOK
  <2>2. orphans' \subseteq Runs \X Gens
    BY DEF TypeOK
  <2>. QED
    BY <1>3, <2>1, <2>2 DEF TypeOK
<1>5. ClosedKept /\ NoneCompletes
  BY <1>3 DEF ClosedKept, NoneCompletes
<1>. QED
  BY <1>4, <1>5 DEF Safe, FrozenKept, Head

(* The step of a single Run that was running or suspended: its row and its *)
(* Fences change, the other Runs do not.                                   *)
LEMMA OneRunSafe ==
  ASSUME TypeOK, TypeOK', NEW r \in Runs, ~Closed(r),
         run'[r].status # "completed",
         \A s \in Runs \ {r} : run'[s] = run[s] /\ fences'[s] = fences[s],
         revoked' \ revoked \subseteq {r} \X Gens,
         Head'.frozen = Head.frozen
  PROVE  Safe
<1>1. ClosedKept /\ NoneCompletes
  BY DEF ClosedKept, NoneCompletes, Closed, ClosedStatus
<1>2. FrozenKept
  BY DEF FrozenKept
<1>. QED
  BY <1>1, <1>2 DEF Safe

LEMMA HardCeilingSafe ==
  ASSUME TypeOK, NEW r \in Runs, NEW reason \in {"ceiling", "codex_operation_stopped"},
         HardCeiling(r, reason)
  PROVE  Safe
<1>. USE DEF HardCeiling
<1>1. Running(r)
  BY DEF Allows
<1>2. Gen(r) \in Gens
  BY DEF TypeOK, Run, Gen
<1>3. /\ Touched({r}, {}) \in [Slots -> Control]
      /\ Touched({r}, {})["cycle"].frozen = control["cycle"].frozen
  BY TouchedTypes DEF Slots
<1>4. /\ run' \in [Runs -> Run] /\ run'[r].status = "suspended_fenced"
      /\ \A s \in Runs \ {r} : run'[s] = run[s]
  BY RowUpdateTypes DEF RunStatus, SuspendedStatus, Reason
<1>5. fences' \in [Runs -> [Gens -> {"none", "current", "submitted",
                                    "rejected", "completed"}]]
  BY <1>2 DEF TypeOK, Rejected
<1>6. units' \in [Runs -> [Gens -> {"none", "completed", "revoked"} \cup Live]]
  BY <1>2 DEF TypeOK
<1>7. revoked' \subseteq Runs \X Gens
  BY <1>2 DEF TypeOK
<1>8. TypeOK'
  BY <1>3, <1>4, <1>5, <1>6, <1>7 DEF TypeOK
<1>9. /\ \A s \in Runs \ {r} : fences'[s] = fences[s]
      /\ revoked' \ revoked \subseteq {r} \X Gens
  BY <1>2 DEF TypeOK
<1>10. ~Closed(r)
  BY <1>1 DEF Running, Closed, ClosedStatus
<1>. QED
  BY <1>3, <1>4, <1>8, <1>9, <1>10, OneRunSafe DEF Head

-----------------------------------------------------------------------------
(* What an Attempt returns, and human requests                             *)

(* A successor takes over from a running Attempt.                          *)
LEMMA RejectionSafe ==
  ASSUME TypeOK, NEW r \in Runs, Running(r), Replace({r}, {r}, {r}),
         units' \in [Runs -> [Gens -> {"none", "completed", "revoked"} \cup Live]],
         run' = [run EXCEPT ![r] = Successor(r)],
         control' = Touched({r}, {r}),
         UNCHANGED <<revoked, orphans, waiter, foreground>>
  PROVE  Safe
<1>1. /\ fences' \in [Runs -> [Gens -> {"none", "current", "submitted",
                                        "rejected", "completed"}]]
      /\ operation' \in [Runs -> [Gens -> 0..MaxGen]]
      /\ Gen(r) + 1 \in Gens
      /\ \A s \in Runs \ {r} : fences'[s] = fences[s]
  BY ReplaceTypes
<1>2. /\ Touched({r}, {r}) \in [Slots -> Control]
      /\ Touched({r}, {r})["cycle"].frozen = control["cycle"].frozen
  BY TouchedTypes DEF Slots
<1>3. Successor(r) \in Run /\ Successor(r).status = "running"
  BY <1>1, SuccessorTypes
<1>4. /\ run' \in [Runs -> Run] /\ run'[r].status = "running"
      /\ \A s \in Runs \ {r} : run'[s] = run[s]
  BY <1>3 DEF TypeOK
<1>5. TypeOK'
  BY <1>1, <1>2, <1>4 DEF TypeOK
<1>6. ~Closed(r)
  BY DEF Running, Closed, ClosedStatus
<1>. QED
  BY <1>1, <1>2, <1>4, <1>5, <1>6, OneRunSafe DEF Head

LEMMA RejectCandidateSafe ==
  ASSUME TypeOK, NEW r \in Runs, RejectCandidate(r) PROVE Safe
<1>1. units' \in [Runs -> [Gens -> {"none", "completed", "revoked"} \cup Live]]
  BY DEF TypeOK, RejectCandidate
<1>. QED
  BY <1>1, RejectionSafe DEF RejectCandidate

LEMMA ContinueAfterRejectionSafe ==
  ASSUME TypeOK, NEW r \in Runs, ContinueAfterRejection(r) PROVE Safe
<1>1. units' \in [Runs -> [Gens -> {"none", "completed", "revoked"} \cup Live]]
  BY DEF TypeOK, ContinueAfterRejection
<1>. QED
  BY <1>1, RejectionSafe DEF ContinueAfterRejection, Allows

LEMMA SubmitSafe == ASSUME TypeOK, NEW r \in Runs, Submit(r) PROVE Safe
<1>. USE DEF Submit
<1>1. fences' \in [Runs -> [Gens -> {"none", "current", "submitted",
                                    "rejected", "completed"}]]
  BY DEF TypeOK
<1>2. TypeOK'
  BY <1>1 DEF TypeOK
<1>3. ~Closed(r) /\ run[r].status # "completed"
  BY DEF Allows, Running, Closed, ClosedStatus
<1>4. \A s \in Runs \ {r} : run'[s] = run[s] /\ fences'[s] = fences[s]
  BY DEF TypeOK
<1>. QED
  BY <1>2, <1>3, <1>4, OneRunSafe DEF Head

LEMMA OpenHumanRequestSafe ==
  ASSUME TypeOK, NEW r \in Runs, OpenHumanRequest(r) PROVE Safe
<1>. USE DEF OpenHumanRequest
<1>1. Gen(r) \in 0..MaxGen
  BY Typed DEF TypeOK, Run, Gen, Gens
<1>2. /\ run' \in [Runs -> Run] /\ run'[r].status = "suspended"
      /\ \A s \in Runs \ {r} : run'[s] = run[s]
  <2>. DEFINE row == [run[r] EXCEPT !.status = "suspended",
                                    !.reason = "human_request_wait"]
  <2>1. run \in [Runs -> Run] /\ run[r] \in Run
    BY DEF TypeOK
  <2>2. row \in Run /\ row.status = "suspended"
    BY <2>1 DEF Run, RunStatus, SuspendedStatus, Reason
  <2>3. run' = [run EXCEPT ![r] = row]
    BY <2>1
  <2>. HIDE DEF row
  <2>. QED
    BY <2>2, <2>3, RowPut
<1>3. /\ Touched({r}, {}) \in [Slots -> Control]
      /\ Touched({r}, {})["cycle"].frozen = control["cycle"].frozen
  BY TouchedTypes DEF Slots
<1>4. TypeOK'
  BY <1>1, <1>2, <1>3 DEF TypeOK
<1>5. ~Closed(r)
  BY DEF Running, Closed, ClosedStatus
<1>. QED
  BY <1>2, <1>3, <1>4, <1>5, OneRunSafe DEF Head

(* The Attempt goes on, or its successor if the one that asked was fenced. *)
LEMMA AnswerHumanRequestSafe ==
  ASSUME TypeOK, NEW r \in Runs, AnswerHumanRequest(r) PROVE Safe
<1>. DEFINE N == IF AskedByFencedUnit(r) THEN {r} ELSE {}
            running == [run[r] EXCEPT !.status = "running", !.reason = "none"]
<1>1. /\ run[r].status = "suspended"
      /\ waiter' = [waiter EXCEPT ![r] = 0]
      /\ Replace(N, N, {})
      /\ run' = [run EXCEPT ![r] = IF N = {} THEN running
                                   ELSE [running EXCEPT !.gen = @ + 1]]
      /\ control' = Touched({r}, N)
      /\ UNCHANGED <<revoked, units, orphans, foreground>>
  BY DEF AnswerHumanRequest
<1>2. N \in SUBSET Runs /\ N \in SUBSET {r}
  OBVIOUS
<1>. HIDE DEF N
<1>3. /\ fences' \in [Runs -> [Gens -> {"none", "current", "submitted",
                                        "rejected", "completed"}]]
      /\ operation' \in [Runs -> [Gens -> 0..MaxGen]]
      /\ \A s \in N : Gen(s) + 1 \in Gens
      /\ \A s \in Runs \ N : fences'[s] = fences[s]
  BY <1>1, <1>2, ReplaceTypes
<1>4. /\ Touched({r}, N) \in [Slots -> Control]
      /\ Touched({r}, N)["cycle"].frozen = control["cycle"].frozen
  BY <1>2, TouchedTypes DEF Slots
<1>5. running \in Run /\ running.status = "running" /\ running.gen = Gen(r)
  BY DEF TypeOK, Run, RunStatus, Reason, Gen
<1>6. N # {} => Gen(r) + 1 \in Gens
  BY <1>2, <1>3
<1>7. N # {} => /\ [running EXCEPT !.gen = @ + 1] \in Run
                /\ [running EXCEPT !.gen = @ + 1].status = "running"
  BY <1>5, <1>6 DEF Run
<1>8. /\ run' \in [Runs -> Run] /\ run'[r].status = "running"
      /\ \A s \in Runs \ {r} : run'[s] = run[s]
  BY <1>1, <1>5, <1>7 DEF TypeOK
<1>9. waiter' \in [Runs -> 0..MaxGen]
  BY <1>1, Typed DEF TypeOK
<1>10. TypeOK'
  BY <1>1, <1>3, <1>4, <1>8, <1>9 DEF TypeOK
<1>11. ~Closed(r)
  BY <1>1 DEF Closed, ClosedStatus
<1>. QED
  BY <1>1, <1>2, <1>3, <1>4, <1>8, <1>10, <1>11, OneRunSafe DEF Head

(* The one step that completes a Run does so under its live Fence.         *)
LEMMA CompleteRunKeepsIInv ==
  ASSUME IInv, NEW r \in Runs, CompleteRun(r)
  PROVE  IInv' /\ ClosedKept
<1>. USE DEF CompleteRun, MayComplete, IInv
<1>1. Gen(r) \in Gens
  BY DEF TypeOK, Run, Gen
<1>2. /\ run' \in [Runs -> Run] /\ run'[r].status = "completed"
      /\ run'[r].gen = Gen(r)
      /\ \A s \in Runs \ {r} : run'[s] = run[s]
  BY RowUpdateTypes DEF RunStatus, ClosedStatus, Reason
<1>3. /\ Touched({r}, {}) \in [Slots -> Control]
      /\ Touched({r}, {})["cycle"].frozen = control["cycle"].frozen
  BY TouchedTypes DEF Slots
<1>4. /\ fences' \in [Runs -> [Gens -> {"none", "current", "submitted",
                                        "rejected", "completed"}]]
      /\ fences'[r][Gen(r)] = "completed"
      /\ \A s \in Runs \ {r} : fences'[s] = fences[s]
  BY <1>1 DEF TypeOK
<1>5. TypeOK'
  BY <1>2, <1>3, <1>4 DEF TypeOK
<1>6. ~Closed(r) /\ <<r, Gen(r)>> \notin revoked
  BY DEF Allows, Running, Closed, ClosedStatus, FenceRevoked
<1>7. ClosedKept
  BY <1>2, <1>4, <1>6 DEF ClosedKept, Closed, ClosedStatus
<1>8. FrozenClosedKept'
  BY <1>2, <1>3, <1>6 DEF FrozenClosedKept, Head, Closed, ClosedStatus
<1>9. CompletedUnderALiveFence'
  BY <1>2, <1>4, <1>6
     DEF CompletedUnderALiveFence, FenceOf, FenceRevoked, Gen
<1>. QED
  BY <1>5, <1>7, <1>8, <1>9

-----------------------------------------------------------------------------
(* Restart                                                                 *)

(* Recovery gives successors only to Runs that are running or that stopped *)
(* with the daemon, and never fences a unit of a completed Run.            *)
LEMMA RestartSafe == ASSUME TypeOK, Restart PROVE Safe
<1>. PICK done \in SUBSET {u \in (Runs \X Gens) \ orphans :
                            units[u[1]][u[2]] \in Live} :
       LET replaced == {r \in Runs : Running(r) /\ \E u \in Fenced(done) :
                                                     u[1] = r}
           successors == replaced \cup StoppedWithDaemon
       IN  /\ \A r \in successors : Replaceable(r)
           /\ units' = [r \in Runs |-> [g \in Gens |->
                IF <<r, g>> \in Recorded(done) THEN "completed"
                ELSE IF units[r][g] = "active" THEN "revocation_pending"
                ELSE units[r][g]]]
           /\ orphans' = {u \in Runs \X Gens : /\ units[u[1]][u[2]] \in Live
                                               /\ u \notin Recorded(done)}
           /\ revoked' = revoked \cup Fenced(done)
           /\ fences' = [r \in Runs |-> [g \in Gens |->
                IF r \in successors /\ g = Gen(r) + 1 THEN "current"
                ELSE IF r \in replaced /\ <<r, g>> \in Fenced(done)
                  THEN Rejected(fences[r][g])
                ELSE fences[r][g]]]
           /\ operation' = [r \in Runs |->
                IF r \in successors
                  THEN [operation[r] EXCEPT ![Gen(r) + 1] =
                          IF r \in replaced THEN operation[r][Gen(r)]
                                            ELSE Gen(r) + 1]
                  ELSE operation[r]]
           /\ run' = [r \in Runs |->
                IF r \in successors THEN Successor(r) ELSE run[r]]
           /\ control' = Touched(successors, successors)
  BY DEF Restart
<1>. DEFINE replaced == {r \in Runs : Running(r) /\ \E u \in Fenced(done) :
                                                    u[1] = r}
            successors == replaced \cup StoppedWithDaemon
<1>1. UNCHANGED <<waiter, foreground>>
  BY DEF Restart
<1>2. /\ Fenced(done) \subseteq Runs \X Gens
      /\ \A u \in Fenced(done) : run[u[1]].status # "completed"
  BY DEF Fenced, Recorded, Live
<1>3. /\ successors \in SUBSET Runs
      /\ \A r \in successors : ~Closed(r)
  BY DEF StoppedWithDaemon, Running, Closed, ClosedStatus
<1>4. \A r \in successors : Gen(r) \in Gens /\ Gen(r) + 1 \in Gens
  BY <1>3, Typed DEF Replaceable, TypeOK, Run, Gen
<1>5. \A r \in successors : Successor(r) \in Run /\ Successor(r).status = "running"
  BY <1>3, <1>4, SuccessorTypes
<1>. HIDE DEF successors
<1>6. run' \in [Runs -> Run]
  BY <1>5 DEF TypeOK, successors
<1>7. fences' \in [Runs -> [Gens -> {"none", "current", "submitted",
                                    "rejected", "completed"}]]
  BY DEF TypeOK, Rejected
<1>8. units' \in [Runs -> [Gens -> {"none", "completed", "revoked"} \cup Live]]
  BY DEF TypeOK, Live
<1>9. operation' \in [Runs -> [Gens -> 0..MaxGen]]
  <2>1. ASSUME NEW r \in Runs
        PROVE  operation'[r] \in [Gens -> 0..MaxGen]
    <3>1. CASE r \in successors
      <4>1. Gen(r) + 1 \in 0..MaxGen /\ operation[r][Gen(r)] \in 0..MaxGen
        BY <1>4, <3>1, Typed DEF TypeOK, Gens
      <4>. QED
        BY <3>1, <4>1 DEF TypeOK, successors
    <3>2. CASE r \notin successors
      BY <3>2 DEF TypeOK, successors
    <3>. QED
      BY <3>1, <3>2
  <2>. QED
    BY <2>1
<1>10. /\ Touched(successors, successors) \in [Slots -> Control]
       /\ Touched(successors, successors)["cycle"].frozen
             = control["cycle"].frozen
  BY <1>3, TouchedTypes DEF Slots
<1>11. control' = Touched(successors, successors)
  BY DEF successors
<1>12. /\ revoked' \subseteq Runs \X Gens
       /\ orphans' \subseteq Runs \X Gens
  BY <1>2 DEF TypeOK
<1>13. TypeOK'
  BY <1>1, <1>6, <1>7, <1>8, <1>9, <1>10, <1>11, <1>12 DEF TypeOK
<1>14. \A r \in Runs : \/ r \in successors /\ run'[r].status = "running"
                       \/ r \notin successors /\ run'[r] = run[r]
  BY <1>5 DEF successors
<1>15. ASSUME NEW r \in Runs, run[r].status = "completed"
       PROVE  /\ fences'[r][run[r].gen] = fences[r][run[r].gen]
              /\ <<r, run[r].gen>> \in revoked' => <<r, run[r].gen>> \in revoked
  <2>1. r \notin successors /\ r \notin replaced
    BY <1>3, <1>15 DEF Closed, ClosedStatus, successors
  <2>2. run[r].gen \in Gens
    BY DEF TypeOK, Run
  <2>3. <<r, run[r].gen>> \notin Fenced(done)
    BY <1>2, <1>15
  <2>. QED
    BY <2>1, <2>2, <2>3 DEF successors
<1>16. ClosedKept /\ NoneCompletes
  BY <1>3, <1>14, <1>15 DEF ClosedKept, NoneCompletes
<1>17. FrozenKept
  BY <1>10, <1>11 DEF FrozenKept, Head
<1>. QED
  BY <1>13, <1>16, <1>17 DEF Safe

-----------------------------------------------------------------------------
(* Controls                                                                *)

LEMMA PreparedTypes ==
  ASSUME TypeOK, NEW a \in ControlActions, NEW R \in SUBSET Runs
  PROVE  /\ Prepared(a, R) \in Control
         /\ \A r \in Runs : Prepared(a, R).frozen[r] \in {run[r].status, "none"}
<1>. DEFINE f == [r \in Runs |-> IF r \in R THEN run[r].status ELSE "none"]
<1>1. f \in [Runs -> RunStatus]
  BY DEF TypeOK, Run, RunStatus
<1>. HIDE DEF f
<1>2. Prepared(a, R) = [NoControl EXCEPT !.action = a, !.phase = "prepared",
                                         !.frozen = f]
  BY DEF Prepared, f
<1>3. Prepared(a, R) \in Control
  BY <1>1, <1>2, Typed DEF Control
<1>4. Prepared(a, R).frozen = f
  BY <1>2, Typed DEF Control
<1>. QED
  BY <1>3, <1>4 DEF f

(* What is frozen is what the Runs are.                                    *)
LEMMA PrepareControlKeepsIInv ==
  ASSUME IInv, NEW a \in Actions, PrepareControl(a)
  PROVE  IInv' /\ ClosedKept
<1>. USE DEF PrepareControl, IInv, attempts
<1>. DEFINE p == Prepared(a, {r \in Runs : InScope(r)})
<1>1. a \in ControlActions
  BY RuntimeAssumption
<1>2. p \in Control /\ \A r \in Runs : p.frozen[r] \in {run[r].status, "none"}
  BY <1>1, PreparedTypes
<1>3. control' = [control EXCEPT !["cycle"] = p]
  OBVIOUS
<1>. HIDE DEF p
<1>4. TypeOK' /\ Head'.frozen = p.frozen
  BY <1>2, <1>3 DEF TypeOK, Head, Slots
<1>5. ClosedKept
  BY DEF ClosedKept
<1>6. FrozenClosedKept'
  BY <1>2, <1>4 DEF FrozenClosedKept, ClosedStatus
<1>7. CompletedUnderALiveFence'
  BY DEF CompletedUnderALiveFence, FenceOf, FenceRevoked, Gen
<1>. QED
  BY <1>4, <1>5, <1>6, <1>7

LEMMA PrepareRunControlSafe ==
  ASSUME TypeOK, NEW a \in RunActions, NEW r \in Runs, PrepareRunControl(a, r)
  PROVE  Safe
<1>. USE DEF PrepareRunControl, attempts
<1>1. Prepared(a, {r}) \in Control
  BY PreparedTypes DEF RunActions, ControlActions
<1>2. TypeOK' /\ Head' = Head
  BY <1>1 DEF TypeOK, Head, Slots
<1>. QED
  BY <1>2, RunsUnchangedSafe DEF FrozenKept

LEMMA AbortControlSafe ==
  ASSUME TypeOK, NEW c \in Slots, AbortControl(c) PROVE Safe
<1>. USE DEF AbortControl, attempts
<1>1. TypeOK'
  BY Typed DEF TypeOK
<1>2. \/ Head' = Head
      \/ Head' = NoControl
  BY DEF TypeOK, Head, Slots
<1>3. FrozenKept
  BY <1>2 DEF FrozenKept, NoControl
<1>. QED
  BY <1>1, <1>3, RunsUnchangedSafe

(* The receipt keeps what was frozen, or ends the control of a Run.        *)
LEMMA AppliedTypes ==
  ASSUME TypeOK, NEW c \in Slots, NEW rows, NEW N \in SUBSET Runs
  PROVE  /\ Applied(c, rows, N) \in [Slots -> Control]
         /\ Applied(c, rows, N)["cycle"].frozen = control["cycle"].frozen
<1>. DEFINE t == Touched(Affected(c), N)
            s == \E r \in Controlled(c) : rows[r].status \in SuspendedStatus
            k == [control[c] EXCEPT !.phase = "applied", !.suspends = s]
<1>1. Affected(c) \in SUBSET Runs
  BY DEF Affected
<1>2. t \in [Slots -> Control] /\ t["cycle"].frozen = control["cycle"].frozen
  BY <1>1, TouchedTypes DEF Slots
<1>3. s \in BOOLEAN
  OBVIOUS
<1>4. Applied(c, rows, N) = [t EXCEPT ![c] = IF c = "run" THEN NoControl ELSE k]
  BY DEF Applied
<1>. HIDE DEF t, s
<1>5. k \in Control /\ k.frozen = control[c].frozen
  BY <1>3 DEF TypeOK, Control
<1>. HIDE DEF k
<1>6. Applied(c, rows, N) \in [Slots -> Control]
  BY <1>2, <1>4, <1>5, Typed
<1>. QED
  BY <1>2, <1>4, <1>5, <1>6 DEF Slots

(* An applied control changes only the Runs it controls, none of which is  *)
(* closed, and completes none.                                             *)
LEMMA ApplySafe ==
  ASSUME TypeOK, TypeOK', NEW c \in Slots,
         \A r \in Runs \ Controlled(c) : run'[r] = run[r] /\ fences'[r] = fences[r],
         \A r \in Controlled(c) : run'[r].status # "completed",
         revoked' \ revoked \subseteq Controlled(c) \X Gens,
         Head'.frozen = Head.frozen
  PROVE  Safe
<1>1. \A r \in Controlled(c) : ~Closed(r) /\ run[r].status # "completed"
  BY DEF Controlled, Closed, ClosedStatus
<1>2. ClosedKept /\ NoneCompletes
  BY <1>1 DEF ClosedKept, NoneCompletes
<1>3. FrozenKept
  BY DEF FrozenKept
<1>. QED
  BY <1>2, <1>3 DEF Safe

(* Revoking the current Fences of Runs.                                    *)
LEMMA RevokedTypes ==
  ASSUME TypeOK, NEW N \in SUBSET Runs,
         revoked' = revoked \cup {<<r, Gen(r)>> : r \in N}
  PROVE  /\ revoked' \subseteq Runs \X Gens
         /\ revoked' \ revoked \subseteq N \X Gens
<1>1. \A r \in N : <<r, Gen(r)>> \in N \X Gens
  BY DEF TypeOK, Run, Gen
<1>2. {<<r, Gen(r)>> : r \in N} \subseteq N \X Gens
  BY <1>1
<1>3. N \X Gens \subseteq Runs \X Gens
  OBVIOUS
<1>. QED
  BY <1>2, <1>3 DEF TypeOK

(* A control acts on Runs.                                                 *)
LEMMA ControlledRuns ==
  ASSUME NEW c \in Slots PROVE Controlled(c) \in SUBSET Runs
BY DEF Controlled, Affected

LEMMA ApplySuspendSafe ==
  ASSUME TypeOK, NEW c \in Slots, ApplySuspend(c) PROVE Safe
<1>. USE DEF ApplySuspend, attempts
<1>1. \A r \in Runs : /\ Row(r, "suspended", "none") \in Run
                      /\ Row(r, "suspended", "none").status = "suspended"
  BY RowTypes DEF RunStatus, SuspendedStatus
<1>2. run' \in [Runs -> Run]
  BY <1>1 DEF TypeOK
<1>3. /\ control' \in [Slots -> Control]
      /\ Head'.frozen = Head.frozen
  BY AppliedTypes DEF Head
<1>4. TypeOK'
  BY <1>2, <1>3 DEF TypeOK
<1>5. /\ \A r \in Runs \ Controlled(c) : run'[r] = run[r] /\ fences'[r] = fences[r]
      /\ \A r \in Controlled(c) : run'[r].status # "completed"
  BY <1>1, ControlledRuns
<1>. QED
  BY <1>3, <1>4, <1>5, ApplySafe

LEMMA ApplyHandoffSafe ==
  ASSUME TypeOK, NEW c \in Slots, ApplyHandoff(c) PROVE Safe
<1>. DEFINE N == {r \in Controlled(c) : units[r][Gen(r)] = "revocation_pending"}
<1>1. /\ Replace(N, N, {})
      /\ revoked' = revoked \cup {<<r, Gen(r)>> : r \in N}
      /\ run' = [r \in Runs |->
           IF r \in Controlled(c)
             THEN [run[r] EXCEPT !.reason = "none",
                                 !.gen = IF r \in N THEN @ + 1 ELSE @]
             ELSE run[r]]
      /\ control' = Applied(c, run', N)
      /\ UNCHANGED <<units, orphans, waiter, foreground>>
  BY DEF ApplyHandoff
<1>2. N \in SUBSET Runs /\ N \subseteq Controlled(c)
  BY ControlledRuns
<1>. HIDE DEF N
<1>3. /\ fences' \in [Runs -> [Gens -> {"none", "current", "submitted",
                                        "rejected", "completed"}]]
      /\ operation' \in [Runs -> [Gens -> 0..MaxGen]]
      /\ \A r \in N : Gen(r) + 1 \in Gens
      /\ \A r \in Runs \ N : fences'[r] = fences[r]
  BY <1>1, <1>2, ReplaceTypes
<1>4. ASSUME NEW r \in Runs
      PROVE  run'[r] \in Run /\ run'[r].status = run[r].status
  <2>. DEFINE gen == IF r \in N THEN run[r].gen + 1 ELSE run[r].gen
              row == [run[r] EXCEPT !.reason = "none", !.gen = gen]
  <2>1. run[r] \in Run
    BY DEF TypeOK
  <2>2. gen \in Gens
    BY <1>3, <2>1 DEF Run, Gen
  <2>. HIDE DEF gen
  <2>3. row \in Run /\ row.status = run[r].status
    BY <2>1, <2>2 DEF Run, Reason
  <2>4. CASE r \in Controlled(c)
    <3>1. run'[r] = row
      BY <1>1, <2>1, <2>4 DEF gen, Run
    <3>. QED
      BY <2>3, <3>1
  <2>5. CASE r \notin Controlled(c)
    BY <1>1, <2>1, <2>5
  <2>. QED
    BY <2>4, <2>5
<1>5. run' \in [Runs -> Run]
  BY <1>1, <1>4
<1>6. /\ revoked' \subseteq Runs \X Gens
      /\ revoked' \ revoked \subseteq N \X Gens
  BY <1>1, <1>2, RevokedTypes
<1>7. revoked' \ revoked \subseteq Controlled(c) \X Gens
  BY <1>2, <1>6
<1>8. /\ control' \in [Slots -> Control]
      /\ Head'.frozen = Head.frozen
  BY <1>1, <1>2, AppliedTypes DEF Head
<1>9. TypeOK'
  BY <1>1, <1>3, <1>5, <1>6, <1>8 DEF TypeOK
<1>10. \A r \in Controlled(c) : run'[r].status # "completed"
  BY <1>4, ControlledRuns DEF Controlled, Closed, ClosedStatus
<1>11. \A r \in Runs \ Controlled(c) : run'[r] = run[r] /\ fences'[r] = fences[r]
  BY <1>1, <1>2, <1>3
<1>. QED
  BY <1>7, <1>8, <1>9, <1>10, <1>11, ApplySafe

LEMMA ApplyRestoreSafe ==
  ASSUME TypeOK, NEW c \in Slots, ApplyRestore(c) PROVE Safe
<1>. DEFINE N == {r \in Controlled(c) : run[r].status = "suspended_fenced"}
<1>1. /\ Replace(N, {}, {})
      /\ run' = [r \in Runs |->
           IF r \in Controlled(c)
             THEN [Row(r, "suspended", "none")
                     EXCEPT !.gen = IF r \in N THEN @ + 1 ELSE @]
             ELSE run[r]]
      /\ control' = Applied(c, run', N)
      /\ UNCHANGED <<revoked, units, orphans, waiter, foreground>>
  BY DEF ApplyRestore
<1>2. N \in SUBSET Runs /\ N \subseteq Controlled(c)
  BY ControlledRuns
<1>. HIDE DEF N
<1>3. /\ fences' \in [Runs -> [Gens -> {"none", "current", "submitted",
                                        "rejected", "completed"}]]
      /\ operation' \in [Runs -> [Gens -> 0..MaxGen]]
      /\ \A r \in N : Gen(r) + 1 \in Gens
      /\ \A r \in Runs \ N : fences'[r] = fences[r]
  BY <1>1, <1>2, ReplaceTypes
<1>4. ASSUME NEW r \in Controlled(c)
      PROVE  run'[r] \in Run /\ run'[r].status = "suspended"
  <2>1. r \in Runs
    BY ControlledRuns
  <2>2. /\ Row(r, "suspended", "none") \in Run
        /\ Row(r, "suspended", "none").status = "suspended"
        /\ Row(r, "suspended", "none").gen = Gen(r)
    BY <2>1, RowTypes DEF RunStatus, SuspendedStatus
  <2>. QED
    BY <1>1, <1>3, <2>1, <2>2 DEF Run
<1>5. \A r \in Runs \ Controlled(c) : run'[r] = run[r] /\ fences'[r] = fences[r]
  BY <1>1, <1>2, <1>3
<1>6. run' \in [Runs -> Run]
  BY <1>1, <1>4, <1>5 DEF TypeOK
<1>7. /\ control' \in [Slots -> Control]
      /\ Head'.frozen = Head.frozen
  BY <1>1, <1>2, AppliedTypes DEF Head
<1>8. TypeOK'
  BY <1>1, <1>3, <1>6, <1>7 DEF TypeOK
<1>. QED
  BY <1>1, <1>4, <1>5, <1>7, <1>8, ApplySafe

LEMMA ApplyResumeSafe ==
  ASSUME TypeOK, NEW c \in Slots, ApplyResume(c) PROVE Safe
<1>. DEFINE R == {r \in Controlled(c) : ~KeepsWaiting(r)}
            fenced == {r \in R : run[r].status = "suspended_fenced"}
<1>1. PICK stopped \in SUBSET {r \in R : MayHaveStopped(r)},
           fresh \in SUBSET {r \in fenced : run[r].reason = "ceiling"} :
        /\ Replace(stopped \cup fenced, stopped, stopped \cup fresh)
        /\ revoked' = revoked \cup {<<r, Gen(r)>> : r \in stopped}
        /\ run' = [r \in Runs |->
             IF r \in stopped \cup fenced THEN Successor(r)
             ELSE IF r \in R THEN Row(r, "running", "none")
             ELSE IF r \in Controlled(c)
               THEN [Row(r, "suspended", "none")
                       EXCEPT !.reason = "human_request_wait"]
             ELSE run[r]]
        /\ control' = Applied(c, run', stopped \cup fenced)
  BY DEF ApplyResume
<1>2. UNCHANGED <<units, orphans, waiter, foreground>>
  BY DEF ApplyResume
<1>. DEFINE N == stopped \cup fenced
<1>3. /\ N \in SUBSET Runs /\ stopped \in SUBSET Runs /\ R \in SUBSET Runs
      /\ N \subseteq R /\ R \subseteq Controlled(c)
      /\ stopped \subseteq Controlled(c)
  BY ControlledRuns
<1>. HIDE DEF R, fenced
<1>4. /\ fences' \in [Runs -> [Gens -> {"none", "current", "submitted",
                                        "rejected", "completed"}]]
      /\ operation' \in [Runs -> [Gens -> 0..MaxGen]]
      /\ \A r \in N : Gen(r) + 1 \in Gens
      /\ \A r \in Runs \ N : fences'[r] = fences[r]
  BY <1>1, <1>3, ReplaceTypes
<1>5. ASSUME NEW r \in Controlled(c)
      PROVE  run'[r] \in Run /\ run'[r].status # "completed"
  <2>1. r \in Runs
    BY ControlledRuns
  <2>2. CASE r \in N
    <3>1. Successor(r) \in Run /\ Successor(r).status = "running"
      BY <1>4, <2>1, <2>2, SuccessorTypes
    <3>. QED
      BY <1>1, <2>1, <2>2, <3>1
  <2>3. CASE r \notin N /\ r \in R
    <3>1. Row(r, "running", "none") \in Run /\ Row(r, "running", "none").status = "running"
      BY <2>1, RowTypes DEF RunStatus
    <3>. QED
      BY <1>1, <2>1, <2>3, <3>1
  <2>4. CASE r \notin R
    <3>1. /\ Row(r, "suspended", "none") \in Run
          /\ Row(r, "suspended", "none").status = "suspended"
      BY <2>1, RowTypes DEF RunStatus, SuspendedStatus
    <3>2. r \notin N
      BY <1>3, <2>4
    <3>3. run'[r] = [Row(r, "suspended", "none")
                       EXCEPT !.reason = "human_request_wait"]
      BY <1>1, <2>1, <2>4, <3>2
    <3>. QED
      BY <3>1, <3>3 DEF Run, Reason
  <2>. QED
    BY <2>2, <2>3, <2>4
<1>6. \A r \in Runs \ Controlled(c) : run'[r] = run[r] /\ fences'[r] = fences[r]
  BY <1>1, <1>3, <1>4
<1>7. run' \in [Runs -> Run]
  <2>1. run' = [r \in Runs |-> run'[r]]
    BY <1>1
  <2>2. \A r \in Runs : run'[r] \in Run
    BY <1>5, <1>6 DEF TypeOK
  <2>. QED
    BY <2>1, <2>2
<1>8. /\ revoked' \subseteq Runs \X Gens
      /\ revoked' \ revoked \subseteq stopped \X Gens
  BY <1>1, <1>3, RevokedTypes
<1>9. revoked' \ revoked \subseteq Controlled(c) \X Gens
  BY <1>3, <1>8
<1>10. /\ control' \in [Slots -> Control]
       /\ Head'.frozen = Head.frozen
  BY <1>1, <1>3, AppliedTypes DEF Head
<1>11. TypeOK'
  BY <1>2, <1>4, <1>7, <1>8, <1>10 DEF TypeOK
<1>. QED
  BY <1>5, <1>6, <1>9, <1>10, <1>11, ApplySafe

LEMMA ApplyForceSafe ==
  ASSUME TypeOK, NEW c \in Slots, ApplyForce(c) PROVE Safe
<1>. DEFINE C == Controlled(c)
            cancelled == IF control[c].action = "cancel" THEN C ELSE {}
            status(r) == IF r \in cancelled THEN "terminated"
                                            ELSE "suspended_fenced"
            cleanup(r) == IF LiveUnits(r) # {} THEN "pending"
                          ELSE IF r \in cancelled THEN "completed" ELSE "none"
<1>1. /\ units' = [r \in Runs |-> [g \in Gens |->
           IF r \in C /\ units[r][g] = "active"
             THEN "revocation_pending" ELSE units[r][g]]]
      /\ revoked' = revoked \cup {<<r, Gen(r)>> : r \in C}
      /\ fences' = [r \in Runs |->
           IF r \in cancelled
             THEN [fences[r] EXCEPT ![Gen(r)] = Rejected(@)] ELSE fences[r]]
      /\ run' = [r \in Runs |->
           IF r \in C THEN Row(r, status(r), cleanup(r)) ELSE run[r]]
      /\ control' = Applied(c, run', {})
      /\ UNCHANGED <<orphans, operation, waiter, foreground>>
  BY DEF ApplyForce
<1>2. C \in SUBSET Runs /\ cancelled \subseteq C
  BY ControlledRuns
<1>3. \A r \in Runs : /\ status(r) \in {"terminated", "suspended_fenced"}
                      /\ cleanup(r) \in {"none", "pending", "completed"}
  OBVIOUS
<1>. HIDE DEF C, cancelled, status, cleanup
<1>4. ASSUME NEW r \in Runs
      PROVE  /\ Row(r, status(r), cleanup(r)) \in Run
             /\ Row(r, status(r), cleanup(r)).status # "completed"
  <2>1. status(r) \in RunStatus /\ status(r) # "completed"
    BY <1>3 DEF RunStatus, SuspendedStatus, ClosedStatus
  <2>2. cleanup(r) \in {"none", "pending", "completed"}
    BY <1>3
  <2>. QED
    BY <2>1, <2>2, RowTypes
<1>5. run' \in [Runs -> Run]
  BY <1>1, <1>4 DEF TypeOK
<1>6. fences' \in [Runs -> [Gens -> {"none", "current", "submitted",
                                    "rejected", "completed"}]]
  <2>1. \A r \in Runs : Gen(r) \in Gens
    BY DEF TypeOK, Run, Gen
  <2>2. ASSUME NEW r \in Runs
        PROVE  fences'[r] \in [Gens -> {"none", "current", "submitted",
                                       "rejected", "completed"}]
    BY <1>1, <2>1 DEF TypeOK, Rejected
  <2>. QED
    BY <1>1, <2>2
<1>7. units' \in [Runs -> [Gens -> {"none", "completed", "revoked"} \cup Live]]
  BY <1>1 DEF TypeOK, Live
<1>8. /\ revoked' \subseteq Runs \X Gens
      /\ revoked' \ revoked \subseteq C \X Gens
  BY <1>1, <1>2, RevokedTypes
<1>9. /\ control' \in [Slots -> Control]
      /\ Head'.frozen = Head.frozen
  BY <1>1, AppliedTypes DEF Head
<1>10. TypeOK'
  BY <1>1, <1>5, <1>6, <1>7, <1>8, <1>9 DEF TypeOK
<1>11. /\ \A r \in Runs \ C : run'[r] = run[r] /\ fences'[r] = fences[r]
       /\ \A r \in C : run'[r].status # "completed"
  BY <1>1, <1>2, <1>4
<1>. QED
  BY <1>8, <1>9, <1>10, <1>11, ApplySafe DEF C

-----------------------------------------------------------------------------
(* What the other Owners make of an applied control of the Cycle           *)

LEMMA EndControlSafe ==
  ASSUME TypeOK, NEW fg \in Foreground, EndControl(fg) PROVE Safe
<1>. USE DEF EndControl, attempts
<1>1. TypeOK'
  BY Typed DEF TypeOK
<1>2. Head' = NoControl
  BY DEF TypeOK, Head, Slots
<1>3. FrozenKept
  BY <1>2 DEF FrozenKept, NoControl
<1>. QED
  BY <1>1, <1>3, RunsUnchangedSafe

LEMMA SettleSafe == ASSUME TypeOK, Settle PROVE Safe
<1>. USE DEF Settle
<1>1. /\ [foreground EXCEPT !.open = FALSE] \in Foreground
      /\ [foreground EXCEPT !.open = FALSE, !.revoked = TRUE] \in Foreground
      /\ [foreground EXCEPT !.open = FALSE, !.pruned = TRUE] \in Foreground
      /\ [foreground EXCEPT !.pruned = FALSE] \in Foreground
      /\ [foreground EXCEPT !.here = FALSE] \in Foreground
  BY DEF TypeOK, Foreground
<1>. DEFINE epoch == IF foreground.revoked THEN foreground.epoch + 1
                                           ELSE foreground.epoch
            resumed == [foreground EXCEPT !.open = TRUE, !.revoked = FALSE,
                                          !.epoch = epoch]
<1>2. foreground.epoch \in Epochs
  BY DEF TypeOK, Foreground
<1>3. ASSUME foreground.revoked => foreground.epoch < MaxEpoch
      PROVE  resumed \in Foreground
  <2>1. epoch \in Epochs
    BY <1>2, <1>3, Typed DEF Epochs
  <2>. HIDE DEF epoch
  <2>. QED
    BY <2>1 DEF TypeOK, Foreground
<1>4. resumed = [foreground EXCEPT
                   !.open = TRUE, !.revoked = FALSE,
                   !.epoch = IF foreground.revoked THEN @ + 1 ELSE @]
  BY DEF TypeOK, Foreground
<1>. HIDE DEF resumed
<1>5. CASE EndControl([foreground EXCEPT !.open = FALSE])
  BY <1>1, <1>5, EndControlSafe
<1>6. CASE EndControl([foreground EXCEPT !.open = FALSE, !.revoked = TRUE])
  BY <1>1, <1>6, EndControlSafe
<1>7. CASE EndControl([foreground EXCEPT !.open = FALSE, !.pruned = TRUE])
  BY <1>1, <1>7, EndControlSafe
<1>8. CASE EndControl([foreground EXCEPT !.pruned = FALSE])
  BY <1>1, <1>8, EndControlSafe
<1>9. CASE /\ foreground.revoked => foreground.epoch < MaxEpoch
           /\ EndControl([foreground EXCEPT
                !.open = TRUE, !.revoked = FALSE,
                !.epoch = IF foreground.revoked THEN @ + 1 ELSE @])
  <2>1. EndControl(resumed)
    BY <1>4, <1>9
  <2>. QED
    BY <1>3, <1>9, <2>1, EndControlSafe
<1>10. CASE EndControl([foreground EXCEPT !.here = FALSE])
  BY <1>1, <1>10, EndControlSafe
<1>. QED
  BY <1>5, <1>6, <1>7, <1>8, <1>9, <1>10

LEMMA SwitchBackSafe == ASSUME TypeOK, SwitchBack PROVE Safe
<1>. USE DEF SwitchBack, attempts
<1>1. foreground.epoch + 1 \in Epochs
  BY Typed DEF TypeOK, Foreground, Epochs
<1>2. TypeOK'
  BY <1>1 DEF TypeOK, Foreground
<1>. QED
  BY <1>2, RunsUnchangedSafe DEF FrozenKept, Head

LEMMA InvalidateSwitchSafe == ASSUME TypeOK, InvalidateSwitch PROVE Safe
BY EndControlSafe DEF InvalidateSwitch, TypeOK

(* compensate_runtime_control writes "completed" only to a Run that the    *)
(* control found completed, and such a Run has completed for good.         *)
LEMMA CompensateKeepsIInv == ASSUME IInv, Compensate PROVE IInv'
<1>. USE DEF IInv
<1>. DEFINE frozen == Head.frozen
            N == {r \in Runs : frozen[r] = "running"}
            F == {r \in Runs : frozen[r] \in SuspendedStatus}
<1>1. /\ \A r \in N : Replaceable(r)
      /\ revoked' = revoked \cup {<<r, Gen(r)>> : r \in N \cup F}
      /\ fences' = [r \in Runs |->
           [g \in Gens |->
              IF r \in N /\ g = Gen(r) + 1 THEN "current"
              ELSE IF r \in N \cup F /\ g = Gen(r) THEN Rejected(fences[r][g])
              ELSE fences[r][g]]]
      /\ operation' = [r \in Runs |->
           IF r \in N
             THEN [operation[r] EXCEPT ![Gen(r) + 1] = operation[r][Gen(r)]]
             ELSE operation[r]]
      /\ run' = [r \in Runs |->
           IF r \in N THEN Successor(r)
           ELSE IF r \in F THEN Row(r, "suspended_fenced", "none")
           ELSE IF frozen[r] # "none" THEN Row(r, frozen[r], "none")
           ELSE run[r]]
      /\ control' = [Touched(Affected("cycle"), N) EXCEPT
                       !["cycle"] = NoControl]
      /\ UNCHANGED <<units, orphans, waiter, foreground>>
  BY DEF Compensate
<1>2. /\ N \in SUBSET Runs /\ N \cup F \in SUBSET Runs
      /\ Affected("cycle") \in SUBSET Runs
  BY DEF Affected
<1>3. frozen \in [Runs -> RunStatus]
  BY DEF TypeOK, Head, Slots, Control
<1>4. \A r \in Runs \ (N \cup F) : frozen[r] \in ClosedStatus \cup {"none"}
  BY <1>3 DEF RunStatus
<1>5. \A r \in Runs : frozen[r] \in ClosedStatus => run[r].status = frozen[r]
  BY DEF FrozenClosedKept
<1>. HIDE DEF N, F, frozen
<1>6. \A r \in Runs : Gen(r) \in Gens
  BY DEF TypeOK, Run, Gen
<1>7. \A r \in N : Gen(r) + 1 \in Gens
  BY <1>1, <1>2, <1>6, Typed DEF Replaceable
<1>8. ASSUME NEW r \in Runs
      PROVE  /\ run'[r] \in Run
             /\ r \in N \cup F => run'[r].status # "completed"
             /\ r \notin N \cup F => /\ run'[r].status = run[r].status
                                     /\ run'[r].gen = run[r].gen
  <2>1. CASE r \in N
    <3>1. Successor(r) \in Run /\ Successor(r).status = "running"
      BY <1>7, <2>1, SuccessorTypes
    <3>. QED
      BY <1>1, <2>1, <3>1
  <2>2. CASE r \in F /\ r \notin N
    <3>1. /\ Row(r, "suspended_fenced", "none") \in Run
          /\ Row(r, "suspended_fenced", "none").status = "suspended_fenced"
      BY RowTypes DEF RunStatus, SuspendedStatus
    <3>. QED
      BY <1>1, <2>2, <3>1
  <2>3. CASE r \notin N \cup F /\ frozen[r] = "none"
    <3>1. run'[r] = run[r]
      BY <1>1, <2>3
    <3>. QED
      BY <2>3, <3>1 DEF TypeOK
  <2>4. CASE r \notin N \cup F /\ frozen[r] \in ClosedStatus
    <3>1. /\ Row(r, frozen[r], "none") \in Run
          /\ Row(r, frozen[r], "none").status = frozen[r]
          /\ Row(r, frozen[r], "none").gen = Gen(r)
      BY <1>3, RowTypes
    <3>2. run'[r] = Row(r, frozen[r], "none")
      BY <1>1, <2>4 DEF ClosedStatus
    <3>. QED
      BY <1>5, <2>4, <3>1, <3>2 DEF Gen
  <2>. QED
    BY <1>4, <2>1, <2>2, <2>3, <2>4
<1>9. run' \in [Runs -> Run]
  <2>1. run' = [r \in Runs |-> run'[r]]
    BY <1>1
  <2>. QED
    BY <1>8, <2>1
<1>10. fences' \in [Runs -> [Gens -> {"none", "current", "submitted",
                                     "rejected", "completed"}]]
  BY <1>1 DEF TypeOK, Rejected
<1>11. operation' \in [Runs -> [Gens -> 0..MaxGen]]
  <2>1. ASSUME NEW r \in Runs PROVE operation'[r] \in [Gens -> 0..MaxGen]
    BY <1>1, <1>6, <1>7 DEF TypeOK
  <2>. QED
    BY <1>1, <2>1
<1>12. /\ revoked' \subseteq Runs \X Gens
       /\ revoked' \ revoked \subseteq (N \cup F) \X Gens
  BY <1>1, <1>2, RevokedTypes
<1>13. control' \in [Slots -> Control] /\ Head' = NoControl
  <2>1. Touched(Affected("cycle"), N) \in [Slots -> Control]
    BY <1>2, TouchedTypes
  <2>. QED
    BY <1>1, <2>1, Typed DEF Head, Slots
<1>14. TypeOK'
  BY <1>1, <1>9, <1>10, <1>11, <1>12, <1>13 DEF TypeOK
<1>15. FrozenClosedKept'
  BY <1>13 DEF FrozenClosedKept, NoControl, ClosedStatus
<1>16. CompletedUnderALiveFence'
  <2>. SUFFICES ASSUME NEW r \in Runs, run'[r].status = "completed"
                PROVE  /\ fences'[r][run'[r].gen] = "completed"
                       /\ <<r, run'[r].gen>> \notin revoked'
    BY DEF CompletedUnderALiveFence, FenceOf, FenceRevoked, Gen
  <2>1. r \notin N \cup F /\ run[r].status = "completed" /\ run'[r].gen = run[r].gen
    BY <1>8
  <2>2. fences[r][run[r].gen] = "completed" /\ <<r, run[r].gen>> \notin revoked
    BY <2>1 DEF CompletedUnderALiveFence, FenceOf, FenceRevoked, Gen
  <2>3. fences'[r][run[r].gen] = fences[r][run[r].gen]
    BY <1>1, <1>6, <2>1 DEF Gen
  <2>. QED
    BY <1>12, <2>1, <2>2, <2>3
<1>. QED
  BY <1>14, <1>15, <1>16

-----------------------------------------------------------------------------
(* Every step                                                              *)

(* A step keeps the invariant; only a compensation may change a closed Run.*)
LEMMA StepKeepsIInv ==
  ASSUME IInv, [Next]_vars
  PROVE  IInv' /\ (ClosedKept \/ Compensate)
<1>. USE DEF IInv
<1>1. ASSUME Safe PROVE IInv' /\ ClosedKept
  BY <1>1, SafeKeepsIInv DEF Safe
<1>2. ASSUME NEW r \in Runs,
             \/ Admit(r) \/ Rebind(r) \/ BeginUnit(r)
             \/ RejectCandidate(r) \/ Submit(r) \/ ContinueAfterRejection(r)
             \/ OpenHumanRequest(r) \/ AnswerHumanRequest(r)
      PROVE  Safe
  BY <1>2, AdmitSafe, RebindSafe, BeginUnitSafe, RejectCandidateSafe,
     SubmitSafe, ContinueAfterRejectionSafe, OpenHumanRequestSafe,
     AnswerHumanRequestSafe
<1>3. ASSUME NEW c \in Slots,
             \/ AbortControl(c) \/ ApplySuspend(c) \/ ApplyHandoff(c)
             \/ ApplyResume(c) \/ ApplyRestore(c) \/ ApplyForce(c)
      PROVE  Safe
  BY <1>3, AbortControlSafe, ApplySuspendSafe, ApplyHandoffSafe,
     ApplyResumeSafe, ApplyRestoreSafe, ApplyForceSafe
<1>4. CASE \E r \in Runs : CompleteRun(r)
  BY <1>4, CompleteRunKeepsIInv
<1>5. CASE \E r \in Runs, g \in Gens : AcknowledgeUnit(r, g)
  BY <1>1, <1>5, AcknowledgeUnitSafe
<1>6. CASE \E r \in Runs, reason \in {"ceiling", "codex_operation_stopped"} :
             HardCeiling(r, reason)
  BY <1>1, <1>6, HardCeilingSafe
<1>7. CASE \E r \in Runs, a \in RunActions : PrepareRunControl(a, r)
  BY <1>1, <1>7, PrepareRunControlSafe
<1>8. CASE \E a \in Actions : PrepareControl(a)
  BY <1>8, PrepareControlKeepsIInv
<1>9. CASE Restart
  BY <1>1, <1>9, RestartSafe
<1>10. CASE Settle \/ SwitchBack \/ InvalidateSwitch
  BY <1>1, <1>10, SettleSafe, SwitchBackSafe, InvalidateSwitchSafe
<1>11. CASE Compensate
  BY <1>11, CompensateKeepsIInv
<1>12. CASE UNCHANGED vars
  <2>1. TypeOK' /\ FrozenKept
    BY <1>12 DEF vars, TypeOK, FrozenKept, Head
  <2>. QED
    BY <1>1, <1>12, <2>1, RunsUnchangedSafe DEF vars
<1>. QED
  BY <1>1, <1>2, <1>3, <1>4, <1>5, <1>6, <1>7, <1>8, <1>9, <1>10, <1>11,
     <1>12 DEF Next

(* What all transactions on the Runs of a Cycle keep.                      *)
THEOREM RuntimeInvariant == Spec => []IInv
<1>1. IInv /\ [Next]_vars => IInv'
  BY StepKeepsIInv
<1>. QED
  BY <1>1, InitIInv, PTL DEF Spec

(* Every row AR writes is one its tables admit.                            *)
THEOREM RuntimeTypeCorrect == Spec => []TypeOK
<1>1. IInv => TypeOK
  BY DEF IInv
<1>. QED
  BY <1>1, RuntimeInvariant, PTL

(* A Run is completed only under the Fence it was running under, and that  *)
(* Fence is never revoked afterwards: a late control, recovery, provider   *)
(* limit or compensation does not take the accepted work back              *)
(* (_require_current_fence, compensate_runtime_control).                   *)
THEOREM CompletedLive == Spec => []CompletedUnderALiveFence
<1>1. IInv => CompletedUnderALiveFence
  BY DEF IInv
<1>. QED
  BY <1>1, RuntimeInvariant, PTL

(* No transaction but a compensation gives a completed or cancelled Run    *)
(* another status or another Attempt: controls skip closed Runs, a restart *)
(* and a provider limit leave them alone, and a closed Run is not rebound. *)
THEOREM OnlyCompensationReopens ==
  Spec => [][\/ Compensate
             \/ \A r \in Runs : Closed(r) => /\ run'[r].status = run[r].status
                                             /\ run'[r].gen = run[r].gen]_vars
<1>1. IInv /\ [Next]_vars =>
        [\/ Compensate
         \/ \A r \in Runs : Closed(r) => /\ run'[r].status = run[r].status
                                         /\ run'[r].gen = run[r].gen]_vars
  BY StepKeepsIInv DEF ClosedKept
<1>. QED
  BY <1>1, RuntimeInvariant, PTL DEF Spec

=============================================================================
