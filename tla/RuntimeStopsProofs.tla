------------------------- MODULE RuntimeStopsProofs -------------------------
(***************************************************************************)
(* What stops in a Cycle stays stopped, for every set of Runs, every       *)
(* choice of controls and features and every bound.                        *)
(*                                                                         *)
(* Whatever happens, a Run that waits for a human runs only after the      *)
(* answer (RunsOnlyIfAnswered), a cancelled Run is reported clean only     *)
(* when it is (CleanupMeansStopped), a closed Run stays closed             *)
(* (ClosedStaysClosed), and what a control froze stays frozen              *)
(* (FrozenFenceKept).                                                      *)
(*                                                                         *)
(* Two more are proved Run by Run: a suspended Run has no unit at work     *)
(* (QuietRun), and a Run of a stopped Cycle does not run (PausedRun),      *)
(* until that Run is singled out: its human request is answered, or a      *)
(* control of this one Run begins.  Anything may happen to the other Runs. *)
(***************************************************************************)
EXTENDS RuntimeControlProofs

(* Nothing of a Run is ahead of its Attempt, and a Run that was never      *)
(* admitted has nothing.                                                   *)
NothingAhead(r) ==
  /\ waiter[r] <= Gen(r)
  /\ \A g \in Gens : \/ <<r, g>> \in revoked
                     \/ units[r][g] \in Live
                     => g <= Gen(r) /\ run[r].status # "none"
  /\ run[r].status = "none" => Gen(r) = 1 /\ waiter[r] = 0
  /\ run[r].epoch <= foreground.epoch

(* One unit of a Run at most has not been told to stop, across all its     *)
(* Attempts.                                                               *)
ActiveAlone(r) ==
  \A g, h \in Gens : units[r][g] = "active" /\ units[r][h] = "active" => g = h

AttemptsInOrder ==
  /\ \A r \in Runs : NothingAhead(r) /\ ActiveAlone(r)
  /\ \A c \in Slots : \A r \in Affected(c) : run[r].status # "none"
  /\ RunsOnlyIfAnswered
  /\ CleanupMeansStopped

(* The Attempt of a Run is one of its generations.                         *)
LEMMA GenTypes ==
  ASSUME TypeOK, NEW r \in Runs
  PROVE  /\ Gen(r) \in Gens /\ Gen(r) \in Nat /\ Gen(r) <= Gen(r)
         /\ Gen(r) # Gen(r) + 1
<1>1. Gen(r) \in Gens
  BY DEF TypeOK, Run, Gen
<1>2. Gen(r) \in Nat
  BY <1>1, Typed
<1>. QED
  BY <1>1, <1>2

-----------------------------------------------------------------------------
(* What a step may do to the Attempts of a Run                             *)

(* The row of a Run: it keeps its Attempt or gets the next one.            *)
RowGoesOn(r) ==
  /\ run'[r].gen \in {Gen(r), Gen(r) + 1}
  /\ run'[r].status = "none" => run[r].status = "none" /\ run'[r].gen = Gen(r)
  /\ run'[r].gen = Gen(r) + 1 => run[r].status # "none"
  /\ run'[r].epoch \in {run[r].epoch, foreground.epoch}
  /\ foreground.epoch <= foreground'.epoch

(* Nobody starts to wait or to run unanswered.                             *)
AnswersKept(r) ==
  /\ waiter'[r] \in {waiter[r], 0}
  /\ run'[r].status = "running" =>
       \/ run'[r].gen = Gen(r) + 1
       \/ run[r].status \in {"running", "none"}
       \/ waiter[r] # Gen(r)
       \/ waiter'[r] = 0

(* Only what was started is revoked, and nothing starts.                   *)
NoneStarts(r) ==
  /\ \A g \in Gens : <<r, g>> \in revoked' =>
       <<r, g>> \in revoked \/ (g <= Gen(r) /\ run[r].status # "none")
  /\ \A g \in Gens : units'[r][g] \in Live => units[r][g] \in Live
  /\ \A g \in Gens : units'[r][g] = "active" => units[r][g] = "active"

(* A cleanup is not reported over a live unit.                             *)
CleanupKept(r) ==
  run'[r].status = "terminated" /\ run'[r].cleanup = "completed" =>
    \/ run[r].status = "terminated" /\ run[r].cleanup = "completed"
    \/ \A g \in Gens : units'[r][g] \notin Live

InOrder(r) == RowGoesOn(r) /\ AnswersKept(r) /\ NoneStarts(r) /\ CleanupKept(r)

(* A control freezes what the Runs are, and forgets it when it ends.       *)
FrozenFromRuns ==
  \A c \in Slots, r \in Runs :
    control'[c].frozen[r] \in {control[c].frozen[r], "none", run'[r].status}

(* The row, the units and the waiter of a Run stay.                        *)
LEMMA LeftInOrder ==
  ASSUME TypeOK, NEW r \in Runs, run'[r] = run[r], units'[r] = units[r],
         waiter'[r] = waiter[r],
         \A g \in Gens : <<r, g>> \in revoked' => <<r, g>> \in revoked,
         foreground.epoch <= foreground'.epoch
  PROVE  InOrder(r)
<1>1. RowGoesOn(r)
  BY GenTypes DEF RowGoesOn, Gen
<1>2. AnswersKept(r)
  BY DEF AnswersKept
<1>3. NoneStarts(r)
  BY DEF NoneStarts
<1>4. CleanupKept(r)
  BY DEF CleanupKept
<1>. QED
  BY <1>1, <1>2, <1>3, <1>4 DEF InOrder

(* Steps in order keep the Attempts in order.                              *)
LEMMA InOrderKeeps ==
  ASSUME TypeOK, TypeOK', AttemptsInOrder, \A r \in Runs : InOrder(r),
         FrozenFromRuns
  PROVE  AttemptsInOrder'
<1>1. ASSUME NEW r \in Runs
      PROVE  /\ Gen(r) \in Nat /\ run'[r].gen \in Nat /\ waiter[r] \in Nat
             /\ Gen(r) >= 1
             /\ run[r].epoch \in Nat /\ run'[r].epoch \in Nat
             /\ foreground.epoch \in Nat /\ foreground'.epoch \in Nat
  <2>1. /\ run[r] \in Run /\ run'[r] \in Run
        /\ waiter[r] \in 0..MaxGen
        /\ foreground \in Foreground /\ foreground' \in Foreground
    BY DEF TypeOK
  <2>2. /\ run[r].gen \in Gens /\ run'[r].gen \in Gens
        /\ run[r].epoch \in Epochs /\ run'[r].epoch \in Epochs
        /\ foreground.epoch \in Epochs /\ foreground'.epoch \in Epochs
    BY <2>1 DEF Run, Foreground
  <2>. QED
    BY <2>1, <2>2, Typed DEF Gen, Gens, Epochs
<1>2. ASSUME NEW r \in Runs PROVE NothingAhead(r)' /\ ActiveAlone(r)'
  <2>1. /\ NothingAhead(r) /\ ActiveAlone(r)
        /\ RowGoesOn(r) /\ AnswersKept(r) /\ NoneStarts(r)
    BY DEF AttemptsInOrder, InOrder
  <2>2. waiter'[r] <= run'[r].gen
    BY <1>1, <2>1 DEF NothingAhead, RowGoesOn, AnswersKept
  <2>3. ASSUME NEW g \in Gens, <<r, g>> \in revoked' \/ units'[r][g] \in Live
        PROVE  g <= run'[r].gen /\ run'[r].status # "none"
    <3>1. g <= Gen(r) /\ run[r].status # "none"
      BY <2>1, <2>3 DEF NothingAhead, NoneStarts
    <3>. QED
      BY <1>1, <2>1, <3>1, Typed DEF RowGoesOn
  <2>4. run'[r].status = "none" => run'[r].gen = 1 /\ waiter'[r] = 0
    BY <2>1 DEF NothingAhead, RowGoesOn, AnswersKept
  <2>5. run'[r].epoch <= foreground'.epoch
    BY <1>1, <2>1 DEF NothingAhead, RowGoesOn
  <2>6. ActiveAlone(r)'
    BY <2>1 DEF ActiveAlone, NoneStarts
  <2>. QED
    BY <2>2, <2>3, <2>4, <2>5, <2>6 DEF NothingAhead, Gen
<1>3. RunsOnlyIfAnswered'
  <2>. SUFFICES ASSUME NEW r \in Runs, run'[r].status = "running"
                PROVE  waiter'[r] # run'[r].gen
    BY DEF RunsOnlyIfAnswered, Running, Waiting, Gen
  <2>1. /\ NothingAhead(r) /\ (Running(r) => ~Waiting(r))
        /\ RowGoesOn(r) /\ AnswersKept(r)
    BY DEF AttemptsInOrder, RunsOnlyIfAnswered, InOrder
  <2>. QED
    BY <1>1, <2>1 DEF NothingAhead, RowGoesOn, AnswersKept, Running, Waiting
<1>4. CleanupMeansStopped'
  <2>. SUFFICES ASSUME NEW r \in Runs, run'[r].status = "terminated",
                       run'[r].cleanup = "completed", NEW g \in Gens
                PROVE  units'[r][g] \notin Live
    BY DEF CleanupMeansStopped, LiveUnits
  <2>1. CleanupKept(r) /\ NoneStarts(r)
    BY DEF InOrder
  <2>2. run[r].status = "terminated" /\ run[r].cleanup = "completed" =>
          units[r][g] \notin Live
    BY DEF AttemptsInOrder, CleanupMeansStopped, LiveUnits
  <2>. QED
    BY <2>1, <2>2 DEF CleanupKept, NoneStarts
<1>5. ASSUME NEW c \in Slots, NEW r \in Runs, control'[c].frozen[r] # "none"
      PROVE  run'[r].status # "none"
  <2>1. run'[r].status = "none" => run[r].status = "none"
    BY DEF InOrder, RowGoesOn
  <2>2. control[c].frozen[r] # "none" => run[r].status # "none"
    BY DEF AttemptsInOrder, Affected
  <2>. QED
    BY <1>5, <2>1, <2>2 DEF FrozenFromRuns
<1>. QED
  BY <1>2, <1>3, <1>4, <1>5 DEF AttemptsInOrder, Affected

(* A step of one Run.                                                      *)
LEMMA OneRunInOrder ==
  ASSUME TypeOK, NEW r \in Runs, InOrder(r),
         \A s \in Runs \ {r} : /\ run'[s] = run[s] /\ units'[s] = units[s]
                               /\ waiter'[s] = waiter[s],
         revoked' \ revoked \subseteq {r} \X Gens,
         foreground' = foreground
  PROVE  \A s \in Runs : InOrder(s)
<1>1. ASSUME NEW s \in Runs \ {r} PROVE InOrder(s)
  <2>1. foreground.epoch <= foreground'.epoch
    BY DEF TypeOK, Foreground, Epochs
  <2>2. \A g \in Gens : <<s, g>> \in revoked' => <<s, g>> \in revoked
    OBVIOUS
  <2>. QED
    BY <2>1, <2>2, LeftInOrder
<1>. QED
  BY <1>1

(* A Run that stays in its Attempt, or gets the next one, as far as its    *)
(* row and its waiter go: no unit starts and no Fence but the current one  *)
(* is revoked.                                                             *)
LEMMA RowInOrder ==
  ASSUME TypeOK, NEW r \in Runs, run[r].status # "none",
         run'[r].gen \in {Gen(r), Gen(r) + 1}, run'[r].status # "none",
         run'[r].epoch \in {run[r].epoch, foreground.epoch},
         foreground' = foreground,
         waiter'[r] = waiter[r], units'[r] = units[r],
         \A g \in Gens : <<r, g>> \in revoked' => <<r, g>> \in revoked \/ g = Gen(r),
         run'[r].status = "running" =>
           \/ run'[r].gen = Gen(r) + 1
           \/ run[r].status = "running"
           \/ waiter[r] # Gen(r),
         CleanupKept(r)
  PROVE  InOrder(r)
<1>1. RowGoesOn(r)
  BY DEF RowGoesOn, TypeOK, Foreground, Epochs
<1>2. AnswersKept(r)
  BY DEF AnswersKept
<1>3. NoneStarts(r)
  BY GenTypes DEF NoneStarts
<1>. QED
  BY <1>1, <1>2, <1>3 DEF InOrder

-----------------------------------------------------------------------------
(* The steps of one Run, in order                                          *)

LEMMA AdmitInOrder ==
  ASSUME TypeOK, AttemptsInOrder, NEW r \in Runs, Admit(r)
  PROVE  \A s \in Runs : InOrder(s)
<1>. USE DEF Admit
<1>1. /\ run'[r].status = "running" /\ run'[r].gen = 1
      /\ run'[r].epoch = foreground.epoch
      /\ \A s \in Runs \ {r} : run'[s] = run[s]
  BY DEF TypeOK
<1>2. NothingAhead(r)
  BY DEF AttemptsInOrder
<1>3. RowGoesOn(r)
  BY <1>1, <1>2 DEF RowGoesOn, NothingAhead, TypeOK, Foreground, Epochs
<1>4. AnswersKept(r) /\ NoneStarts(r) /\ CleanupKept(r)
  BY <1>1 DEF AnswersKept, NoneStarts, CleanupKept
<1>. QED
  BY <1>1, <1>3, <1>4, OneRunInOrder DEF InOrder

LEMMA RebindInOrder ==
  ASSUME TypeOK, NEW r \in Runs, Rebind(r)
  PROVE  \A s \in Runs : InOrder(s)
<1>. USE DEF Rebind
<1>1. Gen(r) + 1 \in Gens
  BY ReplaceTypes
<1>2. Successor(r) \in Run /\ Successor(r).status = "running"
      /\ Successor(r).gen = Gen(r) + 1
  BY <1>1, SuccessorTypes
<1>3. /\ run'[r].status = "running" /\ run'[r].gen = Gen(r) + 1
      /\ run'[r].epoch = foreground.epoch
      /\ \A s \in Runs \ {r} : run'[s] = run[s]
  BY <1>2 DEF TypeOK, Run
<1>4. CleanupKept(r)
  BY <1>3 DEF CleanupKept
<1>5. InOrder(r)
  BY <1>3, <1>4, RowInOrder
<1>. QED
  BY <1>3, <1>5, OneRunInOrder

(* A unit begins only beside stopped ones, in the current Attempt.         *)
LEMMA BeginUnitKeepsOrder ==
  ASSUME TypeOK, AttemptsInOrder, NEW r \in Runs, BeginUnit(r)
  PROVE  AttemptsInOrder'
<1>. USE DEF BeginUnit
<1>1. /\ Running(r) /\ Gen(r) \in Gens /\ Gen(r) <= Gen(r)
      /\ \A g \in Gens : units[r][g] # "active"
  BY GenTypes DEF MayBegin, Allows
<1>2. ASSUME NEW s \in Runs, NEW g \in Gens
      PROVE  units'[s][g] = IF s = r /\ g = Gen(r) THEN "active" ELSE units[s][g]
  BY <1>1 DEF TypeOK
<1>3. ASSUME NEW s \in Runs PROVE NothingAhead(s)' /\ ActiveAlone(s)'
  <2>1. NothingAhead(s) /\ ActiveAlone(s)
    BY DEF AttemptsInOrder
  <2>2. NothingAhead(s)'
    BY <1>1, <1>2, <2>1 DEF NothingAhead, Gen, Running
  <2>3. ActiveAlone(s)'
    BY <1>1, <1>2, <2>1 DEF ActiveAlone
  <2>. QED
    BY <2>2, <2>3
<1>4. RunsOnlyIfAnswered'
  BY DEF AttemptsInOrder, RunsOnlyIfAnswered, Running, Waiting, Gen
<1>5. CleanupMeansStopped'
  BY <1>1, <1>2 DEF AttemptsInOrder, CleanupMeansStopped, LiveUnits, Running
<1>. QED
  BY <1>3, <1>4, <1>5 DEF AttemptsInOrder, Affected

(* An acknowledgement stops units and reports a cleanup when none is left. *)
LEMMA AcknowledgeUnitInOrder ==
  ASSUME TypeOK, NEW r \in Runs, NEW g \in Gens, AcknowledgeUnit(r, g)
  PROVE  \A s \in Runs : InOrder(s)
<1>. USE DEF AcknowledgeUnit
<1>1. /\ run'[r].status = run[r].status /\ run'[r].gen = Gen(r)
      /\ run'[r].epoch = run[r].epoch
      /\ run'[r].cleanup = CleanupAfter(r, Acknowledged(r, g))
      /\ \A s \in Runs \ {r} : run'[s] = run[s]
  BY DEF TypeOK, Run, Gen
<1>2. /\ units'[r] = Acknowledged(r, g)
      /\ \A s \in Runs \ {r} : units'[s] = units[s]
  BY DEF TypeOK
<1>3. \A h \in Gens : \/ Acknowledged(r, g)[h] \notin Live
                      \/ Acknowledged(r, g)[h] = units[r][h]
  BY DEF Acknowledged, Live
<1>4. RowGoesOn(r)
  BY <1>1, GenTypes DEF RowGoesOn, TypeOK, Foreground, Epochs
<1>5. AnswersKept(r) /\ NoneStarts(r)
  BY <1>1, <1>2, <1>3 DEF AnswersKept, NoneStarts, Live
<1>6. CleanupKept(r)
  BY <1>1, <1>2 DEF CleanupKept, CleanupAfter
<1>. QED
  BY <1>1, <1>2, <1>4, <1>5, <1>6, OneRunInOrder DEF InOrder

LEMMA HardCeilingInOrder ==
  ASSUME TypeOK, NEW r \in Runs, NEW reason \in {"ceiling", "codex_operation_stopped"},
         HardCeiling(r, reason)
  PROVE  \A s \in Runs : InOrder(s)
<1>. USE DEF HardCeiling
<1>1. /\ run'[r].status = "suspended_fenced" /\ run'[r].gen = Gen(r)
      /\ run'[r].epoch = run[r].epoch
      /\ \A s \in Runs \ {r} : run'[s] = run[s]
  BY DEF TypeOK, Run, Gen
<1>2. run[r].status = "running"
  BY DEF Allows, Running
<1>3. /\ \A s \in Runs \ {r} : units'[s] = units[s]
      /\ \A g \in Gens : units'[r][g] \in {units[r][g], "revoked"}
  BY GenTypes DEF TypeOK
<1>4. /\ \A g \in Gens : <<r, g>> \in revoked' => <<r, g>> \in revoked \/ g = Gen(r)
      /\ revoked' \ revoked \subseteq {r} \X Gens
  BY GenTypes
<1>5. RowGoesOn(r)
  BY <1>1, <1>2, GenTypes DEF RowGoesOn, TypeOK, Foreground, Epochs
<1>6. AnswersKept(r) /\ CleanupKept(r)
  BY <1>1, <1>2 DEF AnswersKept, CleanupKept
<1>7. NoneStarts(r)
  BY <1>2, <1>3, <1>4, GenTypes DEF NoneStarts, Live
<1>. QED
  BY <1>1, <1>3, <1>4, <1>5, <1>6, <1>7, OneRunInOrder DEF InOrder

(* A successor takes over from a running Attempt, whose unit may be over.  *)
LEMMA SuccessorInOrder ==
  ASSUME TypeOK, NEW r \in Runs, Running(r), Replace({r}, {r}, {r}),
         \/ UNCHANGED units
         \/ units' = [units EXCEPT ![r][Gen(r)] = "completed"],
         run' = [run EXCEPT ![r] = Successor(r)],
         UNCHANGED <<revoked, waiter, foreground>>
  PROVE  \A s \in Runs : InOrder(s)
<1>1. Gen(r) + 1 \in Gens
  BY ReplaceTypes
<1>2. Successor(r) \in Run /\ Successor(r).status = "running"
      /\ Successor(r).gen = Gen(r) + 1 /\ Successor(r).epoch = run[r].epoch
  BY <1>1, SuccessorTypes DEF Successor, TypeOK, Run
<1>3. /\ run'[r] = Successor(r)
      /\ \A s \in Runs \ {r} : run'[s] = run[s]
  BY DEF TypeOK
<1>4. /\ \A s \in Runs \ {r} : units'[s] = units[s]
      /\ \A g \in Gens : units'[r][g] \in {units[r][g], "completed"}
  BY GenTypes DEF TypeOK
<1>5. RowGoesOn(r)
  BY <1>2, <1>3, GenTypes DEF RowGoesOn, TypeOK, Foreground, Epochs, Running
<1>6. AnswersKept(r) /\ NoneStarts(r) /\ CleanupKept(r)
  BY <1>2, <1>3, <1>4 DEF AnswersKept, NoneStarts, CleanupKept, Live
<1>. QED
  BY <1>3, <1>4, <1>5, <1>6, OneRunInOrder DEF InOrder

LEMMA RejectCandidateInOrder ==
  ASSUME TypeOK, NEW r \in Runs, RejectCandidate(r) PROVE \A s \in Runs : InOrder(s)
BY SuccessorInOrder DEF RejectCandidate

LEMMA ContinueAfterRejectionInOrder ==
  ASSUME TypeOK, NEW r \in Runs, ContinueAfterRejection(r)
  PROVE  \A s \in Runs : InOrder(s)
BY SuccessorInOrder DEF ContinueAfterRejection, Allows

LEMMA SubmitInOrder ==
  ASSUME TypeOK, NEW r \in Runs, Submit(r) PROVE \A s \in Runs : InOrder(s)
<1>1. foreground.epoch <= foreground'.epoch
  BY DEF Submit, TypeOK, Foreground, Epochs
<1>. QED
  BY <1>1, LeftInOrder DEF Submit

LEMMA CompleteRunInOrder ==
  ASSUME TypeOK, NEW r \in Runs, CompleteRun(r) PROVE \A s \in Runs : InOrder(s)
<1>. USE DEF CompleteRun
<1>1. /\ run'[r].status = "completed" /\ run'[r].gen = Gen(r)
      /\ run'[r].epoch = run[r].epoch
      /\ \A s \in Runs \ {r} : run'[s] = run[s]
  BY DEF TypeOK, Run, Gen
<1>2. run[r].status = "running"
  BY DEF MayComplete, Allows, Running
<1>3. CleanupKept(r)
  BY <1>1 DEF CleanupKept
<1>4. InOrder(r)
  BY <1>1, <1>2, <1>3, RowInOrder
<1>. QED
  BY <1>1, <1>4, OneRunInOrder

(* The Attempt that asks starts to wait, and its Run stops running.        *)
LEMMA OpenHumanRequestKeepsOrder ==
  ASSUME TypeOK, AttemptsInOrder, NEW r \in Runs, OpenHumanRequest(r)
  PROVE  AttemptsInOrder'
<1>. USE DEF OpenHumanRequest
<1>1. /\ run'[r].status = "suspended" /\ run'[r].gen = Gen(r)
      /\ run'[r].epoch = run[r].epoch
      /\ \A s \in Runs \ {r} : run'[s] = run[s]
  BY DEF TypeOK, Run, Gen
<1>2. /\ waiter'[r] = Gen(r)
      /\ \A s \in Runs \ {r} : waiter'[s] = waiter[s]
  BY DEF TypeOK
<1>3. run[r].status = "running"
  BY DEF Running
<1>4. ASSUME NEW s \in Runs PROVE NothingAhead(s)' /\ ActiveAlone(s)'
  <2>1. NothingAhead(s) /\ ActiveAlone(s)
    BY DEF AttemptsInOrder
  <2>2. NothingAhead(s)'
    <3>1. CASE s = r
      BY <1>1, <1>2, <1>3, <2>1, <3>1, GenTypes DEF NothingAhead, Gen
    <3>2. CASE s # r
      BY <1>1, <1>2, <2>1, <3>2 DEF NothingAhead, Gen
    <3>. QED
      BY <3>1, <3>2
  <2>. QED
    BY <2>1, <2>2 DEF ActiveAlone
<1>5. RunsOnlyIfAnswered'
  <2>1. ASSUME NEW s \in Runs \ {r}, Running(s)'
        PROVE  ~Waiting(s)'
    <3>1. run'[s] = run[s] /\ waiter'[s] = waiter[s]
      BY <1>1, <1>2
    <3>2. Running(s)
      BY <2>1, <3>1 DEF Running
    <3>3. ~Waiting(s)
      BY <3>2 DEF AttemptsInOrder, RunsOnlyIfAnswered
    <3>. QED
      BY <3>1, <3>3 DEF Waiting, Gen
  <2>2. ~Running(r)'
    BY <1>1 DEF Running
  <2>. QED
    BY <2>1, <2>2 DEF RunsOnlyIfAnswered
<1>6. CleanupMeansStopped'
  BY <1>1 DEF AttemptsInOrder, CleanupMeansStopped, LiveUnits
<1>7. ASSUME NEW c \in Slots, NEW s \in Runs, control'[c].frozen[s] # "none"
      PROVE  run'[s].status # "none"
  <2>1. control'[c].frozen = control[c].frozen
    BY TouchedTypes
  <2>2. run[s].status # "none"
    BY <1>7, <2>1 DEF AttemptsInOrder, Affected
  <2>. QED
    BY <1>1, <2>2
<1>. QED
  BY <1>4, <1>5, <1>6, <1>7 DEF AttemptsInOrder, Affected

(* The answer releases the Attempt that asked, or its successor.           *)
LEMMA AnswerRow ==
  ASSUME TypeOK, NEW r \in Runs, AnswerHumanRequest(r)
  PROVE  /\ run'[r].status = "running" /\ run'[r].epoch = run[r].epoch
         /\ run'[r].gen = IF AskedByFencedUnit(r) THEN Gen(r) + 1 ELSE Gen(r)
         /\ \A s \in Runs \ {r} : run'[s] = run[s] /\ waiter'[s] = waiter[s]
         /\ waiter'[r] = 0
         /\ run[r].status = "suspended"
<1>. DEFINE N == IF AskedByFencedUnit(r) THEN {r} ELSE {}
            running == [run[r] EXCEPT !.status = "running", !.reason = "none"]
<1>1. /\ run[r].status = "suspended"
      /\ waiter' = [waiter EXCEPT ![r] = 0]
      /\ run' = [run EXCEPT ![r] = IF N = {} THEN running
                                   ELSE [running EXCEPT !.gen = @ + 1]]
  BY DEF AnswerHumanRequest
<1>2. run[r] \in Run
  BY DEF TypeOK
<1>3. /\ running.status = "running" /\ running.gen = Gen(r)
      /\ running.epoch = run[r].epoch
      /\ running \in [status : {"running"}, gen : Gens, epoch : Epochs,
                      cleanup : {"none", "pending", "completed"},
                      reason : Reason]
  BY <1>2 DEF Run, Gen, Reason
<1>. HIDE DEF running
<1>4. /\ [running EXCEPT !.gen = @ + 1].status = "running"
      /\ [running EXCEPT !.gen = @ + 1].gen = Gen(r) + 1
      /\ [running EXCEPT !.gen = @ + 1].epoch = run[r].epoch
  BY <1>3
<1>. QED
  BY <1>1, <1>3, <1>4 DEF TypeOK

LEMMA AnswerHumanRequestInOrder ==
  ASSUME TypeOK, NEW r \in Runs, AnswerHumanRequest(r)
  PROVE  \A s \in Runs : InOrder(s)
<1>1. /\ run'[r].status = "running" /\ run'[r].epoch = run[r].epoch
      /\ run'[r].gen \in {Gen(r), Gen(r) + 1}
      /\ \A s \in Runs \ {r} : run'[s] = run[s] /\ waiter'[s] = waiter[s]
      /\ waiter'[r] = 0
      /\ run[r].status = "suspended"
  BY AnswerRow
<1>2. UNCHANGED <<revoked, units, foreground>>
  BY DEF AnswerHumanRequest
<1>3. RowGoesOn(r)
  BY <1>1, <1>2 DEF RowGoesOn, TypeOK, Foreground, Epochs
<1>4. AnswersKept(r) /\ NoneStarts(r) /\ CleanupKept(r)
  BY <1>1, <1>2 DEF AnswersKept, NoneStarts, CleanupKept
<1>. QED
  BY <1>1, <1>2, <1>3, <1>4, OneRunInOrder DEF InOrder

-----------------------------------------------------------------------------
(* Restart                                                                 *)

(* What a restart does to the rows: the interrupted Runs that were running *)
(* and those that stopped with the daemon go on in the next Attempt.       *)
LEMMA RestartRows ==
  ASSUME TypeOK, Restart
  PROVE  \E fenced \in SUBSET {u \in Runs \X Gens :
                                 units[u[1]][u[2]] \in Live /\ ~Held(u[1])} :
           /\ \A r \in Runs :
                \/ /\ \/ Running(r)
                      \/ r \in StoppedWithDaemon /\ ~Held(r)
                   /\ run'[r].status = "running" /\ run'[r].gen = Gen(r) + 1
                   /\ run'[r].epoch = run[r].epoch /\ run'[r].reason = "none"
                   /\ run'[r].cleanup = "none"
                   /\ fences'[r][Gen(r) + 1] = "current"
                \/ /\ run'[r] = run[r] /\ fences'[r] = fences[r]
                   /\ Running(r) => \A g \in Gens : <<r, g>> \notin fenced
           /\ \A u \in fenced : \/ units[u[1]][u[2]] = "active"
                                \/ Running(u[1])
           /\ \A r \in Runs, g \in Gens : /\ units'[r][g] # "active"
                                          /\ units'[r][g] \in Live =>
                                               units[r][g] \in Live
           /\ revoked' = revoked \cup fenced
           /\ \A c \in Slots, r \in Runs :
                control'[c].frozen[r] = control[c].frozen[r]
           /\ UNCHANGED <<waiter, foreground>>
<1>. PICK done \in SUBSET {u \in (Runs \X Gens) \ orphans :
                            units[u[1]][u[2]] \in Live} :
       LET replaced == {r \in Runs : Running(r) /\ \E u \in Fenced(done) :
                                                     u[1] = r}
           successors == replaced \cup StoppedWithDaemon
       IN  /\ \A r \in successors : Replaceable(r)
           /\ units' = [r \in Runs |-> [g \in Gens |->
                IF <<r, g>> \in Recorded(done) THEN "completed"
                ELSE IF units[r][g] = "active" THEN "revocation_pending"
                ELSE units[r][g]]]
           /\ revoked' = revoked \cup Fenced(done)
           /\ fences' = [r \in Runs |-> [g \in Gens |->
                IF r \in successors /\ g = Gen(r) + 1 THEN "current"
                ELSE IF r \in replaced /\ <<r, g>> \in Fenced(done)
                  THEN Rejected(fences[r][g])
                ELSE fences[r][g]]]
           /\ run' = [r \in Runs |->
                IF r \in successors THEN Successor(r) ELSE run[r]]
           /\ control' = Touched(successors, successors)
  BY DEF Restart
<1>. DEFINE replaced == {r \in Runs : Running(r) /\ \E u \in Fenced(done) :
                                                    u[1] = r}
            successors == replaced \cup StoppedWithDaemon
<1>1. UNCHANGED <<waiter, foreground>>
  BY DEF Restart
<1>2. /\ Fenced(done) \in SUBSET {u \in Runs \X Gens :
                                 units[u[1]][u[2]] \in Live /\ ~Held(u[1])}
      /\ \A u \in Fenced(done) : \/ units[u[1]][u[2]] = "active"
                                 \/ Running(u[1])
  BY DEF Fenced, Live
<1>3. \A r \in Runs, g \in Gens : /\ units'[r][g] # "active"
                                  /\ units'[r][g] \in Live =>
                                       units[r][g] \in Live
  BY DEF Live
<1>4. successors \in SUBSET Runs
  BY DEF StoppedWithDaemon
<1>5. \A r \in successors : Gen(r) + 1 \in Gens
  BY <1>4, GenTypes, Typed DEF Replaceable
<1>6. ASSUME NEW r \in Runs
      PROVE  \/ /\ \/ Running(r)
                   \/ r \in StoppedWithDaemon /\ ~Held(r)
                /\ run'[r].status = "running" /\ run'[r].gen = Gen(r) + 1
                /\ run'[r].epoch = run[r].epoch /\ run'[r].reason = "none"
                /\ run'[r].cleanup = "none"
                /\ fences'[r][Gen(r) + 1] = "current"
             \/ /\ run'[r] = run[r] /\ fences'[r] = fences[r]
                /\ Running(r) => \A g \in Gens : <<r, g>> \notin Fenced(done)
  <2>1. CASE r \in successors
    <3>1. run'[r] = Successor(r)
      BY <2>1
    <3>2. /\ Successor(r).status = "running" /\ Successor(r).gen = Gen(r) + 1
          /\ Successor(r).epoch = run[r].epoch /\ Successor(r).reason = "none"
          /\ Successor(r).cleanup = "none"
      BY DEF TypeOK, Run, Successor, Gen
    <3>3. fences'[r][Gen(r) + 1] = "current"
      BY <1>5, <2>1
    <3>4. Running(r) \/ (r \in StoppedWithDaemon /\ ~Held(r))
      BY <2>1 DEF StoppedWithDaemon
    <3>. QED
      BY <3>1, <3>2, <3>3, <3>4
  <2>2. CASE r \notin successors
    <3>1. run'[r] = run[r]
      BY <2>2
    <3>2. fences'[r] = fences[r]
      BY <2>2 DEF TypeOK
    <3>3. Running(r) => \A g \in Gens : <<r, g>> \notin Fenced(done)
      BY <2>2
    <3>. QED
      BY <3>1, <3>2, <3>3
  <2>. QED
    BY <2>1, <2>2
<1>7. \A c \in Slots, r \in Runs : control'[c].frozen[r] = control[c].frozen[r]
  BY <1>4, TouchedTypes
<1>. QED
  BY <1>1, <1>2, <1>3, <1>6, <1>7

LEMMA RestartInOrder ==
  ASSUME TypeOK, AttemptsInOrder, Restart
  PROVE  (\A r \in Runs : InOrder(r)) /\ FrozenFromRuns
<1>0. PICK fenced \in SUBSET {u \in Runs \X Gens :
                               units[u[1]][u[2]] \in Live /\ ~Held(u[1])} :
       /\ \A r \in Runs :
            \/ /\ Running(r) \/ r \in StoppedWithDaemon
               /\ run'[r].status = "running" /\ run'[r].gen = Gen(r) + 1
               /\ run'[r].epoch = run[r].epoch
            \/ run'[r] = run[r]
       /\ \A r \in Runs, g \in Gens : /\ units'[r][g] # "active"
                                      /\ units'[r][g] \in Live =>
                                           units[r][g] \in Live
       /\ revoked' = revoked \cup fenced
       /\ \A c \in Slots, r \in Runs :
            control'[c].frozen[r] = control[c].frozen[r]
       /\ UNCHANGED <<waiter, foreground>>
  BY RestartRows
<1>1. ASSUME NEW r \in Runs PROVE InOrder(r)
  <2>1. foreground.epoch <= foreground'.epoch
    BY <1>0 DEF TypeOK, Foreground, Epochs
  <2>2. RowGoesOn(r)
    BY <1>0, <2>1, GenTypes DEF RowGoesOn, Running, StoppedWithDaemon, Gen
  <2>3. AnswersKept(r)
    BY <1>0, GenTypes DEF AnswersKept
  <2>4. NoneStarts(r)
    <3>1. ASSUME NEW g \in Gens, <<r, g>> \in fenced
          PROVE  g <= Gen(r) /\ run[r].status # "none"
      <4>1. units[r][g] \in Live
        BY <1>0, <3>1
      <4>. QED
        BY <4>1 DEF AttemptsInOrder, NothingAhead
    <3>2. \A g \in Gens : <<r, g>> \in revoked' =>
            <<r, g>> \in revoked \/ (g <= Gen(r) /\ run[r].status # "none")
      BY <1>0, <3>1
    <3>3. ASSUME NEW g \in Gens
          PROVE  /\ units'[r][g] \in Live => units[r][g] \in Live
                 /\ units'[r][g] # "active"
      BY <1>0, <3>3
    <3>. QED
      BY <3>2, <3>3 DEF NoneStarts
  <2>5. CleanupKept(r)
    BY <1>0 DEF CleanupKept
  <2>. QED
    BY <2>2, <2>3, <2>4, <2>5 DEF InOrder
<1>2. FrozenFromRuns
  BY <1>0 DEF FrozenFromRuns
<1>. QED
  BY <1>1, <1>2

-----------------------------------------------------------------------------
(* Controls: what they do to the rows of the Runs they control             *)

(* The receipt keeps what the control of the Cycle froze.                  *)
LEMMA AppliedFrozen ==
  ASSUME TypeOK, NEW c \in Slots, NEW rows, NEW N \in SUBSET Runs
  PROVE  \A d \in Slots, r \in Runs :
           Applied(c, rows, N)[d].frozen[r] \in {control[d].frozen[r], "none"}
<1>. DEFINE t == Touched(Affected(c), N)
            k == [control[c] EXCEPT
                    !.phase = "applied",
                    !.suspends = \E r \in Controlled(c) :
                                   rows[r].status \in SuspendedStatus]
<1>1. t \in [Slots -> Control] /\ \A d \in Slots : t[d].frozen = control[d].frozen
  BY TouchedTypes DEF Affected
<1>2. Applied(c, rows, N) = [t EXCEPT ![c] = IF c = "run" THEN NoControl ELSE k]
  BY DEF Applied
<1>3. k.frozen = control[c].frozen
  BY DEF TypeOK, Control
<1>. HIDE DEF t, k
<1>4. ASSUME NEW d \in Slots
      PROVE  Applied(c, rows, N)[d].frozen \in {control[d].frozen, NoControl.frozen}
  BY <1>1, <1>2, <1>3
<1>. QED
  BY <1>4 DEF NoControl

(* The fields of a written row.                                            *)
LEMMA RowFields ==
  ASSUME TypeOK, NEW r \in Runs, NEW s, NEW cleanup
  PROVE  /\ Row(r, s, cleanup).status = s /\ Row(r, s, cleanup).gen = Gen(r)
         /\ Row(r, s, cleanup).epoch = run[r].epoch
         /\ Row(r, s, cleanup).cleanup = cleanup
         /\ Row(r, s, cleanup).reason = "none"
BY DEF TypeOK, Run, Row, Gen

LEMMA SuccessorFields ==
  ASSUME TypeOK, NEW r \in Runs
  PROVE  /\ Successor(r).status = "running" /\ Successor(r).gen = Gen(r) + 1
         /\ Successor(r).epoch = run[r].epoch
         /\ Successor(r).cleanup = "none" /\ Successor(r).reason = "none"
BY DEF TypeOK, Run, Successor, Gen

(* A controlled Run is admitted and not closed.                            *)
LEMMA ControlledOpen ==
  ASSUME TypeOK, AttemptsInOrder, NEW c \in Slots, NEW r \in Controlled(c)
  PROVE  /\ r \in Runs /\ r \in Affected(c)
         /\ run[r].status \in {"running"} \cup SuspendedStatus
<1>1. r \in Runs /\ r \in Affected(c) /\ ~Closed(r)
  BY DEF Controlled, Affected
<1>2. run[r].status # "none" /\ run[r].status \in RunStatus
  BY <1>1 DEF AttemptsInOrder, TypeOK, Run
<1>. QED
  BY <1>1, <1>2 DEF Closed, RunStatus

(* An applied control keeps the Attempts in order if the rows it writes do.*)
LEMMA ApplyInOrder ==
  ASSUME TypeOK, AttemptsInOrder, NEW c \in Slots, NEW N \in SUBSET Runs,
         NEW rows, control' = Applied(c, rows, N),
         UNCHANGED <<units, waiter, foreground>>,
         \A r \in Runs, g \in Gens : <<r, g>> \in revoked' =>
           <<r, g>> \in revoked \/ (g = Gen(r) /\ r \in Controlled(c)),
         \A r \in Runs \ Controlled(c) : run'[r] = run[r],
         \A r \in Controlled(c) :
           /\ run'[r].gen \in {Gen(r), Gen(r) + 1}
           /\ run'[r].status \in {"running"} \cup SuspendedStatus
           /\ run'[r].epoch = run[r].epoch
           /\ run'[r].status = "running" => \/ run'[r].gen = Gen(r) + 1
                                            \/ run[r].status = "running"
                                            \/ waiter[r] # Gen(r)
  PROVE  (\A r \in Runs : InOrder(r)) /\ FrozenFromRuns
<1>1. ASSUME NEW r \in Runs PROVE InOrder(r)
  <2>1. CASE r \notin Controlled(c)
    <3>1. foreground.epoch <= foreground'.epoch
      BY DEF TypeOK, Foreground, Epochs
    <3>. QED
      BY <2>1, <3>1, LeftInOrder
  <2>2. CASE r \in Controlled(c)
    <3>1. run[r].status \in {"running"} \cup SuspendedStatus
      BY <2>2, ControlledOpen
    <3>2. CleanupKept(r)
      BY <2>2 DEF CleanupKept, SuspendedStatus
    <3>3. run[r].status # "none" /\ run'[r].status # "none"
      BY <2>2, <3>1 DEF SuspendedStatus
    <3>. QED
      BY <2>2, <3>2, <3>3, RowInOrder
  <2>. QED
    BY <2>1, <2>2
<1>2. FrozenFromRuns
  BY AppliedFrozen DEF FrozenFromRuns
<1>. QED
  BY <1>1, <1>2

(* A graceful stop.                                                        *)
LEMMA SuspendRows ==
  ASSUME TypeOK, NEW c \in Slots, ApplySuspend(c)
  PROVE  /\ \A r \in Controlled(c) :
              /\ run'[r].status = "suspended" /\ run'[r].gen = Gen(r)
              /\ run'[r].epoch = run[r].epoch /\ run'[r].reason = "none"
         /\ \A r \in Runs \ Controlled(c) : run'[r] = run[r]
         /\ control' = Applied(c, run', {})
         /\ UNCHANGED <<fences, revoked, units, waiter, foreground>>
<1>. USE DEF ApplySuspend, attempts
<1>1. \A r \in Controlled(c) : r \in Runs /\ run'[r] = Row(r, "suspended", "none")
  BY ControlledRuns
<1>. QED
  BY <1>1, RowFields

LEMMA ApplySuspendInOrder ==
  ASSUME TypeOK, AttemptsInOrder, NEW c \in Slots, ApplySuspend(c)
  PROVE  (\A r \in Runs : InOrder(r)) /\ FrozenFromRuns
<1>1. \A r \in Controlled(c) : /\ run'[r].gen \in {Gen(r), Gen(r) + 1}
                               /\ run'[r].status \in {"running"} \cup SuspendedStatus
                               /\ run'[r].epoch = run[r].epoch
                               /\ run'[r].status # "running"
  BY SuspendRows DEF SuspendedStatus
<1>2. /\ \A r \in Runs \ Controlled(c) : run'[r] = run[r]
      /\ control' = Applied(c, run', {})
      /\ UNCHANGED <<fences, revoked, units, waiter, foreground>>
  BY SuspendRows
<1>. QED
  BY <1>1, <1>2, ApplyInOrder

(* The Runs of a handoff whose unit a restart interrupted.                 *)
Interrupted(c) == {r \in Controlled(c) : units[r][Gen(r)] = "revocation_pending"}

(* The Fences and rows of replaced Runs.                                   *)
LEMMA ReplaceFences ==
  ASSUME TypeOK, NEW N \in SUBSET Runs, NEW X, NEW Y, Replace(N, X, Y)
  PROVE  /\ \A r \in N : /\ fences'[r][Gen(r) + 1] = "current"
                         /\ Gen(r) + 1 \in Gens
         /\ \A r \in Runs \ N : fences'[r] = fences[r]
<1>1. \A r \in N : Gen(r) + 1 \in Gens /\ Gen(r) + 1 # Gen(r)
  BY ReplaceTypes, GenTypes
<1>2. ASSUME NEW r \in N PROVE fences'[r][Gen(r) + 1] = "current"
  <2>1. fences'[r] = [fences[r] EXCEPT
                        ![Gen(r)] = IF r \in X THEN Rejected(@) ELSE @,
                        ![Gen(r) + 1] = "current"]
    BY DEF Replace
  <2>2. fences[r] \in [Gens -> {"none", "current", "submitted",
                                "rejected", "completed"}]
    BY DEF TypeOK
  <2>. QED
    BY <1>1, <2>1, <2>2
<1>. QED
  BY <1>1, <1>2, ReplaceTypes

LEMMA HandoffRows ==
  ASSUME TypeOK, NEW c \in Slots, ApplyHandoff(c)
  PROVE  /\ \A r \in Controlled(c) :
              /\ run'[r].status = run[r].status
              /\ run'[r].epoch = run[r].epoch /\ run'[r].reason = "none"
         /\ \A r \in Interrupted(c) : /\ run'[r].gen = Gen(r) + 1
                                      /\ fences'[r][Gen(r) + 1] = "current"
         /\ \A r \in Controlled(c) \ Interrupted(c) : run'[r].gen = Gen(r)
         /\ \A r \in Runs \ Interrupted(c) : fences'[r] = fences[r]
         /\ \A r \in Runs \ Controlled(c) : run'[r] = run[r]
         /\ revoked' = revoked \cup {<<r, Gen(r)>> : r \in Interrupted(c)}
         /\ control' = Applied(c, run', Interrupted(c))
         /\ UNCHANGED <<units, waiter, foreground>>
<1>. DEFINE N == Interrupted(c)
<1>1. /\ Replace(N, N, {})
      /\ revoked' = revoked \cup {<<r, Gen(r)>> : r \in N}
      /\ run' = [r \in Runs |->
           IF r \in Controlled(c)
             THEN [run[r] EXCEPT !.reason = "none",
                                 !.gen = IF r \in N THEN @ + 1 ELSE @]
             ELSE run[r]]
      /\ control' = Applied(c, run', N)
      /\ UNCHANGED <<units, waiter, foreground>>
  BY DEF ApplyHandoff, Interrupted
<1>2. N \in SUBSET Runs /\ N \subseteq Controlled(c)
  BY ControlledRuns DEF Interrupted
<1>. HIDE DEF N
<1>3. /\ \A r \in N : fences'[r][Gen(r) + 1] = "current"
      /\ \A r \in Runs \ N : fences'[r] = fences[r]
  BY <1>1, <1>2, ReplaceFences
<1>4. ASSUME NEW r \in Controlled(c)
      PROVE  /\ run'[r].status = run[r].status
             /\ run'[r].epoch = run[r].epoch /\ run'[r].reason = "none"
             /\ run'[r].gen = IF r \in N THEN Gen(r) + 1 ELSE Gen(r)
  <2>1. r \in Runs
    BY ControlledRuns
  <2>2. run[r] \in Run
    BY <2>1 DEF TypeOK
  <2>3. run'[r] = [run[r] EXCEPT !.reason = "none",
                                 !.gen = IF r \in N THEN @ + 1 ELSE @]
    BY <1>1, <2>1
  <2>. QED
    BY <2>2, <2>3 DEF Run, Gen
<1>5. \A r \in Runs \ Controlled(c) : run'[r] = run[r]
  BY <1>1
<1>. QED
  BY <1>1, <1>2, <1>3, <1>4, <1>5 DEF N

LEMMA ApplyHandoffInOrder ==
  ASSUME TypeOK, AttemptsInOrder, NEW c \in Slots, ApplyHandoff(c)
  PROVE  (\A r \in Runs : InOrder(r)) /\ FrozenFromRuns
<1>1. ASSUME NEW r \in Controlled(c)
      PROVE  /\ run'[r].gen \in {Gen(r), Gen(r) + 1}
             /\ run'[r].status \in {"running"} \cup SuspendedStatus
             /\ run'[r].epoch = run[r].epoch
             /\ run'[r].status = run[r].status
  BY HandoffRows, ControlledOpen
<1>2. /\ Interrupted(c) \in SUBSET Runs /\ Interrupted(c) \subseteq Controlled(c)
      /\ \A r \in Runs \ Controlled(c) : run'[r] = run[r]
      /\ revoked' = revoked \cup {<<r, Gen(r)>> : r \in Interrupted(c)}
      /\ control' = Applied(c, run', Interrupted(c))
      /\ UNCHANGED <<units, waiter, foreground>>
  BY HandoffRows, ControlledRuns DEF Interrupted
<1>3. ASSUME NEW r \in Runs, NEW g \in Gens, <<r, g>> \in revoked'
      PROVE  <<r, g>> \in revoked \/ (g = Gen(r) /\ r \in Controlled(c))
  BY <1>2, <1>3
<1>. QED
  BY <1>1, <1>2, <1>3, ApplyInOrder

(* A resume: the Runs N go on in a new Attempt, which every fenced one     *)
(* does unless it waits for a human; the others go on in theirs.           *)
LEMMA ResumeRows ==
  ASSUME TypeOK, NEW c \in Slots, ApplyResume(c)
  PROVE  \E N \in SUBSET Controlled(c) :
           /\ \A r \in N : /\ run'[r].status = "running"
                           /\ run'[r].gen = Gen(r) + 1
                           /\ fences'[r][Gen(r) + 1] = "current"
           /\ \A r \in Controlled(c) \ N :
                /\ run'[r].gen = Gen(r)
                /\ run'[r].status = IF Waiting(r) THEN "suspended"
                                                  ELSE "running"
                /\ run[r].status = "suspended_fenced" => Waiting(r)
           /\ \A r \in Controlled(c) : /\ run'[r].epoch = run[r].epoch
                                       /\ run'[r].reason # "codex_operation_stopped"
           /\ \A r \in Runs \ N : fences'[r] = fences[r]
           /\ \A r \in Runs \ Controlled(c) : run'[r] = run[r]
           /\ revoked' \subseteq revoked \cup {<<r, Gen(r)>> : r \in N}
           /\ control' = Applied(c, run', N)
           /\ UNCHANGED <<units, waiter, foreground>>
<1>. DEFINE R == {r \in Controlled(c) : ~KeepsWaiting(r)}
            fenced == {r \in R : run[r].status = "suspended_fenced"}
<1>1. PICK stopped \in SUBSET {r \in R : MayHaveStopped(r)},
           fresh \in SUBSET {r \in fenced : run[r].reason = "ceiling"} :
        LET N == stopped \cup fenced
        IN  /\ Replace(N, stopped, stopped \cup fresh)
            /\ revoked' = revoked \cup {<<r, Gen(r)>> : r \in stopped}
            /\ run' = [r \in Runs |->
                 IF r \in N THEN Successor(r)
                 ELSE IF r \in R THEN Row(r, "running", "none")
                 ELSE IF r \in Controlled(c)
                   THEN [Row(r, "suspended", "none")
                           EXCEPT !.reason = "human_request_wait"]
                 ELSE run[r]]
            /\ control' = Applied(c, run', N)
  BY DEF ApplyResume
<1>. DEFINE N == stopped \cup fenced
<1>2. UNCHANGED <<units, waiter, foreground>>
  BY DEF ApplyResume
<1>3. N \in SUBSET Controlled(c) /\ N \in SUBSET Runs /\ N \subseteq R
  BY ControlledRuns
<1>4. \A r \in R : ~Waiting(r)
  BY DEF KeepsWaiting
<1>5. \A r \in Controlled(c) \ R : Waiting(r)
  BY DEF KeepsWaiting
<1>6. \A r \in R \ N : run[r].status # "suspended_fenced"
  OBVIOUS
<1>7. /\ revoked' \subseteq revoked \cup {<<r, Gen(r)>> : r \in N}
      /\ Replace(N, stopped, stopped \cup fresh)
      /\ control' = Applied(c, run', N)
      /\ run' = [r \in Runs |->
           IF r \in N THEN Successor(r)
           ELSE IF r \in R THEN Row(r, "running", "none")
           ELSE IF r \in Controlled(c)
             THEN [Row(r, "suspended", "none")
                     EXCEPT !.reason = "human_request_wait"]
           ELSE run[r]]
  BY <1>1
<1>. HIDE DEF N, R
<1>8. /\ \A r \in N : fences'[r][Gen(r) + 1] = "current"
      /\ \A r \in Runs \ N : fences'[r] = fences[r]
  BY <1>3, <1>7, ReplaceFences
<1>9. ASSUME NEW r \in N
      PROVE  /\ run'[r].status = "running" /\ run'[r].gen = Gen(r) + 1
             /\ run'[r].epoch = run[r].epoch /\ run'[r].reason = "none"
  BY <1>3, <1>7, SuccessorFields
<1>10. ASSUME NEW r \in R \ N
       PROVE  /\ run'[r].status = "running" /\ run'[r].gen = Gen(r)
              /\ run'[r].epoch = run[r].epoch /\ run'[r].reason = "none"
  <2>1. r \in Runs /\ run'[r] = Row(r, "running", "none")
    BY <1>7, ControlledRuns DEF R
  <2>. QED
    BY <2>1, RowFields
<1>11. ASSUME NEW r \in Controlled(c) \ R
       PROVE  /\ run'[r].status = "suspended" /\ run'[r].gen = Gen(r)
              /\ run'[r].epoch = run[r].epoch
              /\ run'[r].reason = "human_request_wait"
  <2>1. /\ r \in Runs /\ run[r] \in Run
        /\ run'[r] = [Row(r, "suspended", "none")
                        EXCEPT !.reason = "human_request_wait"]
    BY <1>3, <1>7, ControlledRuns DEF TypeOK
  <2>. QED
    BY <2>1 DEF Row, Run, Gen
<1>12. \A r \in Runs \ Controlled(c) : run'[r] = run[r]
  BY <1>3, <1>7 DEF R
<1>13. ASSUME NEW r \in Controlled(c) \ N
       PROVE  /\ run'[r].gen = Gen(r)
              /\ run'[r].status = IF Waiting(r) THEN "suspended"
                                                ELSE "running"
              /\ run[r].status = "suspended_fenced" => Waiting(r)
  BY <1>4, <1>5, <1>6, <1>10, <1>11
<1>14. \A r \in Controlled(c) : /\ run'[r].epoch = run[r].epoch
                                /\ run'[r].reason # "codex_operation_stopped"
  BY <1>9, <1>10, <1>11
<1>. N \in SUBSET Controlled(c)
  BY <1>3
<1>. WITNESS N \in SUBSET Controlled(c)
<1>. QED
  BY <1>2, <1>7, <1>8, <1>9, <1>12, <1>13, <1>14

LEMMA ApplyResumeInOrder ==
  ASSUME TypeOK, AttemptsInOrder, NEW c \in Slots, ApplyResume(c)
  PROVE  (\A r \in Runs : InOrder(r)) /\ FrozenFromRuns
<1>1. PICK N \in SUBSET Controlled(c) :
        /\ \A r \in N : run'[r].status = "running" /\ run'[r].gen = Gen(r) + 1
        /\ \A r \in Controlled(c) \ N :
             /\ run'[r].gen = Gen(r)
             /\ run'[r].status = IF Waiting(r) THEN "suspended" ELSE "running"
        /\ \A r \in Controlled(c) : run'[r].epoch = run[r].epoch
        /\ \A r \in Runs \ Controlled(c) : run'[r] = run[r]
        /\ revoked' \subseteq revoked \cup {<<r, Gen(r)>> : r \in N}
        /\ control' = Applied(c, run', N)
        /\ UNCHANGED <<units, waiter, foreground>>
  BY ResumeRows
<1>2. N \in SUBSET Runs
  BY ControlledRuns
<1>3. ASSUME NEW r \in Controlled(c)
      PROVE  /\ run'[r].gen \in {Gen(r), Gen(r) + 1}
             /\ run'[r].status \in {"running"} \cup SuspendedStatus
             /\ run'[r].epoch = run[r].epoch
             /\ run'[r].status = "running" => \/ run'[r].gen = Gen(r) + 1
                                              \/ run[r].status = "running"
                                              \/ waiter[r] # Gen(r)
  BY <1>1 DEF SuspendedStatus, Waiting
<1>4. ASSUME NEW r \in Runs, NEW g \in Gens, <<r, g>> \in revoked'
      PROVE  <<r, g>> \in revoked \/ (g = Gen(r) /\ r \in Controlled(c))
  BY <1>1, <1>4
<1>. QED
  BY <1>1, <1>2, <1>3, <1>4, ApplyInOrder

(* Restored Runs are suspended; the fenced ones get a live Fence.          *)
LEMMA RestoreRows ==
  ASSUME TypeOK, NEW c \in Slots, ApplyRestore(c)
  PROVE  /\ \A r \in Controlled(c) :
              /\ run'[r].status = "suspended"
              /\ run'[r].epoch = run[r].epoch /\ run'[r].reason = "none"
              /\ IF run[r].status = "suspended_fenced"
                   THEN /\ run'[r].gen = Gen(r) + 1
                        /\ fences'[r][Gen(r) + 1] = "current"
                   ELSE /\ run'[r].gen = Gen(r)
                        /\ fences'[r] = fences[r]
         /\ \A r \in Runs \ Controlled(c) : run'[r] = run[r] /\ fences'[r] = fences[r]
         /\ \E N \in SUBSET Runs : control' = Applied(c, run', N)
         /\ UNCHANGED <<revoked, units, waiter, foreground>>
<1>. DEFINE N == {r \in Controlled(c) : run[r].status = "suspended_fenced"}
<1>1. /\ Replace(N, {}, {})
      /\ run' = [r \in Runs |->
           IF r \in Controlled(c)
             THEN [Row(r, "suspended", "none")
                     EXCEPT !.gen = IF r \in N THEN @ + 1 ELSE @]
             ELSE run[r]]
      /\ control' = Applied(c, run', N)
      /\ UNCHANGED <<revoked, units, waiter, foreground>>
  BY DEF ApplyRestore
<1>2. N \in SUBSET Runs /\ N \subseteq Controlled(c)
  BY ControlledRuns
<1>3. \A r \in Controlled(c) : r \in N <=> run[r].status = "suspended_fenced"
  OBVIOUS
<1>. HIDE DEF N
<1>4. /\ \A r \in N : fences'[r][Gen(r) + 1] = "current"
      /\ \A r \in Runs \ N : fences'[r] = fences[r]
  BY <1>1, <1>2, ReplaceFences
<1>5. ASSUME NEW r \in Controlled(c)
      PROVE  /\ run'[r].status = "suspended"
             /\ run'[r].epoch = run[r].epoch /\ run'[r].reason = "none"
             /\ run'[r].gen = IF r \in N THEN Gen(r) + 1 ELSE Gen(r)
  <2>1. /\ r \in Runs /\ run[r] \in Run
        /\ run'[r] = [Row(r, "suspended", "none")
                        EXCEPT !.gen = IF r \in N THEN @ + 1 ELSE @]
    BY <1>1, ControlledRuns DEF TypeOK
  <2>. QED
    BY <2>1 DEF Row, Run, Gen
<1>6. \A r \in Runs \ Controlled(c) : run'[r] = run[r] /\ fences'[r] = fences[r]
  BY <1>1, <1>2, <1>4
<1>7. \A r \in Controlled(c) : r \in Runs
  BY ControlledRuns
<1>. QED
  BY <1>1, <1>2, <1>3, <1>4, <1>5, <1>6, <1>7

LEMMA ApplyRestoreInOrder ==
  ASSUME TypeOK, AttemptsInOrder, NEW c \in Slots, ApplyRestore(c)
  PROVE  (\A r \in Runs : InOrder(r)) /\ FrozenFromRuns
<1>1. /\ \A r \in Controlled(c) :
           /\ run'[r].status = "suspended" /\ run'[r].epoch = run[r].epoch
           /\ run'[r].gen \in {Gen(r), Gen(r) + 1}
      /\ \A r \in Runs \ Controlled(c) : run'[r] = run[r]
      /\ UNCHANGED <<revoked, units, waiter, foreground>>
  BY RestoreRows
<1>2. PICK N \in SUBSET Runs : control' = Applied(c, run', N)
  BY RestoreRows
<1>. QED
  BY <1>1, <1>2, ApplyInOrder DEF SuspendedStatus

(* Force: the Fences are revoked and the units told to stop.               *)
LEMMA ForceRows ==
  ASSUME TypeOK, NEW c \in Slots, ApplyForce(c)
  PROVE  /\ \A r \in Controlled(c) :
              /\ run'[r].status = IF control[c].action = "cancel"
                                    THEN "terminated" ELSE "suspended_fenced"
              /\ run'[r].gen = Gen(r)
              /\ run'[r].epoch = run[r].epoch /\ run'[r].reason = "none"
              /\ run'[r].cleanup = "completed" => LiveUnits(r) = {}
              /\ \A g \in Gens : /\ units'[r][g] # "active"
                                 /\ units'[r][g] \in Live <=> units[r][g] \in Live
         /\ \A r \in Runs \ Controlled(c) :
              /\ run'[r] = run[r] /\ fences'[r] = fences[r]
              /\ units'[r] = units[r]
         /\ revoked' = revoked \cup {<<r, Gen(r)>> : r \in Controlled(c)}
         /\ control' = Applied(c, run', {})
         /\ UNCHANGED <<waiter, foreground>>
<1>. DEFINE C == Controlled(c)
            cancelled == IF control[c].action = "cancel" THEN C ELSE {}
<1>1. /\ units' = [r \in Runs |-> [g \in Gens |->
           IF r \in C /\ units[r][g] = "active"
             THEN "revocation_pending" ELSE units[r][g]]]
      /\ revoked' = revoked \cup {<<r, Gen(r)>> : r \in C}
      /\ fences' = [r \in Runs |->
           IF r \in cancelled
             THEN [fences[r] EXCEPT ![Gen(r)] = Rejected(@)] ELSE fences[r]]
      /\ run' = [r \in Runs |->
           IF r \in C
             THEN Row(r,
                      IF r \in cancelled THEN "terminated"
                                         ELSE "suspended_fenced",
                      IF LiveUnits(r) # {} THEN "pending"
                      ELSE IF r \in cancelled THEN "completed" ELSE "none")
             ELSE run[r]]
      /\ control' = Applied(c, run', {})
      /\ UNCHANGED <<waiter, foreground>>
  BY DEF ApplyForce
<1>2. C \in SUBSET Runs
  BY ControlledRuns
<1>3. ASSUME NEW r \in C
      PROVE  /\ run'[r].status = IF control[c].action = "cancel"
                                   THEN "terminated" ELSE "suspended_fenced"
             /\ run'[r].gen = Gen(r)
             /\ run'[r].epoch = run[r].epoch /\ run'[r].reason = "none"
             /\ run'[r].cleanup = "completed" => LiveUnits(r) = {}
  <2>1. run'[r] = Row(r,
                      IF r \in cancelled THEN "terminated"
                                         ELSE "suspended_fenced",
                      IF LiveUnits(r) # {} THEN "pending"
                      ELSE IF r \in cancelled THEN "completed" ELSE "none")
    BY <1>1, <1>2
  <2>2. r \in cancelled <=> control[c].action = "cancel"
    OBVIOUS
  <2>3. r \in Runs
    BY <1>2
  <2>. HIDE DEF cancelled, C
  <2>. QED
    BY <2>1, <2>2, <2>3, RowFields
<1>4. ASSUME NEW r \in C, NEW g \in Gens
      PROVE  /\ units'[r][g] # "active"
             /\ units'[r][g] \in Live <=> units[r][g] \in Live
  BY <1>1, <1>2 DEF Live
<1>5. ASSUME NEW r \in Runs \ C
      PROVE  run'[r] = run[r] /\ fences'[r] = fences[r] /\ units'[r] = units[r]
  BY <1>1 DEF TypeOK
<1>. QED
  BY <1>1, <1>3, <1>4, <1>5

LEMMA ApplyForceInOrder ==
  ASSUME TypeOK, AttemptsInOrder, NEW c \in Slots, ApplyForce(c)
  PROVE  (\A r \in Runs : InOrder(r)) /\ FrozenFromRuns
<1>1. foreground.epoch <= foreground'.epoch /\ foreground' = foreground
  BY ForceRows DEF TypeOK, Foreground, Epochs
<1>2. ASSUME NEW r \in Controlled(c) PROVE InOrder(r)
  <2>1. /\ r \in Runs
        /\ run[r].status \in {"running"} \cup SuspendedStatus
    BY ControlledOpen
  <2>2. /\ run'[r].status \in {"terminated", "suspended_fenced"}
        /\ run'[r].gen = Gen(r) /\ run'[r].epoch = run[r].epoch
        /\ run'[r].cleanup = "completed" => LiveUnits(r) = {}
        /\ \A g \in Gens : /\ units'[r][g] # "active"
                           /\ units'[r][g] \in Live => units[r][g] \in Live
        /\ waiter'[r] = waiter[r]
    BY ForceRows
  <2>3. ASSUME NEW g \in Gens, <<r, g>> \in revoked'
        PROVE  <<r, g>> \in revoked \/ g = Gen(r)
    <3>1. revoked' = revoked \cup {<<s, Gen(s)>> : s \in Controlled(c)}
      BY ForceRows
    <3>. QED
      BY <2>3, <3>1
  <2>4. RowGoesOn(r)
    BY <1>1, <2>1, <2>2, GenTypes DEF RowGoesOn
  <2>5. AnswersKept(r)
    BY <2>2 DEF AnswersKept
  <2>6. NoneStarts(r)
    BY <2>1, <2>2, <2>3, GenTypes DEF NoneStarts, SuspendedStatus
  <2>7. CleanupKept(r)
    BY <2>2 DEF CleanupKept, LiveUnits
  <2>. QED
    BY <2>4, <2>5, <2>6, <2>7 DEF InOrder
<1>3. ASSUME NEW r \in Runs \ Controlled(c) PROVE InOrder(r)
  <2>1. /\ run'[r] = run[r] /\ units'[r] = units[r] /\ waiter'[r] = waiter[r]
    BY ForceRows
  <2>2. \A g \in Gens : <<r, g>> \in revoked' => <<r, g>> \in revoked
    <3>1. revoked' = revoked \cup {<<s, Gen(s)>> : s \in Controlled(c)}
      BY ForceRows
    <3>. QED
      BY <3>1
  <2>. QED
    BY <1>1, <2>1, <2>2, LeftInOrder
<1>4. FrozenFromRuns
  <2>1. control' = Applied(c, run', {})
    BY ForceRows
  <2>. QED
    BY <2>1, AppliedFrozen DEF FrozenFromRuns
<1>. QED
  BY <1>2, <1>3, <1>4

-----------------------------------------------------------------------------
(* Controls: prepare, abort, and what the other Owners make of them        *)

(* The rows, the units and the waiters stay; the head may move on.         *)
LEMMA RowsLeftInOrder ==
  ASSUME TypeOK, UNCHANGED <<run, attempts>>,
         foreground.epoch <= foreground'.epoch
  PROVE  \A r \in Runs : InOrder(r)
BY LeftInOrder DEF attempts

LEMMA PrepareControlInOrder ==
  ASSUME TypeOK, NEW a \in Actions, PrepareControl(a)
  PROVE  (\A r \in Runs : InOrder(r)) /\ FrozenFromRuns
<1>. USE DEF PrepareControl
<1>. DEFINE p == Prepared(a, {r \in Runs : InScope(r)})
<1>1. \A r \in Runs : p.frozen[r] \in {run[r].status, "none"}
  BY PreparedTypes, RuntimeAssumption
<1>2. control' = [control EXCEPT !["cycle"] = p]
  OBVIOUS
<1>. HIDE DEF p
<1>3. FrozenFromRuns
  BY <1>1, <1>2 DEF FrozenFromRuns, TypeOK, Slots
<1>4. foreground.epoch <= foreground'.epoch
  BY DEF TypeOK, Foreground, Epochs
<1>. QED
  BY <1>3, <1>4, RowsLeftInOrder

LEMMA PrepareRunControlInOrder ==
  ASSUME TypeOK, NEW a \in RunActions, NEW r \in Runs, PrepareRunControl(a, r)
  PROVE  (\A s \in Runs : InOrder(s)) /\ FrozenFromRuns
<1>. USE DEF PrepareRunControl
<1>. DEFINE p == Prepared(a, {r})
<1>1. \A s \in Runs : p.frozen[s] \in {run[s].status, "none"}
  BY PreparedTypes DEF RunActions, ControlActions
<1>2. control' = [control EXCEPT !["run"] = p]
  OBVIOUS
<1>. HIDE DEF p
<1>3. FrozenFromRuns
  BY <1>1, <1>2 DEF FrozenFromRuns, TypeOK, Slots
<1>4. foreground.epoch <= foreground'.epoch
  BY DEF TypeOK, Foreground, Epochs
<1>. QED
  BY <1>3, <1>4, RowsLeftInOrder

(* A control ends: nothing of it is frozen any more.                       *)
LEMMA ControlEnds ==
  ASSUME TypeOK, NEW c \in Slots, control' = [control EXCEPT ![c] = NoControl]
  PROVE  FrozenFromRuns
BY DEF FrozenFromRuns, NoControl, TypeOK

LEMMA AbortControlInOrder ==
  ASSUME TypeOK, NEW c \in Slots, AbortControl(c)
  PROVE  (\A r \in Runs : InOrder(r)) /\ FrozenFromRuns
<1>1. foreground.epoch <= foreground'.epoch
  BY DEF AbortControl, TypeOK, Foreground, Epochs
<1>. QED
  BY <1>1, RowsLeftInOrder, ControlEnds DEF AbortControl

(* The epoch of the head only grows.                                       *)
LEMMA SettleEpoch ==
  ASSUME TypeOK, Settle \/ InvalidateSwitch
  PROVE  /\ foreground.epoch <= foreground'.epoch
         /\ control' = [control EXCEPT !["cycle"] = NoControl]
         /\ UNCHANGED <<run, attempts>>
<1>1. foreground \in Foreground /\ foreground.epoch \in Nat
  BY DEF TypeOK, Foreground, Epochs
<1>2. CASE InvalidateSwitch
  BY <1>1, <1>2 DEF InvalidateSwitch, EndControl
<1>3. CASE Settle
  <2>1. \/ foreground' = [foreground EXCEPT !.open = FALSE]
        \/ foreground' = [foreground EXCEPT !.open = FALSE, !.revoked = TRUE]
        \/ foreground' = [foreground EXCEPT !.open = FALSE, !.pruned = TRUE]
        \/ foreground' = [foreground EXCEPT !.pruned = FALSE]
        \/ foreground' = [foreground EXCEPT
             !.open = TRUE, !.revoked = FALSE,
             !.epoch = IF foreground.revoked THEN @ + 1 ELSE @]
        \/ foreground' = [foreground EXCEPT !.here = FALSE]
    BY <1>3 DEF Settle, EndControl
  <2>2. foreground'.epoch \in {foreground.epoch, foreground.epoch + 1}
    BY <1>1, <2>1 DEF Foreground
  <2>3. foreground.epoch <= foreground'.epoch
    BY <1>1, <2>2
  <2>. QED
    BY <1>3, <2>3 DEF Settle, EndControl
<1>. QED
  BY <1>2, <1>3

LEMMA SettleInOrder ==
  ASSUME TypeOK, Settle \/ InvalidateSwitch
  PROVE  (\A r \in Runs : InOrder(r)) /\ FrozenFromRuns
BY SettleEpoch, RowsLeftInOrder, ControlEnds DEF Slots

LEMMA SwitchBackInOrder ==
  ASSUME TypeOK, SwitchBack
  PROVE  (\A r \in Runs : InOrder(r)) /\ FrozenFromRuns
<1>1. foreground.epoch <= foreground'.epoch
  BY DEF SwitchBack, TypeOK, Foreground, Epochs
<1>. QED
  BY <1>1, RowsLeftInOrder DEF SwitchBack, FrozenFromRuns

(* A compensation: Runs that ran go on in the next Attempt, those that     *)
(* were suspended are fenced, closed ones are as they were.                *)
LEMMA CompensateRows ==
  ASSUME IInv, Compensate
  PROVE  /\ \A r \in Runs :
              /\ Head.frozen[r] = "running" =>
                   /\ ~Closed(r)
                   /\ run'[r].status = "running" /\ run'[r].gen = Gen(r) + 1
                   /\ run'[r].epoch = run[r].epoch /\ run'[r].reason = "none"
                   /\ fences'[r][Gen(r) + 1] = "current"
              /\ Head.frozen[r] \in SuspendedStatus =>
                   /\ run'[r].status = "suspended_fenced"
                   /\ run'[r].gen = Gen(r)
                   /\ run'[r].epoch = run[r].epoch /\ run'[r].reason = "none"
              /\ Head.frozen[r] \in ClosedStatus =>
                   /\ run'[r].status = run[r].status /\ run'[r].gen = Gen(r)
                   /\ run'[r].epoch = run[r].epoch /\ run'[r].reason = "none"
                   /\ run'[r].cleanup = "none" /\ fences'[r] = fences[r]
                   /\ Closed(r)
              /\ Head.frozen[r] = "none" =>
                   run'[r] = run[r] /\ fences'[r] = fences[r]
              /\ Head.frozen[r] \in RunStatus
         /\ \A r \in Runs, g \in Gens : <<r, g>> \in revoked' =>
              \/ <<r, g>> \in revoked
              \/ g = Gen(r) /\ Head.frozen[r] \in {"running"} \cup SuspendedStatus
         /\ Head' = NoControl
         /\ \A c \in Slots, r \in Runs :
              control'[c].frozen[r] \in {control[c].frozen[r], "none"}
         /\ UNCHANGED <<units, waiter, foreground>>
<1>. DEFINE frozen == Head.frozen
            N == {r \in Runs : frozen[r] = "running"}
            F == {r \in Runs : frozen[r] \in SuspendedStatus}
<1>1. /\ \A r \in N : ~Closed(r) /\ Replaceable(r)
      /\ revoked' = revoked \cup {<<r, Gen(r)>> : r \in N \cup F}
      /\ fences' = [r \in Runs |->
           [g \in Gens |->
              IF r \in N /\ g = Gen(r) + 1 THEN "current"
              ELSE IF r \in N \cup F /\ g = Gen(r) THEN Rejected(fences[r][g])
              ELSE fences[r][g]]]
      /\ run' = [r \in Runs |->
           IF r \in N THEN Successor(r)
           ELSE IF r \in F THEN Row(r, "suspended_fenced", "none")
           ELSE IF frozen[r] # "none" THEN Row(r, frozen[r], "none")
           ELSE run[r]]
      /\ control' = [Touched(Affected("cycle"), N) EXCEPT
                       !["cycle"] = NoControl]
      /\ UNCHANGED <<units, waiter, foreground>>
  BY DEF Compensate
<1>2. TypeOK /\ FrozenClosedKept
  BY DEF IInv
<1>3. frozen \in [Runs -> RunStatus]
  BY <1>2 DEF TypeOK, Head, Slots, Control
<1>4. \A r \in N : Gen(r) + 1 \in Gens
  BY <1>1, <1>2, GenTypes, Typed DEF Replaceable
<1>5. ASSUME NEW r \in Runs, frozen[r] = "running"
      PROVE  /\ ~Closed(r)
             /\ run'[r].status = "running" /\ run'[r].gen = Gen(r) + 1
             /\ run'[r].epoch = run[r].epoch /\ run'[r].reason = "none"
             /\ fences'[r][Gen(r) + 1] = "current"
  <2>1. r \in N /\ run'[r] = Successor(r)
    BY <1>1, <1>5
  <2>. QED
    BY <1>1, <1>2, <1>4, <2>1, SuccessorFields
<1>6. ASSUME NEW r \in Runs, frozen[r] \in SuspendedStatus
      PROVE  /\ run'[r].status = "suspended_fenced"
             /\ run'[r].gen = Gen(r)
             /\ run'[r].epoch = run[r].epoch /\ run'[r].reason = "none"
  <2>1. run'[r] = Row(r, "suspended_fenced", "none")
    BY <1>1, <1>6 DEF SuspendedStatus
  <2>. QED
    BY <1>2, <2>1, RowFields
<1>7. ASSUME NEW r \in Runs, frozen[r] \in ClosedStatus
      PROVE  /\ run'[r].status = run[r].status /\ run'[r].gen = Gen(r)
             /\ run'[r].epoch = run[r].epoch /\ run'[r].reason = "none"
             /\ run'[r].cleanup = "none" /\ fences'[r] = fences[r]
             /\ Closed(r)
  <2>1. r \notin N \cup F /\ frozen[r] # "none"
    BY <1>7 DEF ClosedStatus, SuspendedStatus
  <2>2. run'[r] = Row(r, frozen[r], "none") /\ fences'[r] = fences[r]
    BY <1>1, <1>2, <2>1 DEF TypeOK
  <2>3. run[r].status = frozen[r]
    BY <1>2, <1>7 DEF FrozenClosedKept
  <2>. QED
    BY <1>2, <1>7, <2>2, <2>3, RowFields DEF Closed
<1>8. ASSUME NEW r \in Runs, frozen[r] = "none"
      PROVE  run'[r] = run[r] /\ fences'[r] = fences[r]
  BY <1>1, <1>2, <1>8 DEF TypeOK, SuspendedStatus
<1>9. ASSUME NEW r \in Runs, NEW g \in Gens, <<r, g>> \in revoked'
      PROVE  \/ <<r, g>> \in revoked
             \/ g = Gen(r) /\ frozen[r] \in {"running"} \cup SuspendedStatus
  BY <1>1, <1>9
<1>10. /\ Touched(Affected("cycle"), N) \in [Slots -> Control]
       /\ \A c \in Slots : Touched(Affected("cycle"), N)[c].frozen
                             = control[c].frozen
  <2>1. Affected("cycle") \in SUBSET Runs /\ N \in SUBSET Runs
    BY DEF Affected
  <2>. HIDE DEF N
  <2>. QED
    BY <1>2, <2>1, TouchedTypes
<1>11. Head' = NoControl
  BY <1>1, <1>10 DEF Head, Slots
<1>12. ASSUME NEW c \in Slots, NEW r \in Runs
       PROVE  control'[c].frozen[r] \in {control[c].frozen[r], "none"}
  <2>1. CASE c = "cycle"
    BY <1>11, <2>1 DEF Head, NoControl
  <2>2. CASE c # "cycle"
    BY <1>1, <1>10, <2>2
  <2>. QED
    BY <2>1, <2>2
<1>. QED
  <2>1. \A r \in Runs : Head.frozen[r] \in RunStatus
    BY <1>3
  <2>2. UNCHANGED <<units, waiter, foreground>>
    BY <1>1
  <2>. QED
    BY <1>5, <1>6, <1>7, <1>8, <1>9, <1>11, <1>12, <2>1, <2>2

LEMMA CompensateInOrder ==
  ASSUME IInv, AttemptsInOrder, Compensate
  PROVE  (\A r \in Runs : InOrder(r)) /\ FrozenFromRuns
<1>. USE DEF IInv
<1>1. ASSUME NEW r \in Runs PROVE InOrder(r)
  <2>1. /\ waiter'[r] = waiter[r] /\ units'[r] = units[r]
        /\ foreground' = foreground
        /\ \A g \in Gens : <<r, g>> \in revoked' =>
             \/ <<r, g>> \in revoked
             \/ g = Gen(r) /\ Head.frozen[r] \in {"running"} \cup SuspendedStatus
    BY CompensateRows
  <2>2. CASE Head.frozen[r] = "none"
    <3>1. foreground.epoch <= foreground'.epoch
      BY <2>1 DEF TypeOK, Foreground, Epochs
    <3>2. run'[r] = run[r]
      BY <2>2, CompensateRows
    <3>. QED
      BY <2>1, <2>2, <3>1, <3>2, LeftInOrder DEF SuspendedStatus
  <2>3. CASE Head.frozen[r] # "none"
    <3>1. run[r].status # "none"
      BY <2>3 DEF AttemptsInOrder, Affected, Slots, Head
    <3>2. /\ run'[r].gen \in {Gen(r), Gen(r) + 1}
          /\ run'[r].epoch = run[r].epoch
          /\ run'[r].status = "running" => run'[r].gen = Gen(r) + 1
          /\ run'[r].status # "none"
          /\ run'[r].status = "terminated" => run'[r].cleanup = "none"
      <4>1. CASE Head.frozen[r] = "running"
        BY <4>1, CompensateRows
      <4>2. CASE Head.frozen[r] \in SuspendedStatus
        BY <4>2, CompensateRows
      <4>3. CASE Head.frozen[r] \in ClosedStatus
        BY <3>1, <4>3, CompensateRows DEF Closed, ClosedStatus
      <4>4. Head.frozen[r] \in RunStatus
        BY CompensateRows
      <4>. QED
        BY <2>3, <4>1, <4>2, <4>3, <4>4 DEF RunStatus
    <3>3. CleanupKept(r)
      BY <3>2 DEF CleanupKept
    <3>4. \A g \in Gens : <<r, g>> \in revoked' => <<r, g>> \in revoked \/ g = Gen(r)
      BY <2>1
    <3>. QED
      BY <2>1, <3>1, <3>2, <3>3, <3>4, RowInOrder
  <2>. QED
    BY <2>2, <2>3
<1>2. FrozenFromRuns
  BY CompensateRows DEF FrozenFromRuns
<1>. QED
  BY <1>1, <1>2

-----------------------------------------------------------------------------
(* Every step                                                              *)

(* What a control froze stays while a step touches one Run.                *)
LEMMA TouchedFrozen ==
  ASSUME TypeOK, NEW r \in Runs,
         \/ control' = control
         \/ \E S \in SUBSET Runs : control' = Touched({r}, S)
  PROVE  FrozenFromRuns
<1>1. ASSUME NEW S \in SUBSET Runs, NEW c \in Slots
      PROVE  Touched({r}, S)[c].frozen = control[c].frozen
  BY TouchedTypes
<1>. QED
  BY <1>1 DEF FrozenFromRuns

LEMMA RunStepKeepsOrder ==
  ASSUME TypeOK, TypeOK', AttemptsInOrder, NEW r \in Runs,
         \/ Admit(r) \/ Rebind(r) \/ BeginUnit(r)
         \/ RejectCandidate(r) \/ Submit(r)
         \/ ContinueAfterRejection(r) \/ CompleteRun(r)
         \/ OpenHumanRequest(r) \/ AnswerHumanRequest(r)
         \/ \E g \in Gens : AcknowledgeUnit(r, g)
         \/ \E reason \in {"ceiling", "codex_operation_stopped"} :
              HardCeiling(r, reason)
  PROVE  AttemptsInOrder'
<1>. DEFINE Order == \A s \in Runs : InOrder(s)
            Sets == \/ control' = control
                    \/ \E S \in SUBSET Runs : control' = Touched({r}, S)
<1>1. CASE Order /\ Sets
  BY <1>1, TouchedFrozen, InOrderKeeps
<1>2. CASE Admit(r) \/ Submit(r) \/ \E g \in Gens : AcknowledgeUnit(r, g)
  <2>1. Order
    BY <1>2, AdmitInOrder, SubmitInOrder, AcknowledgeUnitInOrder
  <2>2. control' = control
    BY <1>2 DEF Admit, Submit, AcknowledgeUnit
  <2>. QED
    BY <1>1, <2>1, <2>2
<1>3. CASE Rebind(r) \/ RejectCandidate(r) \/ ContinueAfterRejection(r)
  <2>1. Order
    BY <1>3, RebindInOrder, RejectCandidateInOrder,
       ContinueAfterRejectionInOrder
  <2>2. control' = Touched({r}, {r})
    BY <1>3 DEF Rebind, RejectCandidate, ContinueAfterRejection
  <2>. QED
    BY <1>1, <2>1, <2>2
<1>4. CASE \/ CompleteRun(r)
           \/ \E reason \in {"ceiling", "codex_operation_stopped"} :
                HardCeiling(r, reason)
  <2>1. Order
    BY <1>4, CompleteRunInOrder, HardCeilingInOrder
  <2>2. control' = Touched({r}, {})
    BY <1>4 DEF CompleteRun, HardCeiling
  <2>. QED
    BY <1>1, <2>1, <2>2
<1>5. CASE AnswerHumanRequest(r)
  <2>1. Order
    BY <1>5, AnswerHumanRequestInOrder
  <2>2. \E S \in {{r}, {}} : control' = Touched({r}, S)
    BY <1>5 DEF AnswerHumanRequest
  <2>. QED
    BY <1>1, <2>1, <2>2
<1>6. CASE BeginUnit(r) \/ OpenHumanRequest(r)
  BY <1>6, BeginUnitKeepsOrder, OpenHumanRequestKeepsOrder
<1>. QED
  BY <1>2, <1>3, <1>4, <1>5, <1>6

LEMMA StepKeepsOrder ==
  ASSUME IInv, AttemptsInOrder, [Next]_vars
  PROVE  AttemptsInOrder'
<1>1. TypeOK /\ TypeOK'
  BY StepKeepsIInv DEF IInv
<1>2. ASSUME NEW r \in Runs,
             \/ Admit(r) \/ Rebind(r) \/ BeginUnit(r)
             \/ RejectCandidate(r) \/ Submit(r)
             \/ ContinueAfterRejection(r) \/ CompleteRun(r)
             \/ OpenHumanRequest(r) \/ AnswerHumanRequest(r)
             \/ \E g \in Gens : AcknowledgeUnit(r, g)
             \/ \E reason \in {"ceiling", "codex_operation_stopped"} :
                  HardCeiling(r, reason)
      PROVE  AttemptsInOrder'
  BY <1>1, <1>2, RunStepKeepsOrder
<1>3. CASE (\A r \in Runs : InOrder(r)) /\ FrozenFromRuns
  BY <1>1, <1>3, InOrderKeeps
<1>4. CASE \E r \in Runs, a \in RunActions : PrepareRunControl(a, r)
  BY <1>1, <1>3, <1>4, PrepareRunControlInOrder
<1>5. CASE Restart
  BY <1>1, <1>3, <1>5, RestartInOrder
<1>6. CASE \E a \in Actions : PrepareControl(a)
  BY <1>1, <1>3, <1>6, PrepareControlInOrder
<1>7. ASSUME NEW c \in Slots,
             \/ AbortControl(c) \/ ApplySuspend(c) \/ ApplyHandoff(c)
             \/ ApplyResume(c) \/ ApplyRestore(c) \/ ApplyForce(c)
      PROVE  AttemptsInOrder'
  BY <1>1, <1>3, <1>7, AbortControlInOrder, ApplySuspendInOrder,
     ApplyHandoffInOrder, ApplyResumeInOrder, ApplyRestoreInOrder,
     ApplyForceInOrder
<1>8. CASE Settle \/ SwitchBack \/ InvalidateSwitch
  BY <1>1, <1>3, <1>8, SettleInOrder, SwitchBackInOrder
<1>9. CASE Compensate
  BY <1>3, <1>9, CompensateInOrder
<1>10. CASE UNCHANGED vars
  <2>1. foreground.epoch <= foreground'.epoch
    BY <1>1, <1>10 DEF vars, TypeOK, Foreground, Epochs
  <2>2. \A r \in Runs : InOrder(r)
    BY <1>1, <1>10, <2>1, RowsLeftInOrder DEF vars, attempts
  <2>3. FrozenFromRuns
    BY <1>10 DEF vars, FrozenFromRuns
  <2>. QED
    BY <1>3, <2>2, <2>3
<1>. QED
  BY <1>2, <1>4, <1>5, <1>6, <1>7, <1>8, <1>9, <1>10 DEF Next

(* Nothing has started.                                                    *)
LEMMA InitInOrder == ASSUME Init PROVE AttemptsInOrder
<1>. USE DEF Init
<1>1. ASSUME NEW r \in Runs PROVE NothingAhead(r) /\ ActiveAlone(r)
  BY Typed DEF NothingAhead, ActiveAlone, Gen, Live
<1>2. \A c \in Slots : Affected(c) = {}
  BY DEF Affected, NoControl
<1>3. RunsOnlyIfAnswered /\ CleanupMeansStopped
  BY DEF RunsOnlyIfAnswered, Running, CleanupMeansStopped
<1>. QED
  BY <1>1, <1>2, <1>3 DEF AttemptsInOrder

(* The Attempts of a Run come one after the other: no Fence, unit or human *)
(* request is ahead of the Attempt of the control row, and one unit at     *)
(* most is active, however restarts, rejections and controls interleave.   *)
THEOREM AttemptsStayInOrder == Spec => [](IInv /\ AttemptsInOrder)
<1>1. Init => IInv /\ AttemptsInOrder
  BY InitIInv, InitInOrder
<1>2. IInv /\ AttemptsInOrder /\ [Next]_vars => IInv' /\ AttemptsInOrder'
  BY StepKeepsIInv, StepKeepsOrder
<1>. QED
  BY <1>1, <1>2, PTL DEF Spec

(* A Run that asked a human goes on in that Attempt only with the answer:  *)
(* a resume keeps it waiting and a restart continues it in a new Attempt   *)
(* (_managed_run_has_pending_root_human_request).                          *)
THEOREM AnswerBeforeRunning == Spec => []RunsOnlyIfAnswered
<1>1. AttemptsInOrder => RunsOnlyIfAnswered
  BY DEF AttemptsInOrder
<1>. QED
  BY <1>1, AttemptsStayInOrder, PTL

(* A cancelled Run says that it is cleaned up only when no process of any  *)
(* of its Attempts can still run: not when the first one is acknowledged,  *)
(* and no unit starts afterwards (acknowledge_provider_safe_point).        *)
THEOREM CleanedUpMeansStopped == Spec => []CleanupMeansStopped
<1>1. AttemptsInOrder => CleanupMeansStopped
  BY DEF AttemptsInOrder
<1>. QED
  BY <1>1, AttemptsStayInOrder, PTL

-----------------------------------------------------------------------------
(* Closed Runs                                                             *)

(* A closed Run stays closed in its Attempt through every transaction but  *)
(* the compensation of a control that had found it suspended; that one     *)
(* fences it (compensate_runtime_control).                                 *)
THEOREM ClosedForGood == Spec => ClosedStaysClosed
<1>. DEFINE Kept(r) == /\ run'[r].gen = run[r].gen
                       /\ \/ run'[r].status = run[r].status
                          \/ PutsBackSuspended(r) /\ run'[r].status = "suspended_fenced"
<1>1. ASSUME IInv, Compensate, NEW r \in Runs, Closed(r)
      PROVE  Kept(r)
  <2>1. /\ Head.phase = "applied" /\ Head.frozen[r] # "running"
        /\ Head.frozen[r] \in {"none"} \cup SuspendedStatus \cup ClosedStatus
    BY <1>1, CompensateRows DEF Compensate, RunStatus
  <2>2. CASE Head.frozen[r] \in SuspendedStatus
    BY <1>1, <2>1, <2>2, CompensateRows DEF PutsBackSuspended, Gen
  <2>3. CASE Head.frozen[r] \in {"none"} \cup ClosedStatus
    BY <1>1, <2>3, CompensateRows DEF Gen
  <2>. QED
    BY <2>1, <2>2, <2>3
<1>2. IInv /\ [Next]_vars => [\A r \in Runs : Closed(r) => Kept(r)]_vars
  BY <1>1, StepKeepsIInv DEF ClosedKept
<1>. QED
  BY <1>2, RuntimeInvariant, PTL DEF Spec, ClosedStaysClosed

-----------------------------------------------------------------------------
(* The control of the Cycle that is in progress                            *)

AppliedHead(actions) == Head.phase = "applied" /\ Head.action \in actions

(* It is one that AE admitted for this head, and its Runs are of the       *)
(* head's Epoch.                                                           *)
HeadShown ==
  /\ Head.phase = "none" => Head.action = "none" /\ Affected("cycle") = {}
  /\ Head.phase # "none" => foreground.here
  /\ Head.action \in {"pause", "normal_switch", "bundle_switch"} => foreground.open
  /\ Head.action = "restore" => ~foreground.open
  /\ \A r \in Affected("cycle") : run[r].epoch = foreground.epoch

(* The step leaves it as it is.                                            *)
SameHead ==
  /\ Head'.phase = Head.phase
  /\ Head'.action = Head.action
  /\ Head'.frozen = Head.frozen

LEMMA TouchedSame ==
  ASSUME TypeOK, NEW R \in SUBSET Runs, NEW N \in SUBSET Runs
  PROVE  \A c \in Slots :
           /\ Touched(R, N)[c].phase = control[c].phase
           /\ Touched(R, N)[c].action = control[c].action
           /\ Touched(R, N)[c].frozen = control[c].frozen
<1>. USE DEF TypeOK, Touched
<1>1. ASSUME NEW c \in Slots
      PROVE  /\ Touched(R, N)[c].phase = control[c].phase
             /\ Touched(R, N)[c].action = control[c].action
             /\ Touched(R, N)[c].frozen = control[c].frozen
  BY <1>1 DEF Control
<1>. QED
  BY <1>1

(* The controls are as they were, up to what is noted of their Runs.       *)
Noted == \/ control' = control
         \/ \E R, N \in SUBSET Runs : control' = Touched(R, N)

LEMMA NotedSame ==
  ASSUME TypeOK, Noted
  PROVE  SameHead /\ control'["run"].frozen = control["run"].frozen
BY TouchedSame DEF Noted, SameHead, Head, Slots

(* An applied control of the Cycle keeps its action and its Runs.          *)
LEMMA AppliedCycle ==
  ASSUME TypeOK, NEW rows, NEW N \in SUBSET Runs,
         control' = Applied("cycle", rows, N)
  PROVE  /\ Head'.phase = "applied" /\ Head'.action = Head.action
         /\ Head'.frozen = Head.frozen
         /\ control'["run"].frozen = control["run"].frozen
         /\ Affected("cycle")' = Affected("cycle")
<1>. DEFINE k == [control["cycle"] EXCEPT
                    !.phase = "applied",
                    !.suspends = \E r \in Controlled("cycle") :
                                   rows[r].status \in SuspendedStatus]
            touched == Touched(Affected("cycle"), N)
<1>1. Affected("cycle") \in SUBSET Runs /\ Head \in Control
  BY DEF Affected, Head, TypeOK, Slots
<1>2. /\ touched \in [Slots -> Control]
      /\ touched["run"].frozen = control["run"].frozen
  BY <1>1, TouchedTypes, TouchedSame DEF Slots
<1>3. control' = [touched EXCEPT !["cycle"] = k]
  BY DEF Applied
<1>4. k.phase = "applied" /\ k.action = Head.action /\ k.frozen = Head.frozen
  BY <1>1 DEF Control, Head
<1>. HIDE DEF k, touched
<1>5. Head' = k /\ control'["run"].frozen = control["run"].frozen
  BY <1>2, <1>3 DEF Head, Slots
<1>6. Affected("cycle")' = Affected("cycle")
  BY <1>4, <1>5 DEF Affected, Head
<1>. QED
  BY <1>4, <1>5, <1>6

(* An applied control of one Run is over and leaves the Cycle's alone.     *)
LEMMA AppliedRun ==
  ASSUME TypeOK, NEW rows, NEW N \in SUBSET Runs,
         control' = Applied("run", rows, N)
  PROVE  SameHead /\ control'["run"] = NoControl
<1>. DEFINE touched == Touched(Affected("run"), N)
<1>1. Affected("run") \in SUBSET Runs
  BY DEF Affected
<1>2. /\ touched \in [Slots -> Control]
      /\ touched["cycle"].phase = Head.phase
      /\ touched["cycle"].action = Head.action
      /\ touched["cycle"].frozen = Head.frozen
  BY <1>1, TouchedTypes, TouchedSame DEF Slots, Head
<1>3. control' = [touched EXCEPT !["run"] = NoControl]
  BY DEF Applied
<1>. HIDE DEF touched
<1>. QED
  BY <1>2, <1>3 DEF SameHead, Head, Slots

(* Whatever is applied, its receipt is Applied of some rows.               *)
Applies(c) == \/ ApplySuspend(c) \/ ApplyHandoff(c) \/ ApplyResume(c)
              \/ ApplyRestore(c) \/ ApplyForce(c)

LEMMA AppliesRows ==
  ASSUME TypeOK, NEW c \in Slots, Applies(c)
  PROVE  /\ control[c].phase = "prepared"
         /\ \E N \in SUBSET Runs : control' = Applied(c, run', N)
         /\ \A r \in Runs \ Controlled(c) : run'[r] = run[r] /\ units'[r] = units[r]
         /\ \A r \in Controlled(c) : r \in Runs /\ run'[r].epoch = run[r].epoch
         /\ UNCHANGED <<waiter, foreground>>
<1>1. control[c].phase = "prepared"
  BY DEF Applies, ApplySuspend, ApplyHandoff, ApplyResume, ApplyRestore,
     ApplyForce, ApplyTo
<1>2. \A r \in Controlled(c) : r \in Runs
  BY ControlledRuns
<1>3. CASE ApplySuspend(c)
  BY <1>1, <1>2, <1>3, SuspendRows
<1>4. CASE ApplyHandoff(c)
  <2>1. Interrupted(c) \in SUBSET Runs
    BY <1>2 DEF Interrupted
  <2>. QED
    BY <1>1, <1>2, <1>4, <2>1, HandoffRows
<1>5. CASE ApplyResume(c)
  BY <1>1, <1>2, <1>5, ResumeRows
<1>6. CASE ApplyRestore(c)
  BY <1>1, <1>2, <1>6, RestoreRows
<1>7. CASE ApplyForce(c)
  BY <1>1, <1>2, <1>7, ForceRows
<1>. QED
  BY <1>3, <1>4, <1>5, <1>6, <1>7 DEF Applies

(* The compensation of the control of the Cycle ends it.                   *)
LEMMA CompensatedControls ==
  ASSUME TypeOK, Compensate
  PROVE  /\ Head.phase = "applied" /\ Head.action \notin {"resume", "cancel"}
         /\ Head' = NoControl
         /\ control'["run"].frozen = control["run"].frozen
<1>. DEFINE N == {r \in Runs : Head.frozen[r] = "running"}
<1>1. /\ Head.phase = "applied" /\ RequiresCompensation
      /\ control' = [Touched(Affected("cycle"), N) EXCEPT !["cycle"] = NoControl]
  BY DEF Compensate
<1>2. Affected("cycle") \in SUBSET Runs /\ N \in SUBSET Runs
  BY DEF Affected
<1>. HIDE DEF N
<1>3. /\ Touched(Affected("cycle"), N) \in [Slots -> Control]
      /\ Touched(Affected("cycle"), N)["run"].frozen = control["run"].frozen
  BY <1>2, TouchedTypes, TouchedSame DEF Slots
<1>. QED
  BY <1>1, <1>3 DEF Head, Slots, RequiresCompensation, SwitchActions

LEMMA HeadLeft ==
  ASSUME HeadShown, SameHead, foreground' = foreground,
         \A r \in Affected("cycle") : run'[r].epoch = run[r].epoch
  PROVE  HeadShown'
<1>1. Affected("cycle")' = Affected("cycle")
  BY DEF SameHead, Affected, Head
<1>. QED
  BY <1>1 DEF HeadShown, SameHead

LEMMA HeadEnds ==
  ASSUME Head' = NoControl
  PROVE  HeadShown'
<1>1. Affected("cycle")' = {}
  BY DEF NoControl, Affected, Head
<1>. QED
  BY <1>1 DEF HeadShown, NoControl

(* The steps of a Run note at most that it was touched.                    *)
RunStep(r) ==
  \/ Admit(r) \/ Rebind(r) \/ BeginUnit(r)
  \/ RejectCandidate(r) \/ Submit(r)
  \/ ContinueAfterRejection(r) \/ CompleteRun(r)
  \/ OpenHumanRequest(r) \/ AnswerHumanRequest(r)
  \/ \E g \in Gens : AcknowledgeUnit(r, g)
  \/ \E reason \in {"ceiling", "codex_operation_stopped"} : HardCeiling(r, reason)

LEMMA RunStepNoted ==
  ASSUME NEW r \in Runs, RunStep(r)
  PROVE  Noted /\ foreground' = foreground
<1>1. {r} \in SUBSET Runs /\ {} \in SUBSET Runs
  OBVIOUS
<1>2. CASE Admit(r) \/ BeginUnit(r) \/ Submit(r) \/ \E g \in Gens : AcknowledgeUnit(r, g)
  BY <1>2 DEF Noted, Admit, BeginUnit, Submit, AcknowledgeUnit
<1>3. CASE Rebind(r) \/ RejectCandidate(r) \/ ContinueAfterRejection(r)
  <2>1. control' = Touched({r}, {r}) /\ foreground' = foreground
    BY <1>3 DEF Rebind, RejectCandidate, ContinueAfterRejection
  <2>. QED
    BY <1>1, <2>1 DEF Noted
<1>4. CASE \/ CompleteRun(r) \/ OpenHumanRequest(r)
           \/ \E reason \in {"ceiling", "codex_operation_stopped"} : HardCeiling(r, reason)
  <2>1. control' = Touched({r}, {}) /\ foreground' = foreground
    BY <1>4 DEF CompleteRun, OpenHumanRequest, HardCeiling
  <2>. QED
    BY <1>1, <2>1 DEF Noted
<1>5. CASE AnswerHumanRequest(r)
  <2>1. /\ control' = Touched({r}, {r}) \/ control' = Touched({r}, {})
        /\ foreground' = foreground
    BY <1>5 DEF AnswerHumanRequest
  <2>. QED
    BY <1>1, <2>1 DEF Noted
<1>. QED
  BY <1>2, <1>3, <1>4, <1>5 DEF RunStep

LEMMA RestartNoted ==
  ASSUME Restart
  PROVE  Noted /\ UNCHANGED <<waiter, foreground>>
<1>1. PICK done \in SUBSET {u \in (Runs \X Gens) \ orphans :
                              units[u[1]][u[2]] \in Live} :
        LET replaced == {r \in Runs : Running(r) /\ \E u \in Fenced(done) :
                                                      u[1] = r}
            successors == replaced \cup StoppedWithDaemon
        IN  control' = Touched(successors, successors)
  BY DEF Restart
<1>. DEFINE N == {r \in Runs : Running(r) /\ \E u \in Fenced(done) : u[1] = r}
                   \cup StoppedWithDaemon
<1>2. N \in SUBSET Runs
  BY DEF StoppedWithDaemon
<1>3. control' = Touched(N, N)
  BY <1>1
<1>. HIDE DEF N
<1>. QED
  BY <1>2, <1>3 DEF Noted, Restart

(* No step takes a Run of the control out of the head's Epoch.             *)
LEMMA EpochsKept ==
  ASSUME TypeOK, AttemptsInOrder, HeadShown,
         (\E r \in Runs : RunStep(r)) \/ Restart
  PROVE  \A r \in Affected("cycle") : run'[r].epoch = run[r].epoch
<1>1. CASE \A r \in Runs : InOrder(r)
  BY <1>1 DEF InOrder, RowGoesOn, HeadShown, Affected
<1>2. CASE Restart
  BY <1>1, <1>2, RestartInOrder
<1>3. ASSUME NEW r \in Runs, RunStep(r)
      PROVE  \A s \in Affected("cycle") : run'[s].epoch = run[s].epoch
  <2>1. CASE \/ Admit(r) \/ Rebind(r) \/ RejectCandidate(r) \/ Submit(r)
             \/ ContinueAfterRejection(r) \/ CompleteRun(r) \/ AnswerHumanRequest(r)
             \/ \E g \in Gens : AcknowledgeUnit(r, g)
             \/ \E reason \in {"ceiling", "codex_operation_stopped"} : HardCeiling(r, reason)
    BY <1>1, <2>1, AdmitInOrder, RebindInOrder, RejectCandidateInOrder, SubmitInOrder,
       ContinueAfterRejectionInOrder, CompleteRunInOrder, AnswerHumanRequestInOrder,
       AcknowledgeUnitInOrder, HardCeilingInOrder
  <2>2. CASE BeginUnit(r)
    BY <2>2 DEF BeginUnit
  <2>3. CASE OpenHumanRequest(r)
    BY <2>3 DEF OpenHumanRequest, TypeOK, Run, Affected
  <2>. QED
    BY <1>3, <2>1, <2>2, <2>3 DEF RunStep
<1>. QED
  BY <1>2, <1>3

LEMMA PreparedHead ==
  ASSUME TypeOK, NEW a \in Actions, PrepareControl(a)
  PROVE  /\ Admitted(a) /\ UNCHANGED <<run, units, waiter, foreground>>
         /\ Head'.action = a /\ Head'.phase = "prepared"
         /\ \A r \in Runs :
              Head'.frozen[r] = IF InScope(r) THEN run[r].status ELSE "none"
         /\ control'["run"] = control["run"]
         /\ Head.phase = "none" \/ Head.action = "normal_switch"
         /\ foreground.here
         /\ a \in {"pause", "normal_switch", "bundle_switch"} => foreground.open
         /\ a = "restore" => ~foreground.open
<1>1. /\ Admitted(a) /\ UNCHANGED <<run, units, waiter, foreground>>
      /\ control' = [control EXCEPT !["cycle"] = Prepared(a, {r \in Runs : InScope(r)})]
      /\ Head.phase = "none" \/ Head.action = "normal_switch"
  BY DEF PrepareControl, attempts, Head
<1>2. /\ Head' = Prepared(a, {r \in Runs : InScope(r)})
      /\ control'["run"] = control["run"]
  BY <1>1 DEF Head, TypeOK, Slots
<1>3. /\ Head'.action = a /\ Head'.phase = "prepared"
      /\ \A r \in Runs :
           Head'.frozen[r] = IF InScope(r) THEN run[r].status ELSE "none"
  BY <1>2 DEF Prepared, NoControl
<1>4. a \in ControlActions
  BY RuntimeAssumption
<1>. QED
  BY <1>1, <1>2, <1>3, <1>4 DEF Admitted, ControlActions, SwitchActions

LEMMA StepKeepsHead ==
  ASSUME IInv, AttemptsInOrder, HeadShown, [Next]_vars
  PROVE  HeadShown'
<1>. USE DEF IInv
<1>1. CASE (\E r \in Runs : RunStep(r)) \/ Restart
  <2>1. SameHead /\ foreground' = foreground
    BY <1>1, RunStepNoted, RestartNoted, NotedSame
  <2>. QED
    BY <1>1, <2>1, EpochsKept, HeadLeft
<1>2. CASE \E r \in Runs, a \in RunActions : PrepareRunControl(a, r)
  BY <1>2, HeadLeft DEF PrepareRunControl, SameHead, Head, TypeOK, Slots
<1>3. ASSUME NEW a \in Actions, PrepareControl(a)
      PROVE  HeadShown'
  <2>1. \A r \in Affected("cycle")' : InScope(r)
    BY <1>3, PreparedHead DEF Affected, Head
  <2>. QED
    BY <1>3, <2>1, PreparedHead DEF HeadShown, InScope
<1>4. ASSUME NEW c \in Slots, AbortControl(c)
      PROVE  HeadShown'
  <2>1. CASE c = "cycle"
    BY <1>4, <2>1, HeadEnds DEF AbortControl, Head, TypeOK, Slots
  <2>2. CASE c = "run"
    BY <1>4, <2>2, HeadLeft DEF AbortControl, SameHead, Head, TypeOK, Slots
  <2>. QED
    BY <2>1, <2>2 DEF Slots
<1>5. ASSUME NEW c \in Slots, Applies(c)
      PROVE  HeadShown'
  <2>1. /\ \A r \in Runs : run'[r].epoch = run[r].epoch
        /\ foreground' = foreground
        /\ control[c].phase = "prepared"
    BY <1>5, AppliesRows
  <2>2. PICK N \in SUBSET Runs : control' = Applied(c, run', N)
    BY <1>5, AppliesRows
  <2>3. CASE c = "cycle"
    <3>1. /\ Head'.phase = "applied" /\ Head'.action = Head.action
          /\ Affected("cycle")' = Affected("cycle") /\ Head.phase = "prepared"
      BY <2>1, <2>2, <2>3, AppliedCycle DEF Head
    <3>. QED
      BY <2>1, <3>1 DEF HeadShown, Affected
  <2>4. CASE c = "run"
    BY <2>1, <2>2, <2>4, AppliedRun, HeadLeft DEF Affected
  <2>. QED
    BY <2>3, <2>4 DEF Slots
<1>6. CASE Settle \/ InvalidateSwitch
  BY <1>6, SettleEpoch, HeadEnds DEF Head, TypeOK, Slots
<1>7. CASE SwitchBack
  <2>1. Head.phase = "none" /\ Head.action = "none" /\ Affected("cycle") = {}
    BY <1>7 DEF SwitchBack, HeadShown
  <2>. QED
    BY <1>7, <2>1 DEF SwitchBack, HeadShown, Head, Affected
<1>8. CASE Compensate
  BY <1>8, CompensatedControls, HeadEnds
<1>9. CASE UNCHANGED vars
  BY <1>9, HeadLeft DEF vars, SameHead, Head
<1>. QED
  BY <1>1, <1>2, <1>3, <1>4, <1>5, <1>6, <1>7, <1>8, <1>9
     DEF Next, RunStep, Applies

LEMMA InitHead ==
  ASSUME Init
  PROVE  HeadShown /\ Head = NoControl /\ control["run"] = NoControl
<1>1. Head = NoControl /\ control["run"] = NoControl
  BY DEF Init, Head, Slots
<1>2. Affected("cycle") = {}
  BY <1>1 DEF Affected, Head, NoControl
<1>. QED
  BY <1>1, <1>2 DEF HeadShown, NoControl

(* What a control of the Cycle was admitted for stays so until it ends:    *)
(* AE's head is there and open or not, and its Runs stay in its Epoch.     *)
THEOREM HeadsAreShown == Spec => [](IInv /\ AttemptsInOrder /\ HeadShown)
<1>1. Init => IInv /\ AttemptsInOrder /\ HeadShown
  BY InitIInv, InitInOrder, InitHead
<1>2. IInv /\ AttemptsInOrder /\ HeadShown /\ [Next]_vars =>
        IInv' /\ AttemptsInOrder' /\ HeadShown'
  BY StepKeepsIInv, StepKeepsOrder, StepKeepsHead
<1>. QED
  BY <1>1, <1>2, PTL DEF Spec

-----------------------------------------------------------------------------
(* What stops, Run by Run                                                  *)

(* The human request of the Run is answered, or a control of this one Run  *)
(* begins.  Both are meant to let a Run go on, or stop, by itself.         *)
SingledOut(r) ==
  AnswerHumanRequest(r) \/ \E a \in RunActions : PrepareRunControl(a, r)

(* Nothing but a resume runs the Run again.                                *)
Stopped(r) ==
  /\ ~Running(r)
  /\ ~(run[r].status = "suspended_fenced"
       /\ run[r].reason = "codex_operation_stopped")

(* No unit works, unless for a Run that has completed.                     *)
Still(r) == Closed(r) \/ \A g \in Gens : units[r][g] # "active"

(* A Run of a stopped Cycle is stopped, from the application of the        *)
(* control that stops it to the application of a resume.                   *)
StoppedCycle(r) ==
  /\ foreground.here /\ ~foreground.open /\ ~AppliedHead({"resume"}) =>
       (InScope(r) => Stopped(r) /\ Still(r))
  /\ AppliedHead({"pause", "cancel", "prune"}) =>
       (InScope(r) => Stopped(r) /\ Still(r))
  /\ Head.frozen[r] = "running" => foreground.open

(* A Run that a control froze suspended is so until it releases or ends it.*)
FrozenStaysSuspended(r) ==
  Head.phase # "none" /\ ~AppliedHead({"resume", "cancel"}) =>
    (Head.frozen[r] \in SuspendedStatus =>
       /\ run[r].status \in SuspendedStatus
       /\ Head.phase = "applied" => Stopped(r))

Silenced == SuspendedStatus \cup {"terminated"}

(* Only the turn that asked a human works on.                              *)
OnlyAsks(r) ==
  \A g \in Gens : units[r][g] = "active" => Waiting(r) /\ g = Gen(r)

Stops(r) ==
  /\ control["run"].frozen[r] = "none"
  /\ StoppedCycle(r)
  /\ FrozenStaysSuspended(r)
  /\ run[r].status \in Silenced => OnlyAsks(r)

(* How a Run may go on: not at all, from where it runs, because AE asks    *)
(* for it, or because a restart recovers it.                               *)
GoesOn(r) ==
  \/ /\ run'[r].status = run[r].status /\ run'[r].reason = run[r].reason
     /\ run'[r].epoch = run[r].epoch
  \/ /\ Running(r) /\ run'[r].epoch = run[r].epoch
     /\ run'[r].status # "none"
  \/ /\ RequestCurrent /\ r \notin Affected("cycle")
     /\ run'[r].status = "running" /\ run'[r].epoch = foreground.epoch
  \/ /\ run[r].status = "suspended_fenced"
     /\ run[r].reason = "codex_operation_stopped" /\ ~Held(r)
     /\ run'[r].status = "running" /\ run'[r].epoch = run[r].epoch

(* A Run that stops leaves no unit at work but one that asks.              *)
StopsQuietly(r) ==
  run'[r].status \in Silenced =>
    \/ OnlyAsks(r)'
    \/ /\ run[r].status \in Silenced
       /\ run'[r].gen = run[r].gen /\ waiter'[r] = waiter[r]
       /\ \A g \in Gens : units'[r][g] = "active" => units[r][g] = "active"

NoneBegins(r) ==
  Running(r) \/ \A g \in Gens : units'[r][g] = "active" => units[r][g] = "active"

Works(r) == GoesOn(r) /\ StopsQuietly(r) /\ NoneBegins(r)

Untouched(r) == run'[r] = run[r] /\ units'[r] = units[r] /\ waiter'[r] = waiter[r]

LEMMA UntouchedWorks ==
  ASSUME NEW r \in Runs, Untouched(r)
  PROVE  Works(r)
BY DEF Untouched, Works, GoesOn, StopsQuietly, NoneBegins

LEMMA SilenceKept ==
  ASSUME NEW r \in Runs, StopsQuietly(r), run[r].status \in Silenced => OnlyAsks(r)
  PROVE  run'[r].status \in Silenced => OnlyAsks(r)'
BY DEF StopsQuietly, OnlyAsks, Waiting, Gen

(* Work on the Runs, and the controls of others, keep what is stopped.     *)
LEMMA WorkKeepsStops ==
  ASSUME TypeOK, NEW r \in Runs, HeadShown, Stops(r), Works(r), SameHead,
         foreground' = foreground, control'["run"].frozen[r] = "none"
  PROVE  Stops(r)'
<1>. USE DEF Stops, Works
<1>1. \A A : AppliedHead(A)' <=> AppliedHead(A)
  BY DEF AppliedHead, SameHead
<1>2. ASSUME InScope(r)', InScope(r) => Stopped(r) /\ Still(r), ~RequestCurrent
      PROVE  Stopped(r)' /\ Still(r)'
  <2>1. run'[r].status # "none" /\ run'[r].epoch = foreground.epoch
    BY <1>2 DEF InScope
  <2>2. InScope(r) /\ Stopped(r) /\ Still(r)
        /\ run'[r].status = run[r].status /\ run'[r].reason = run[r].reason
    BY <1>2, <2>1 DEF GoesOn, InScope, Stopped, Running
  <2>3. \A g \in Gens : units'[r][g] = "active" => units[r][g] = "active"
    BY <2>2 DEF NoneBegins, Stopped
  <2>. QED
    BY <2>2, <2>3 DEF Stopped, Running, Still, Closed
<1>3. StoppedCycle(r)'
  <2>1. ASSUME foreground.here, ~foreground.open, ~AppliedHead({"resume"}), InScope(r)'
        PROVE  Stopped(r)' /\ Still(r)'
    BY <1>2, <2>1 DEF StoppedCycle, RequestCurrent
  <2>2. ASSUME AppliedHead({"pause", "cancel", "prune"}), InScope(r)'
        PROVE  Stopped(r)' /\ Still(r)'
    <3>1. ~RequestCurrent
      BY <2>2 DEF AppliedHead, RequestCurrent, Head
    <3>. QED
      BY <1>2, <2>2, <3>1 DEF StoppedCycle
  <2>3. Head'.frozen[r] = "running" => foreground'.open
    BY DEF StoppedCycle, SameHead
  <2>. QED
    BY <1>1, <2>1, <2>2, <2>3 DEF StoppedCycle
<1>4. FrozenStaysSuspended(r)'
  <2>. SUFFICES ASSUME Head.phase # "none", ~AppliedHead({"resume", "cancel"}),
                       Head.frozen[r] \in SuspendedStatus
                PROVE  /\ run'[r].status \in SuspendedStatus
                       /\ Head.phase = "applied" => Stopped(r)'
    BY <1>1 DEF FrozenStaysSuspended, SameHead
  <2>1. /\ run[r].status \in SuspendedStatus
        /\ Head.phase = "applied" => Stopped(r)
    BY DEF FrozenStaysSuspended
  <2>2. r \in Affected("cycle")
    BY DEF Affected, Head, SuspendedStatus
  <2>3. Head.phase = "prepared" => Held(r)
    BY <2>2 DEF Held, Reserved, ReservedBy, Slots, Head
  <2>4. Head.phase \in {"prepared", "applied"}
    BY DEF TypeOK, Control, Slots, Head
  <2>5. run'[r].status = run[r].status /\ run'[r].reason = run[r].reason
    BY <2>1, <2>2, <2>3, <2>4 DEF GoesOn, Running, Stopped, SuspendedStatus
  <2>. QED
    BY <2>1, <2>5 DEF Stopped, Running
<1>. QED
  BY <1>3, <1>4, SilenceKept

(* The steps of another Run do not touch this one.                         *)
LEMMA OthersWork ==
  ASSUME TypeOK, NEW r \in Runs, NEW s \in Runs \ {r}, RunStep(s)
  PROVE  Works(r)
<1>1. CASE AnswerHumanRequest(s)
  <2>1. Untouched(r)
    BY <1>1, AnswerRow DEF Untouched, AnswerHumanRequest
  <2>. QED
    BY <2>1, UntouchedWorks
<1>2. CASE \E g \in Gens : AcknowledgeUnit(s, g)
  BY <1>2, UntouchedWorks DEF AcknowledgeUnit, Untouched, TypeOK
<1>3. CASE Admit(s) \/ Rebind(s) \/ BeginUnit(s) \/ Submit(s) \/ CompleteRun(s)
  BY <1>3, UntouchedWorks DEF Admit, Rebind, BeginUnit, Submit, CompleteRun,
     Untouched, TypeOK
<1>4. CASE RejectCandidate(s) \/ ContinueAfterRejection(s) \/ OpenHumanRequest(s)
  BY <1>4, UntouchedWorks DEF RejectCandidate, ContinueAfterRejection,
     OpenHumanRequest, Untouched, TypeOK
<1>5. CASE \E reason \in {"ceiling", "codex_operation_stopped"} : HardCeiling(s, reason)
  BY <1>5, UntouchedWorks DEF HardCeiling, Untouched, TypeOK
<1>. QED
  BY <1>1, <1>2, <1>3, <1>4, <1>5 DEF RunStep

LEMMA AdmitWorks ==
  ASSUME TypeOK, AttemptsInOrder, NEW r \in Runs, Admit(r)
  PROVE  Works(r)
<1>. USE DEF Admit
<1>1. run'[r].status = "running" /\ run'[r].epoch = foreground.epoch
  BY DEF TypeOK
<1>2. r \notin Affected("cycle")
  BY DEF AttemptsInOrder, Slots
<1>. QED
  BY <1>1, <1>2 DEF Works, GoesOn, StopsQuietly, NoneBegins, Silenced, SuspendedStatus

LEMMA RebindWorks ==
  ASSUME TypeOK, HeadShown, NEW r \in Runs, Rebind(r)
  PROVE  Works(r)
<1>. USE DEF Rebind
<1>1. Successor(r) \in Run /\ Successor(r).status = "running"
  <2>1. Gen(r) + 1 \in Gens
    BY ReplaceTypes
  <2>. QED
    BY <2>1, SuccessorTypes
<1>2. run'[r].status = "running" /\ run'[r].epoch = foreground.epoch
  BY <1>1 DEF TypeOK, Run
<1>3. run[r].epoch # foreground.epoch
  BY DEF TypeOK, Run, Foreground, Epochs
<1>4. r \notin Affected("cycle")
  BY <1>3 DEF HeadShown
<1>. QED
  BY <1>2, <1>4 DEF Works, GoesOn, StopsQuietly, NoneBegins, Silenced, SuspendedStatus

LEMMA BeginUnitWorks ==
  ASSUME NEW r \in Runs, BeginUnit(r)
  PROVE  Works(r)
BY DEF BeginUnit, MayBegin, Allows, Running, Works, GoesOn, StopsQuietly,
   NoneBegins, Silenced, SuspendedStatus

LEMMA AcknowledgeUnitWorks ==
  ASSUME TypeOK, NEW r \in Runs, NEW g \in Gens, AcknowledgeUnit(r, g)
  PROVE  Works(r)
<1>. USE DEF AcknowledgeUnit
<1>1. /\ run'[r].status = run[r].status /\ run'[r].reason = run[r].reason
      /\ run'[r].epoch = run[r].epoch /\ run'[r].gen = run[r].gen
      /\ waiter' = waiter
  BY DEF TypeOK, Run
<1>2. units'[r] = Acknowledged(r, g)
  BY DEF TypeOK
<1>3. \A h \in Gens : units'[r][h] = "active" => units[r][h] = "active"
  BY <1>2 DEF Acknowledged
<1>. QED
  BY <1>1, <1>3 DEF Works, GoesOn, StopsQuietly, NoneBegins

(* The unit that met a limit was the only one at work.                     *)
LEMMA HardCeilingWorks ==
  ASSUME TypeOK, AttemptsInOrder, NEW r \in Runs,
         NEW reason \in {"ceiling", "codex_operation_stopped"},
         HardCeiling(r, reason)
  PROVE  Works(r)
<1>. USE DEF HardCeiling
<1>1. run'[r].status = "suspended_fenced" /\ run'[r].epoch = run[r].epoch
  BY DEF TypeOK, Run
<1>2. \A g \in Gens : units'[r][g] = "active" =>
        units[r][g] = "active" /\ g # Gen(r)
  BY GenTypes DEF TypeOK
<1>3. \A g \in Gens : units'[r][g] # "active"
  BY <1>2, GenTypes DEF AttemptsInOrder, ActiveAlone
<1>. QED
  BY <1>1, <1>3 DEF Works, GoesOn, StopsQuietly, OnlyAsks, NoneBegins, Allows

LEMMA SuccessorWorks ==
  ASSUME TypeOK, NEW r \in Runs, RejectCandidate(r) \/ ContinueAfterRejection(r)
  PROVE  Works(r)
<1>1. Running(r) /\ run' = [run EXCEPT ![r] = Successor(r)]
  BY DEF RejectCandidate, ContinueAfterRejection, Allows
<1>2. run'[r].status = "running" /\ run'[r].epoch = run[r].epoch
  BY <1>1, SuccessorFields DEF TypeOK
<1>. QED
  BY <1>1, <1>2 DEF Works, GoesOn, StopsQuietly, NoneBegins, Silenced, SuspendedStatus

LEMMA CompleteRunWorks ==
  ASSUME TypeOK, NEW r \in Runs, CompleteRun(r)
  PROVE  Works(r)
<1>. USE DEF CompleteRun
<1>1. run'[r].status = "completed" /\ run'[r].epoch = run[r].epoch
  BY DEF TypeOK, Run
<1>2. Running(r)
  BY DEF MayComplete, Allows
<1>. QED
  BY <1>1, <1>2 DEF Works, GoesOn, StopsQuietly, NoneBegins, Silenced, SuspendedStatus

(* The unit that asks is the only one at work.                             *)
LEMMA OpenHumanRequestWorks ==
  ASSUME TypeOK, AttemptsInOrder, NEW r \in Runs, OpenHumanRequest(r)
  PROVE  Works(r)
<1>. USE DEF OpenHumanRequest
<1>1. /\ run'[r].status = "suspended" /\ run'[r].epoch = run[r].epoch
      /\ run'[r].gen = Gen(r) /\ waiter'[r] = Gen(r)
  BY DEF TypeOK, Run, Gen
<1>2. \A g \in Gens : units'[r][g] = "active" => g = Gen(r)
  BY GenTypes DEF AttemptsInOrder, ActiveAlone
<1>3. OnlyAsks(r)'
  BY <1>1, <1>2 DEF OnlyAsks, Waiting, Gen
<1>. QED
  BY <1>1, <1>3 DEF Works, GoesOn, StopsQuietly, NoneBegins

LEMMA RunStepWorks ==
  ASSUME TypeOK, AttemptsInOrder, HeadShown, NEW r \in Runs, RunStep(r),
         ~AnswerHumanRequest(r)
  PROVE  Works(r)
<1>1. CASE Submit(r)
  BY <1>1, UntouchedWorks DEF Submit, Untouched
<1>. QED
  BY <1>1, AdmitWorks, RebindWorks, BeginUnitWorks, AcknowledgeUnitWorks,
     HardCeilingWorks, SuccessorWorks, CompleteRunWorks, OpenHumanRequestWorks
     DEF RunStep

(* A restart stops every unit, and recovers only Runs that ran or that     *)
(* stopped with the daemon.                                                *)
LEMMA RestartWorks ==
  ASSUME TypeOK, Restart, NEW r \in Runs
  PROVE  Works(r)
<1>1. \/ /\ \/ Running(r)
            \/ r \in StoppedWithDaemon /\ ~Held(r)
         /\ run'[r].status = "running" /\ run'[r].epoch = run[r].epoch
      \/ run'[r] = run[r]
  BY RestartRows
<1>2. \A g \in Gens : units'[r][g] # "active"
  BY RestartRows
<1>. QED
  BY <1>1, <1>2 DEF Works, GoesOn, StopsQuietly, OnlyAsks, NoneBegins, StoppedWithDaemon

-----------------------------------------------------------------------------
(* The controls of the Cycle                                               *)

(* A control that ends has no Runs, and nothing else changes but the head. *)
LEMMA EndKeepsStops ==
  ASSUME TypeOK, NEW r \in Runs, Stops(r),
         control' = [control EXCEPT !["cycle"] = NoControl],
         UNCHANGED <<run, units, waiter>>,
         foreground'.here /\ ~foreground'.open =>
           (InScope(r)' => Stopped(r) /\ Still(r))
  PROVE  Stops(r)'
<1>. USE DEF Stops
<1>1. Head' = NoControl /\ control'["run"] = control["run"]
  BY DEF Head, TypeOK, Slots
<1>2. Head'.phase = "none" /\ Head'.frozen[r] = "none"
  BY <1>1 DEF NoControl
<1>3. (Stopped(r)' <=> Stopped(r)) /\ (Still(r)' <=> Still(r))
  BY DEF Stopped, Running, Still, Closed
<1>4. StoppedCycle(r)' /\ FrozenStaysSuspended(r)'
  BY <1>2, <1>3 DEF StoppedCycle, FrozenStaysSuspended, AppliedHead
<1>. QED
  BY <1>1, <1>4, SilenceKept DEF StopsQuietly

LEMMA AbortKeepsStops ==
  ASSUME TypeOK, NEW r \in Runs, HeadShown, Stops(r), NEW c \in Slots, AbortControl(c)
  PROVE  Stops(r)'
<1>1. CASE c = "cycle"
  <2>1. Head.phase = "prepared"
    BY <1>1 DEF AbortControl, Head
  <2>2. foreground.here /\ ~foreground.open => (InScope(r) => Stopped(r) /\ Still(r))
    BY <2>1 DEF Stops, StoppedCycle, AppliedHead
  <2>3. InScope(r)' <=> InScope(r)
    BY DEF AbortControl, InScope
  <2>. QED
    BY <1>1, <2>2, <2>3, EndKeepsStops DEF AbortControl, attempts
<1>2. CASE c = "run"
  <2>1. SameHead /\ control'["run"].frozen[r] = "none" /\ Untouched(r)
        /\ foreground' = foreground
    BY <1>2 DEF AbortControl, attempts, SameHead, Head, TypeOK, Slots, NoControl, Untouched
  <2>. QED
    BY <2>1, UntouchedWorks, WorkKeepsStops
<1>. QED
  BY <1>1, <1>2 DEF Slots

(* The Cycle stops when the control that stopped its Runs settles.         *)
LEMMA SettleKeepsStops ==
  ASSUME TypeOK, NEW r \in Runs, Stops(r), Settle \/ InvalidateSwitch
  PROVE  Stops(r)'
<1>. USE DEF Stops
<1>1. /\ control' = [control EXCEPT !["cycle"] = NoControl]
      /\ UNCHANGED <<run, units, waiter>>
      /\ Head.phase = "applied"
  BY DEF Settle, InvalidateSwitch, EndControl, attempts
<1>2. foreground \in Foreground
  BY DEF TypeOK
<1>3. CASE Settle /\ Head.action \in {"pause", "cancel", "prune"}
  <2>1. foreground'.epoch = foreground.epoch
    BY <1>2, <1>3 DEF Settle, EndControl, Foreground, SwitchActions
  <2>2. InScope(r)' => Stopped(r) /\ Still(r)
    BY <1>1, <1>3, <2>1 DEF StoppedCycle, AppliedHead, InScope
  <2>. QED
    BY <1>1, <2>2, EndKeepsStops
<1>4. CASE \/ Settle /\ Head.action = "restore"
           \/ InvalidateSwitch
  <2>1. /\ foreground'.epoch = foreground.epoch
        /\ foreground'.here = foreground.here
        /\ foreground'.open = foreground.open
        /\ Head.action # "resume"
    BY <1>2, <1>4 DEF Settle, InvalidateSwitch, EndControl, Foreground, SwitchActions
  <2>2. foreground'.here /\ ~foreground'.open =>
          (InScope(r)' => Stopped(r) /\ Still(r))
    BY <1>1, <2>1 DEF StoppedCycle, AppliedHead, InScope
  <2>. QED
    BY <1>1, <2>2, EndKeepsStops
<1>5. CASE Settle /\ Head.action \in {"resume"} \cup SwitchActions
  <2>1. foreground'.open \/ ~foreground'.here
    BY <1>2, <1>5 DEF Settle, EndControl, Foreground, SwitchActions
  <2>. QED
    BY <1>1, <2>1, EndKeepsStops
<1>. QED
  BY <1>3, <1>4, <1>5 DEF Settle

LEMMA SwitchBackKeepsStops ==
  ASSUME TypeOK, NEW r \in Runs, HeadShown, Stops(r), SwitchBack
  PROVE  Stops(r)'
<1>. USE DEF Stops, SwitchBack, attempts
<1>1. foreground'.here /\ foreground'.open
  BY DEF TypeOK, Foreground
<1>2. Head.phase = "none" /\ Affected("cycle") = {} /\ Head' = Head
  BY DEF HeadShown, Head
<1>3. StoppedCycle(r)' /\ FrozenStaysSuspended(r)'
  BY <1>1, <1>2 DEF StoppedCycle, FrozenStaysSuspended, AppliedHead
<1>. QED
  BY <1>3, SilenceKept DEF StopsQuietly

(* What a control freezes.                                                 *)
LEMMA PrepareKeepsStops ==
  ASSUME TypeOK, NEW r \in Runs, HeadShown, Stops(r), NEW a \in Actions,
         PrepareControl(a)
  PROVE  Stops(r)'
<1>. USE DEF Stops
<1>1. /\ UNCHANGED <<run, units, waiter, foreground>>
      /\ Head'.phase = "prepared"
      /\ Head'.frozen[r] = IF InScope(r) THEN run[r].status ELSE "none"
      /\ control'["run"] = control["run"]
      /\ Head.phase = "none" \/ Head.action = "normal_switch"
      /\ foreground.here
  BY PreparedHead
<1>2. ~foreground.open => (InScope(r) => Stopped(r) /\ Still(r))
  BY <1>1 DEF StoppedCycle, AppliedHead, HeadShown
<1>3. /\ Stopped(r)' <=> Stopped(r)
      /\ Still(r)' <=> Still(r)
      /\ InScope(r)' <=> InScope(r)
  BY <1>1 DEF Stopped, Running, Still, Closed, InScope
<1>4. StoppedCycle(r)'
  BY <1>1, <1>2, <1>3 DEF StoppedCycle, AppliedHead, Stopped, Running
<1>5. FrozenStaysSuspended(r)'
  BY <1>1 DEF FrozenStaysSuspended, SuspendedStatus
<1>. QED
  BY <1>1, <1>4, <1>5, SilenceKept DEF StopsQuietly

(* A compensation: in a stopped Cycle it runs nothing, because no Run ran  *)
(* when the control was prepared; and it fences only suspended Runs.       *)
LEMMA CompensateKeepsStops ==
  ASSUME IInv, NEW r \in Runs, Stops(r), Compensate
  PROVE  Stops(r)'
<1>. USE DEF IInv, Stops
<1>1. /\ Head.phase = "applied" /\ Head.action \notin {"resume", "cancel"}
      /\ Head' = NoControl
      /\ control'["run"].frozen = control["run"].frozen
      /\ UNCHANGED <<units, waiter, foreground>>
  BY CompensatedControls DEF Compensate
<1>2. Head'.phase = "none" /\ Head'.frozen[r] = "none"
  BY <1>1 DEF NoControl
<1>3. Head.frozen[r] \in {"none", "running"} \cup SuspendedStatus \cup ClosedStatus
  BY CompensateRows DEF RunStatus
<1>4. Head.frozen[r] \in SuspendedStatus => run[r].status \in SuspendedStatus
  BY <1>1 DEF FrozenStaysSuspended, AppliedHead
<1>5. ASSUME ~foreground.open, foreground.here, InScope(r)'
      PROVE  Stopped(r)' /\ Still(r)'
  <2>1. Head.frozen[r] # "running"
    BY <1>5 DEF StoppedCycle
  <2>2. run[r].epoch = run'[r].epoch /\ run[r].status # "none"
    BY <1>3, <1>4, <1>5, <2>1, CompensateRows
       DEF InScope, SuspendedStatus, Closed, ClosedStatus
  <2>3. Stopped(r) /\ Still(r)
    BY <1>1, <1>5, <2>2 DEF StoppedCycle, AppliedHead, InScope
  <2>4. CASE Head.frozen[r] \in SuspendedStatus
    BY <1>1, <1>4, <2>3, <2>4, CompensateRows
       DEF Stopped, Running, Still, Closed, ClosedStatus, SuspendedStatus
  <2>5. CASE Head.frozen[r] \in ClosedStatus
    BY <1>1, <2>3, <2>5, CompensateRows DEF Stopped, Running, Still, Closed, ClosedStatus
  <2>6. CASE Head.frozen[r] = "none"
    BY <1>1, <2>3, <2>6, CompensateRows DEF Stopped, Running, Still, Closed
  <2>. QED
    BY <1>3, <2>1, <2>4, <2>5, <2>6
<1>6. StopsQuietly(r)
  <2>1. CASE Head.frozen[r] = "running"
    BY <2>1, CompensateRows DEF StopsQuietly, Silenced, SuspendedStatus
  <2>2. CASE Head.frozen[r] \in SuspendedStatus
    BY <1>1, <1>4, <2>2, CompensateRows DEF StopsQuietly, Silenced, Gen
  <2>3. CASE Head.frozen[r] \in ClosedStatus
    BY <1>1, <2>3, CompensateRows DEF StopsQuietly, Gen
  <2>4. CASE Head.frozen[r] = "none"
    BY <1>1, <2>4, CompensateRows DEF StopsQuietly
  <2>. QED
    BY <1>3, <2>1, <2>2, <2>3, <2>4
<1>7. StoppedCycle(r)' /\ FrozenStaysSuspended(r)'
  BY <1>1, <1>2, <1>5 DEF StoppedCycle, FrozenStaysSuspended, AppliedHead
<1>. QED
  BY <1>1, <1>6, <1>7, SilenceKept

(* A control of the Cycle is applied.  What it must do: stop what runs if  *)
(* the Cycle is stopped or being stopped, and keep what it found suspended *)
(* suspended unless it releases or ends it.                                *)
LEMMA ApplyKeepsStops ==
  ASSUME TypeOK, AttemptsInOrder, NEW r \in Runs, Stops(r), Applies("cycle"),
         SameScope("cycle"),
         r \in Controlled("cycle") => run'[r].reason # "codex_operation_stopped",
         StopsQuietly(r),
         \/ Head.action = "resume"
         \/ foreground.open /\ Head.action \notin {"pause", "cancel", "prune"}
         \/ r \in Controlled("cycle") =>
              run'[r].status # "running" /\ \A g \in Gens : units'[r][g] # "active",
         \/ Head.action \in {"resume", "cancel"}
         \/ r \in Controlled("cycle") /\ run[r].status \in SuspendedStatus =>
              run'[r].status \in SuspendedStatus
  PROVE  Stops(r)'
<1>. USE DEF Stops
<1>1. /\ Head.phase = "prepared"
      /\ r \notin Controlled("cycle") => run'[r] = run[r] /\ units'[r] = units[r]
      /\ r \in Controlled("cycle") => run'[r].epoch = run[r].epoch
      /\ UNCHANGED <<waiter, foreground>>
  BY AppliesRows DEF Head, Slots
<1>2. PICK N \in SUBSET Runs : control' = Applied("cycle", run', N)
  BY AppliesRows DEF Slots
<1>3. /\ Head'.phase = "applied" /\ Head'.action = Head.action
      /\ Head'.frozen = Head.frozen
      /\ control'["run"].frozen = control["run"].frozen
  BY <1>2, AppliedCycle
<1>4. r \in Controlled("cycle") => run[r].status \in {"running"} \cup SuspendedStatus
  BY ControlledOpen DEF Slots
<1>5. ASSUME InScope(r)',
             r \in Controlled("cycle") =>
               run'[r].status # "running" /\ \A g \in Gens : units'[r][g] # "active"
      PROVE  Stopped(r)' /\ Still(r)'
  <2>1. InScope(r)
    BY <1>1, <1>4, <1>5 DEF InScope, SuspendedStatus
  <2>2. CASE r \in Controlled("cycle")
    BY <1>5, <2>2 DEF Stopped, Running, Still
  <2>3. CASE r \notin Controlled("cycle")
    <3>1. Closed(r) /\ run'[r] = run[r]
      BY <1>1, <2>1, <2>3 DEF SameScope, Controlled
    <3>. QED
      BY <3>1 DEF Closed, ClosedStatus, Stopped, Running, Still
  <2>. QED
    BY <2>2, <2>3
<1>6. StoppedCycle(r)'
  BY <1>1, <1>3, <1>5 DEF StoppedCycle, AppliedHead
<1>7. FrozenStaysSuspended(r)'
  <2>. SUFFICES ASSUME Head.action \notin {"resume", "cancel"},
                       Head.frozen[r] \in SuspendedStatus
                PROVE  run'[r].status \in SuspendedStatus /\ Stopped(r)'
    BY <1>3 DEF FrozenStaysSuspended, AppliedHead
  <2>1. run[r].status \in SuspendedStatus
    BY <1>1 DEF FrozenStaysSuspended, AppliedHead
  <2>2. r \in Controlled("cycle")
    BY <2>1 DEF Controlled, Affected, Head, Closed, ClosedStatus, SuspendedStatus
  <2>3. run'[r].status \in SuspendedStatus
    BY <2>1, <2>2
  <2>. QED
    BY <2>2, <2>3 DEF Stopped, Running, SuspendedStatus
<1>. QED
  BY <1>3, <1>6, <1>7, SilenceKept

LEMMA AppliedScope ==
  ASSUME NEW actions, ApplyTo("cycle", actions)
  PROVE  /\ Head.action \in actions /\ SameScope("cycle")
         /\ Head.action \in GracefulActions =>
              \A r \in Affected("cycle") : LiveUnits(r) = {}
BY DEF ApplyTo, Head, Fresh, Quiet

LEMMA ApplySuspendKeepsStops ==
  ASSUME TypeOK, AttemptsInOrder, NEW r \in Runs, Stops(r), ApplySuspend("cycle")
  PROVE  Stops(r)'
<1>1. /\ SameScope("cycle") /\ Head.action \in {"pause", "bundle_switch"}
      /\ \A s \in Affected("cycle") : LiveUnits(s) = {}
  BY AppliedScope DEF ApplySuspend, GracefulActions
<1>2. /\ r \in Controlled("cycle") =>
           run'[r].status = "suspended" /\ run'[r].reason = "none"
      /\ r \notin Controlled("cycle") => run'[r] = run[r]
      /\ UNCHANGED <<units, waiter>>
  BY SuspendRows DEF Slots
<1>3. r \in Controlled("cycle") => \A g \in Gens : units'[r][g] # "active"
  BY <1>1, <1>2 DEF Controlled, LiveUnits, Live
<1>4. StopsQuietly(r)
  BY <1>2, <1>3 DEF StopsQuietly, OnlyAsks
<1>. QED
  BY <1>1, <1>2, <1>3, <1>4, ApplyKeepsStops DEF SuspendedStatus, Applies

(* The Runs of a handoff go on as they are; the Cycle is open.  One that   *)
(* waits and whose unit was interrupted has none at work.                  *)
LEMMA ApplyHandoffKeepsStops ==
  ASSUME TypeOK, AttemptsInOrder, NEW r \in Runs, HeadShown, Stops(r),
         ApplyHandoff("cycle")
  PROVE  Stops(r)'
<1>1. Head.action = "normal_switch" /\ SameScope("cycle")
  <2>1. ApplyTo("cycle", {"normal_switch"})
    BY DEF ApplyHandoff
  <2>. QED
    BY <2>1, AppliedScope
<1>2. /\ r \in Controlled("cycle") =>
           run'[r].status = run[r].status /\ run'[r].reason = "none"
      /\ r \in Controlled("cycle") \ Interrupted("cycle") => run'[r].gen = Gen(r)
      /\ r \notin Controlled("cycle") => run'[r] = run[r]
      /\ UNCHANGED <<units, waiter>>
  BY HandoffRows DEF Slots
<1>3. StopsQuietly(r)
  <2>1. CASE r \in Interrupted("cycle")
    <3>1. units[r][Gen(r)] # "active" /\ r \in Controlled("cycle")
      BY <2>1 DEF Interrupted
    <3>2. run'[r].status \in Silenced => \A g \in Gens : units'[r][g] # "active"
      BY <1>2, <3>1 DEF Stops, OnlyAsks
    <3>. QED
      BY <3>2 DEF StopsQuietly, OnlyAsks
  <2>2. CASE r \notin Interrupted("cycle")
    BY <1>2, <2>2 DEF StopsQuietly, Gen
  <2>. QED
    BY <2>1, <2>2
<1>4. foreground.open
  BY <1>1 DEF HeadShown
<1>. QED
  BY <1>1, <1>2, <1>3, <1>4, ApplyKeepsStops DEF Applies

(* A resume runs every Run that neither is closed nor waits.               *)
LEMMA ApplyResumeKeepsStops ==
  ASSUME TypeOK, AttemptsInOrder, NEW r \in Runs, Stops(r), ApplyResume("cycle")
  PROVE  Stops(r)'
<1>1. Head.action = "resume" /\ SameScope("cycle")
  <2>1. ApplyTo("cycle", {"resume"})
    BY DEF ApplyResume
  <2>. QED
    BY <2>1, AppliedScope
<1>2. PICK N \in SUBSET Controlled("cycle") :
        /\ \A s \in N : run'[s].status = "running"
        /\ \A s \in Controlled("cycle") \ N :
             /\ run'[s].gen = Gen(s)
             /\ run'[s].status = IF Waiting(s) THEN "suspended" ELSE "running"
        /\ \A s \in Controlled("cycle") : run'[s].reason # "codex_operation_stopped"
        /\ \A s \in Runs \ Controlled("cycle") : run'[s] = run[s]
        /\ UNCHANGED <<units, waiter>>
  BY ResumeRows DEF Slots
<1>3. StopsQuietly(r)
  <2>1. CASE r \in Controlled("cycle") /\ run'[r].status # "running"
    <3>1. Waiting(r) /\ run'[r].gen = run[r].gen
      BY <1>2, <2>1 DEF Gen
    <3>2. run[r].status \in {"running"} \cup SuspendedStatus
      BY <2>1, ControlledOpen DEF Slots
    <3>3. run[r].status \in Silenced
      BY <3>1, <3>2 DEF AttemptsInOrder, RunsOnlyIfAnswered, Running, Silenced
    <3>. QED
      BY <1>2, <3>1, <3>3 DEF StopsQuietly
  <2>2. CASE run'[r].status = "running"
    BY <2>2 DEF StopsQuietly, Silenced, SuspendedStatus
  <2>3. CASE r \notin Controlled("cycle")
    BY <1>2, <2>3 DEF StopsQuietly
  <2>. QED
    BY <2>1, <2>2, <2>3
<1>. QED
  BY <1>1, <1>2, <1>3, ApplyKeepsStops DEF Applies

(* The Cycle is stopped, so a restore finds its Runs suspended and still.  *)
LEMMA ApplyRestoreKeepsStops ==
  ASSUME TypeOK, AttemptsInOrder, NEW r \in Runs, HeadShown, Stops(r),
         ApplyRestore("cycle")
  PROVE  Stops(r)'
<1>1. /\ Head.action = "restore" /\ SameScope("cycle")
      /\ Head.phase = "prepared"
  <2>1. ApplyTo("cycle", {"restore"})
    BY DEF ApplyRestore
  <2>. QED
    BY <2>1, AppliedScope DEF ApplyTo, Head
<1>2. /\ r \in Controlled("cycle") =>
           run'[r].status = "suspended" /\ run'[r].reason = "none"
      /\ r \notin Controlled("cycle") => run'[r] = run[r]
      /\ UNCHANGED <<units, waiter>>
  BY RestoreRows DEF Slots
<1>3. ASSUME r \in Controlled("cycle")
      PROVE  \A g \in Gens : units'[r][g] # "active"
  <2>1. r \in Affected("cycle") /\ ~Closed(r)
    BY <1>3 DEF Controlled
  <2>2. foreground.here /\ ~foreground.open /\ InScope(r)
    BY <1>1, <2>1 DEF HeadShown, SameScope
  <2>. QED
    BY <1>1, <1>2, <2>1, <2>2 DEF Stops, StoppedCycle, AppliedHead, Still
<1>4. StopsQuietly(r)
  BY <1>2, <1>3 DEF StopsQuietly, OnlyAsks
<1>. QED
  BY <1>1, <1>2, <1>3, <1>4, ApplyKeepsStops DEF SuspendedStatus, Applies

LEMMA ApplyForceKeepsStops ==
  ASSUME TypeOK, AttemptsInOrder, NEW r \in Runs, Stops(r), ApplyForce("cycle")
  PROVE  Stops(r)'
<1>1. SameScope("cycle") /\ Head.action \in {"prune", "forced_switch", "cancel"}
  <2>1. ApplyTo("cycle", {"prune", "forced_switch", "cancel"})
    BY DEF ApplyForce
  <2>. QED
    BY <2>1, AppliedScope
<1>2. /\ r \in Controlled("cycle") =>
           /\ run'[r].status = IF Head.action = "cancel"
                                 THEN "terminated" ELSE "suspended_fenced"
           /\ run'[r].reason = "none"
           /\ \A g \in Gens : units'[r][g] # "active"
      /\ r \notin Controlled("cycle") => run'[r] = run[r] /\ units'[r] = units[r]
      /\ waiter' = waiter
  BY ForceRows DEF Head, Slots
<1>3. StopsQuietly(r)
  BY <1>2 DEF StopsQuietly, OnlyAsks
<1>. QED
  BY <1>1, <1>2, <1>3, ApplyKeepsStops DEF SuspendedStatus, Applies

LEMMA StepKeepsStops ==
  ASSUME IInv, AttemptsInOrder, HeadShown, NEW r \in Runs, Stops(r), [Next]_vars,
         [~SingledOut(r)]_vars
  PROVE  Stops(r)'
<1>. USE DEF IInv
<1>1. CASE UNCHANGED vars
  <2>1. Untouched(r) /\ SameHead /\ UNCHANGED <<control, foreground>>
    BY <1>1 DEF vars, Untouched, SameHead, Head
  <2>. QED
    BY <2>1, UntouchedWorks, WorkKeepsStops DEF Stops
<1>. SUFFICES ASSUME Next, ~SingledOut(r) PROVE Stops(r)'
  BY <1>1
<1>2. ASSUME NEW s \in Runs, RunStep(s)
      PROVE  Stops(r)'
  <2>1. Works(r)
    BY <1>2, RunStepWorks, OthersWork DEF SingledOut
  <2>2. SameHead /\ foreground' = foreground /\ control'["run"].frozen[r] = "none"
    BY <1>2, RunStepNoted, NotedSame DEF Stops
  <2>. QED
    BY <2>1, <2>2, WorkKeepsStops
<1>3. CASE Restart
  <2>1. SameHead /\ foreground' = foreground /\ control'["run"].frozen[r] = "none"
    BY <1>3, RestartNoted, NotedSame DEF Stops
  <2>. QED
    BY <1>3, <2>1, RestartWorks, WorkKeepsStops
<1>4. ASSUME NEW s \in Runs, NEW a \in RunActions, PrepareRunControl(a, s)
      PROVE  Stops(r)'
  <2>1. s # r
    BY <1>4 DEF SingledOut
  <2>2. /\ control' = [control EXCEPT !["run"] = Prepared(a, {s})]
        /\ Untouched(r) /\ foreground' = foreground
    BY <1>4 DEF PrepareRunControl, attempts, Untouched
  <2>3. Prepared(a, {s}).frozen[r] = "none"
    BY <2>1 DEF Prepared, NoControl
  <2>4. SameHead /\ control'["run"].frozen[r] = "none"
    BY <2>2, <2>3 DEF SameHead, Head, TypeOK, Slots
  <2>. QED
    BY <2>2, <2>4, UntouchedWorks, WorkKeepsStops
<1>5. CASE \E a \in Actions : PrepareControl(a)
  BY <1>5, PrepareKeepsStops
<1>6. CASE \E c \in Slots : AbortControl(c)
  BY <1>6, AbortKeepsStops
<1>7. CASE Applies("cycle")
  BY <1>7, ApplySuspendKeepsStops, ApplyHandoffKeepsStops, ApplyResumeKeepsStops,
     ApplyRestoreKeepsStops, ApplyForceKeepsStops DEF Applies
<1>8. CASE Applies("run")
  <2>1. r \notin Affected("run")
    BY DEF Stops, Affected
  <2>2. Untouched(r) /\ foreground' = foreground
    BY <1>8, <2>1, AppliesRows DEF Slots, Controlled, Untouched
  <2>3. SameHead /\ control'["run"].frozen[r] = "none"
    BY <1>8, AppliesRows, AppliedRun DEF Slots, NoControl
  <2>. QED
    BY <2>2, <2>3, UntouchedWorks, WorkKeepsStops
<1>9. CASE Settle \/ SwitchBack \/ InvalidateSwitch
  BY <1>9, SettleKeepsStops, SwitchBackKeepsStops
<1>10. CASE Compensate
  BY <1>10, CompensateKeepsStops
<1>. QED
  BY <1>2, <1>3, <1>4, <1>5, <1>6, <1>7, <1>8, <1>9, <1>10
     DEF Next, RunStep, Applies, Slots

LEMMA InitStops == ASSUME Init, NEW r \in Runs PROVE Stops(r)
<1>1. /\ Head = NoControl /\ control["run"] = NoControl
      /\ NoControl.phase = "none" /\ NoControl.frozen[r] = "none"
      /\ run[r].status = "none" /\ foreground.open
  BY InitHead DEF NoControl, Init
<1>. QED
  BY <1>1 DEF Stops, StoppedCycle, FrozenStaysSuspended, AppliedHead, Silenced,
     SuspendedStatus

(* From the moment a control stops a Cycle until one resumes it, a Run of  *)
(* it is stopped unless it is answered or controlled by itself: neither a  *)
(* restart, nor AE, nor the answers to and controls of other Runs, nor a   *)
(* compensation lets it go on.                                             *)
THEOREM StopsAreKept ==
  ASSUME NEW r \in Runs
  PROVE  Spec /\ [][~SingledOut(r)]_vars =>
           [](IInv /\ AttemptsInOrder /\ HeadShown /\ Stops(r))
<1>1. Init => IInv /\ AttemptsInOrder /\ HeadShown /\ Stops(r)
  BY InitIInv, InitInOrder, InitHead, InitStops
<1>2. IInv /\ AttemptsInOrder /\ HeadShown /\ Stops(r) /\ [Next]_vars
      /\ [~SingledOut(r)]_vars =>
        IInv' /\ AttemptsInOrder' /\ HeadShown' /\ Stops(r)'
  BY StepKeepsIInv, StepKeepsOrder, StepKeepsHead, StepKeepsStops
<1>. QED
  BY <1>1, <1>2, PTL DEF Spec

(* A Run that is not singled out is suspended or cancelled only when its   *)
(* units have stopped or were told to stop, but for a turn that asks: the  *)
(* pause waits for them, a forced control and a restart revoke them, a     *)
(* provider limit is their end (apply_runtime_control,                     *)
(* record_stage_provider_hard_ceiling).                                    *)
THEOREM SuspendedIsQuiet ==
  ASSUME NEW r \in Runs
  PROVE  Spec /\ [][~SingledOut(r)]_vars => []QuietRun(r)
<1>1. Stops(r) => QuietRun(r)
  BY DEF Stops, OnlyAsks, Silenced, QuietRun
<1>. QED
  BY <1>1, StopsAreKept, PTL

(* While a Cycle is paused, cancelled or pruned, a Run of it runs only     *)
(* when a human has answered or resumed that very Run, whatever is         *)
(* recovered, restored or compensated meanwhile, here or for other Runs.   *)
THEOREM PausedIsStopped ==
  ASSUME NEW r \in Runs
  PROVE  Spec /\ [][~SingledOut(r)]_vars => []PausedRun(r)
<1>1. Stops(r) => PausedRun(r)
  BY DEF Stops, StoppedCycle, AppliedHead, PausedRun, Stopped
<1>. QED
  BY <1>1, StopsAreKept, PTL

-----------------------------------------------------------------------------
(* Revocations while a control is prepared                                 *)

(* A control that is applied is no longer prepared.                        *)
LEMMA AppliedIsOver ==
  ASSUME TypeOK, NEW c \in Slots, NEW rows, NEW N \in SUBSET Runs,
         control' = Applied(c, rows, N)
  PROVE  control'[c].phase # "prepared"
<1>1. CASE c = "cycle"
  BY <1>1, AppliedCycle DEF Head
<1>2. CASE c = "run"
  BY <1>2, AppliedRun DEF NoControl
<1>. QED
  BY <1>1, <1>2 DEF Slots

(* What may happen to the Fence of a Run that a prepared control froze.    *)
FrozenFence(r) ==
  Reserved(r) /\ <<r, Gen(r)>> \in revoked' \ revoked =>
    \/ run'[r].status = "suspended_fenced"
    \/ \E c \in Slots : r \in Affected(c) /\ control'[c].phase # control[c].phase

LEMMA ApplyKeepsFrozenFences ==
  ASSUME TypeOK, NEW c \in Slots, NEW r \in Runs, Applies(c)
  PROVE  FrozenFence(r)
<1>1. control[c].phase = "prepared"
  BY AppliesRows
<1>2. control'[c].phase # "prepared"
  BY AppliesRows, AppliedIsOver
<1>3. ASSUME revoked' \subseteq revoked \cup {<<s, Gen(s)>> : s \in Controlled(c)}
      PROVE  FrozenFence(r)
  <2>1. <<r, Gen(r)>> \in revoked' \ revoked => r \in Affected(c)
    BY <1>3 DEF Controlled
  <2>. QED
    BY <1>1, <1>2, <2>1 DEF FrozenFence
<1>4. CASE ApplySuspend(c) \/ ApplyRestore(c)
  <2>1. revoked' = revoked
    BY <1>4 DEF ApplySuspend, ApplyRestore, attempts
  <2>. QED
    BY <2>1 DEF FrozenFence
<1>5. CASE ApplyHandoff(c)
  <2>1. revoked' = revoked \cup {<<s, Gen(s)>> : s \in Interrupted(c)}
    BY <1>5, HandoffRows
  <2>2. revoked' \subseteq revoked \cup {<<s, Gen(s)>> : s \in Controlled(c)}
    BY <2>1 DEF Interrupted
  <2>. QED
    BY <1>3, <2>2
<1>6. CASE ApplyResume(c)
  <2>1. PICK N \in SUBSET Controlled(c) :
          revoked' \subseteq revoked \cup {<<s, Gen(s)>> : s \in N}
    BY <1>6, ResumeRows
  <2>. QED
    BY <1>3, <2>1
<1>7. CASE ApplyForce(c)
  BY <1>3, <1>7, ForceRows
<1>. QED
  BY <1>4, <1>5, <1>6, <1>7 DEF Applies

LEMMA StepKeepsFrozenFences ==
  ASSUME IInv, [Next]_vars, NEW r \in Runs
  PROVE  FrozenFence(r)
<1>. USE DEF IInv
<1>1. CASE revoked' = revoked
  BY <1>1 DEF FrozenFence
<1>2. ASSUME NEW s \in Runs,
             \/ Admit(s) \/ Rebind(s) \/ BeginUnit(s)
             \/ RejectCandidate(s) \/ Submit(s)
             \/ ContinueAfterRejection(s) \/ CompleteRun(s)
             \/ OpenHumanRequest(s) \/ AnswerHumanRequest(s)
             \/ \E g \in Gens : AcknowledgeUnit(s, g)
             \/ \E a \in RunActions : PrepareRunControl(a, s)
      PROVE  revoked' = revoked
  BY <1>2 DEF Admit, Rebind, BeginUnit, RejectCandidate, Submit,
     ContinueAfterRejection, CompleteRun, OpenHumanRequest,
     AnswerHumanRequest, AcknowledgeUnit, PrepareRunControl, attempts
<1>3. ASSUME NEW s \in Runs,
             NEW reason \in {"ceiling", "codex_operation_stopped"},
             HardCeiling(s, reason)
      PROVE  FrozenFence(r)
  <2>1. /\ run'[s].status = "suspended_fenced"
        /\ revoked' = revoked \cup {<<s, Gen(s)>>}
    BY <1>3 DEF HardCeiling, TypeOK, Run
  <2>. QED
    BY <2>1 DEF FrozenFence
<1>4. CASE Restart
  <2>1. <<r, Gen(r)>> \in revoked' \ revoked => ~Reserved(r)
    BY <1>4, RestartRows DEF Held
  <2>. QED
    BY <2>1 DEF FrozenFence
<1>5. CASE \/ \E a \in Actions : PrepareControl(a)
           \/ \E c \in Slots : AbortControl(c)
           \/ Settle \/ SwitchBack \/ InvalidateSwitch
           \/ UNCHANGED vars
  <2>1. revoked' = revoked
    BY <1>5 DEF PrepareControl, AbortControl, Settle, SwitchBack,
       InvalidateSwitch, EndControl, attempts, vars
  <2>. QED
    BY <1>1, <2>1
<1>6. CASE \E c \in Slots : Applies(c)
  BY <1>6, ApplyKeepsFrozenFences
<1>7. CASE Compensate
  <2>1. <<r, Gen(r)>> \in revoked' \ revoked => r \in Affected("cycle")
    BY <1>7, CompensateRows, GenTypes DEF Affected, Head, SuspendedStatus
  <2>2. control'["cycle"].phase # control["cycle"].phase
    BY <1>7, CompensatedControls DEF Head, NoControl
  <2>. QED
    BY <2>1, <2>2 DEF FrozenFence, Slots
<1>. QED
  BY <1>1, <1>2, <1>3, <1>4, <1>5, <1>6, <1>7 DEF Next, Applies

(* A restart does not take the Fence of a Run that a prepared control      *)
(* froze: only the application of a control of that Run, the compensation  *)
(* of another control of it, or the provider's own stop revokes it         *)
(* (_recover_interrupted_provider_units, _prepared_control_affects_run).   *)
THEOREM FrozenFencesAreKept == Spec => FrozenFenceKept
<1>1. IInv /\ [Next]_vars =>
        [\A r \in Runs : Reserved(r) /\ <<r, Gen(r)>> \in revoked' \ revoked =>
           \/ run'[r].status = "suspended_fenced"
           \/ \E c \in Slots : r \in Affected(c)
                              /\ control'[c].phase # control[c].phase]_vars
  BY StepKeepsFrozenFences DEF FrozenFence
<1>. QED
  BY <1>1, RuntimeInvariant, PTL DEF Spec, FrozenFenceKept

=============================================================================
