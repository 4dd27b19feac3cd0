-------------------------- MODULE ControlSagaProofs --------------------------
(***************************************************************************)
(* Proofs about ControlSaga, for every tree of Questions, every set of     *)
(* commands and every number of drivers: the saga implements               *)
(* ControlOutcome.                                                         *)
(***************************************************************************)
EXTENDS ControlSaga, QuestionControlProofs, SequenceTheorems

-----------------------------------------------------------------------------
(* Lists of releases                                                       *)

LEMMA PairIsConcat == ASSUME NEW a, NEW b PROVE <<a>> \o <<b>> = <<a, b>>
<1> DEFINE S == {a, b} s == <<a>> \o <<b>> t == <<a, b>>
<1>1. <<a>> \in Seq(S) /\ <<b>> \in Seq(S)
  OBVIOUS
<1>2. s \in Seq(S) /\ t \in Seq(S) /\ Len(s) = 2 /\ Len(t) = 2
  BY <1>1
<1>3. s[1] = a /\ s[2] = b /\ t[1] = a /\ t[2] = b
  BY <1>1
<1> HIDE DEF s, t
<1>4. \A i \in 1 .. Len(s) : s[i] = t[i]
  BY <1>2, <1>3
<1> QED BY <1>2, <1>4, SeqEqual DEF s, t

LEMMA TripleIsConcat ==
  ASSUME NEW a, NEW b, NEW c PROVE <<a>> \o <<b, c>> = <<a, b, c>>
<1> DEFINE S == {a, b, c} s == <<a>> \o <<b, c>> t == <<a, b, c>>
<1>1. <<a>> \in Seq(S) /\ <<b, c>> \in Seq(S)
  OBVIOUS
<1>2. s \in Seq(S) /\ t \in Seq(S) /\ Len(s) = 3 /\ Len(t) = 3
  BY <1>1
<1>3. s[1] = a /\ s[2] = b /\ s[3] = c /\ t[1] = a /\ t[2] = b /\ t[3] = c
  BY <1>1
<1> HIDE DEF s, t
<1>4. \A i \in 1 .. Len(s) : s[i] = t[i]
  BY <1>2, <1>3
<1> QED BY <1>2, <1>4, SeqEqual DEF s, t

LEMMA ConcatWithNothing ==
  ASSUME NEW a
  PROVE  <<>> \o <<a>> = <<a>> /\ <<a>> \o <<>> = <<a>> /\ <<>> \o <<>> = <<>>
<1>1. <<a>> \in Seq({a}) /\ <<>> \in Seq({a})
  OBVIOUS
<1> QED BY <1>1

LEMMA Lists ==
  /\ <<"rg">> \o <<"ae">> = <<"rg", "ae">>
  /\ <<"ar">> \o <<"ae">> = <<"ar", "ae">>
  /\ <<>> \o <<"ae">> = <<"ae">>
  /\ <<>> \o <<"ar">> = <<"ar">>
  /\ <<"ar">> \o <<>> = <<"ar">>
  /\ <<>> \o <<>> = <<>>
  /\ (<<"rg">> \o <<"ar">>) \o <<"ae">> = <<"rg", "ar", "ae">>
  /\ (<<>> \o <<"ar">>) \o <<"ae">> = <<"ar", "ae">>
  /\ (<<>> \o <<"ar">>) \o <<>> = <<"ar">>
  /\ <<"marked">> \o Tail(<<"comp", "rg", "ae">>) = <<"marked", "rg", "ae">>
  /\ <<"marked">> \o Tail(<<"comp">>) = <<"marked">>
<1>1. (<<"rg">> \o <<"ar">>) \o <<"ae">> = <<"rg">> \o (<<"ar">> \o <<"ae">>)
  <2>1. <<"rg">> \in Seq({"rg", "ar", "ae"}) /\ <<"ar">> \in Seq({"rg", "ar", "ae"})
        /\ <<"ae">> \in Seq({"rg", "ar", "ae"})
    OBVIOUS
  <2> QED BY <2>1, ConcatAssociative
<1>2. Tail(<<"comp", "rg", "ae">>) = <<"rg", "ae">>
  OBVIOUS
<1>3. <<"rg">> \o <<"ae">> = <<"rg", "ae">> /\ <<"ar">> \o <<"ae">> = <<"ar", "ae">>
  BY PairIsConcat
<1>4. <<"rg">> \o <<"ar", "ae">> = <<"rg", "ar", "ae">>
      /\ <<"marked">> \o <<"rg", "ae">> = <<"marked", "rg", "ae">>
  BY TripleIsConcat
<1>5. <<>> \o <<"ae">> = <<"ae">> /\ <<>> \o <<"ar">> = <<"ar">>
      /\ <<"ar">> \o <<>> = <<"ar">> /\ <<>> \o <<>> = <<>>
  BY ConcatWithNothing
<1>6. Tail(<<"comp">>) = <<>> /\ <<"marked">> \o <<>> = <<"marked">>
  BY ConcatWithNothing
<1> QED BY <1>1, <1>2, <1>3, <1>4, <1>5, <1>6

-----------------------------------------------------------------------------
(* The graph's part of a command goes one way                              *)

(* Questions are accepted, and commands are carried out, between any two   *)
(* steps of a driver: what a driver found lost stays lost.                 *)
GraphLost(c) ==
  reserved[c] = "aborted" \/ (reserved[c] = "prepared" /\ ~MayApply(c))

GraphReleased(c) ==
  reserved[c] = "aborted" \/ (reserved[c] = "none" /\ ~MayReserve(c))

GraphGoesOn(c) ==
  /\ reserved[c] # "none" => reserved'[c] # "none"
  /\ reserved[c] \in {"applied", "aborted"} => reserved'[c] = reserved[c]
  /\ Asks(c) # "none" =>
       /\ control'[c] = control[c]
       /\ GraphLost(c) => GraphLost(c)'
       /\ GraphReleased(c) => GraphReleased(c)'

(* A step that outdates previews and reservations, but not this row.       *)
LEMMA OutdatedGoesOn ==
  ASSUME QuestionInvariant, NEW c \in Controls,
         reserved'[c] = reserved[c], control'[c] = control[c],
         c \in fresh' => c \in fresh /\ lifecycle' = lifecycle,
         reserved[c] = "prepared" /\ c \in current' =>
           c \in current /\ lifecycle' = lifecycle,
         affected'[c] = affected[c],
         Asks(c) = "restore" =>
           affected'[control[c].record] = affected[control[c].record]
  PROVE  GraphGoesOn(c)
<1>1. GraphLost(c) => GraphLost(c)'
  BY DEF GraphLost, MayApply, Asks, Active
<1>2. ASSUME GraphReleased(c) PROVE GraphReleased(c)'
  <2>1. CASE c \in fresh'
    <3>1. Asks(c)' = Asks(c)
      BY DEF Asks
    <3>2. SubtreeOf(control[c].root)' = SubtreeOf(control[c].root)
      BY <2>1, SubtreeStable DEF SubtreeOf, Accepted, ClosedBelow
    <3>3. Asks(c) \in {"none", "prune", "restore"} /\ (reserved[c] = "none" => TRUE)
      BY DEF Asks, QuestionInvariant, QuestionTypeOK
    <3>4. Asks(c) # "none"
      BY <2>1 DEF QuestionInvariant, AskedFirst
    <3>5. AffectedBy(c)' = AffectedBy(c)
      BY <3>1, <3>2, <3>3, <3>4 DEF AffectedBy
    <3> QED BY <1>2, <2>1, <3>1, <3>5 DEF GraphReleased, MayReserve, Required
  <2>2. CASE c \notin fresh'
    BY <1>2, <2>2 DEF GraphReleased, MayReserve
  <2> QED BY <2>1, <2>2
<1> QED BY <1>1, <1>2 DEF GraphGoesOn

(* A restore names the record of an applied prune.                         *)
LEMMA RecordKept ==
  ASSUME QuestionInvariant, NEW c \in Controls, Asks(c) = "restore"
  PROVE  control[c].record \in Controls /\ reserved[control[c].record] = "applied"
  BY DEF QuestionInvariant, AskedFirst, PruneRecords

(* Every step of the graph leaves each row of Research Graph going on.     *)
LEMMA GraphProgress ==
  ASSUME QuestionInvariant, [NextQuestions]_questionVars, NEW c \in Controls
  PROVE  GraphGoesOn(c)
<1> USE DEF QuestionInvariant
<1>1. CASE UNCHANGED questionVars
  BY <1>1, OutdatedGoesOn DEF questionVars
<1>2. CASE Growth
  <2>1. /\ UNCHANGED <<control, reserved, affected>>
        /\ fresh' # {} => fresh' = fresh /\ lifecycle' = lifecycle
        /\ current' # {} => current' = current /\ lifecycle' = lifecycle
    BY <1>2 DEF Growth, CheckManualParent, AcceptManualQuestion,
                AcceptAutonomousQuestion, OtherGraphWrite, GraphMoves,
                RevisionMoves, controlVars, treeVars
  <2> QED BY <2>1, OutdatedGoesOn
<1>3. ASSUME NEW o \in Controls, Control(o) PROVE GraphGoesOn(c)
  <2>1. ASSUME \/ \E root \in Questions : PreviewPrune(o, root)
               \/ \E r \in Controls : PreviewRestore(o, r)
        PROVE  GraphGoesOn(c)
    <3>1. /\ UNCHANGED <<lifecycle, reserved, affected, current>>
          /\ fresh' = fresh \cup {o} /\ Asks(o) = "none"
          /\ o # c => control'[c] = control[c]
      BY <2>1 DEF PreviewPrune, PreviewRestore, treeVars, QuestionTypeOK
    <3>2. CASE o = c
      BY <3>1, <3>2 DEF GraphGoesOn, AskedFirst
    <3>3. CASE o # c
      BY <3>1, <3>3, OutdatedGoesOn
    <3> QED BY <3>2, <3>3
  <2>2. CASE PrepareQuestionControl(o)
    <3>1. /\ reserved[o] = "none" /\ MayReserve(o)
          /\ \A x \in Controls \ {o} :
               reserved'[x] = reserved[x] /\ affected'[x] = affected[x]
          /\ reserved'[o] = "prepared" /\ current' = current \cup {o}
          /\ fresh' = fresh \ {o}
          /\ UNCHANGED <<lifecycle, control>>
      BY <2>2 DEF PrepareQuestionControl, MayReserve, QuestionTypeOK, treeVars
    <3>2. CASE o = c
      BY <3>1, <3>2 DEF GraphGoesOn, GraphLost, GraphReleased
    <3>3. CASE o # c
      BY <3>1, <3>3, OutdatedGoesOn, RecordKept
    <3> QED BY <3>2, <3>3
  <2>3. CASE AbortQuestionControl(o)
    <3>1. /\ reserved[o] # "applied"
          /\ \A x \in Controls \ {o} : reserved'[x] = reserved[x]
          /\ reserved'[o] = IF reserved[o] = "prepared" THEN "aborted" ELSE reserved[o]
          /\ current' = current \ {o}
          /\ UNCHANGED <<lifecycle, control, fresh, affected>>
      BY <2>3 DEF AbortQuestionControl, QuestionTypeOK, treeVars
    <3>2. CASE reserved[c] = "prepared" /\ o = c
      BY <3>1, <3>2 DEF GraphGoesOn, GraphLost, GraphReleased
    <3>3. CASE ~(reserved[c] = "prepared" /\ o = c)
      BY <3>1, <3>3, OutdatedGoesOn
    <3> QED BY <3>2, <3>3
  <2>4. CASE ApplyQuestionControl(o)
    <3>1. CASE o = c
      BY <2>4, <3>1, ApplyChanges DEF GraphGoesOn, GraphLost, GraphReleased, Holds
    <3>2. CASE o # c
      BY <2>4, <3>2, ApplyChanges, OutdatedGoesOn
    <3> QED BY <3>1, <3>2
  <2> QED BY <1>3, <2>1, <2>2, <2>3, <2>4 DEF Control
<1> QED BY <1>1, <1>2, <1>3 DEF NextQuestions

-----------------------------------------------------------------------------
(* The invariant: how the rows of the four Owners fit together             *)

ForegroundLost(c) ==
  aeOps[c] \in AbortedStatus \/ (aeOps[c] = "none" /\ c \notin aeFresh)

RuntimeActed(c) == arOps[c] \in {"applied", "compensated"}

(* A command touches the Owners it needs, and none before it is confirmed. *)
OnlyNeededRows(c) ==
  /\ NeedsGraph(c) => Asks(c) = kind[c]
  /\ ~NeedsGraph(c) => reserved[c] = "none"
  /\ ~NeedsForeground(c) => aeOps[c] = "none"
  /\ kind[c] = "none" =>
       /\ arOps[c] = "none" /\ aeOps[c] = "none" /\ saga[c] = "none"
       /\ c \notin executions /\ c \notin aeFresh

(* The Owners prepare in the order AE, RG, AR and act in the order AR, RG, *)
(* AE.  The operation at the head is open; an open one may have lost it.   *)
OwnersInOrder(c) ==
  /\ reserved[c] # "none" => aeOps[c] # "none"
  /\ reserved[c] = "applied" => arOps[c] = "applied"
  /\ aeOps[c] \in {"handoff_pending", "completed"} =>
       /\ arOps[c] = "applied"
       /\ NeedsGraph(c) => reserved[c] = "applied"
  /\ aeOps[c] = "handoff_pending" => kind[c] = "normal_switch"
  /\ aeOps[c] = "invalidated" => kind[c] \in SwitchKinds /\ RuntimeActed(c)
  /\ pending = c => aeOps[c] \in {"prepared", "handoff_pending"}

(* A switch that lost its target at AE after AR acted.                     *)
Invalidated(c) == kind[c] \in SwitchKinds /\ aeOps[c] = "invalidated"

(* Who gave up did so because the command could not go on.                 *)
ReleasedForGood(c) ==
  /\ arOps[c] = "compensated" => (NeedsGraph(c) /\ GraphLost(c)) \/ Invalidated(c)
  /\ aeOps[c] = "aborted" /\ NeedsGraph(c) => GraphReleased(c)
  /\ saga[c] = "compensated" => arOps[c] = "compensated"
  /\ saga[c] = "aborted" /\ NeedsForeground(c) => ForegroundLost(c)

ExecutedInFull(c) ==
  c \in executions =>
    /\ arOps[c] = "applied"
    /\ NeedsGraph(c) => reserved[c] = "applied"
    /\ NeedsForeground(c) => aeOps[c] = "completed"

(* Each write of AE that closes the head to a previewed command makes the  *)
(* preview stale.                                                          *)
FreshCanTake(c) ==
  c \in aeFresh /\ NeedsForeground(c) =>
    aeOps[c] = "none" /\ MayTakeForeground(kind[c])

(* A switch that holds the head, or still could take it, has its target,   *)
(* or a prune that lost the head took the target away.                     *)
TargetHeld(c) ==
  \/ target[c] \in Active
  \/ \E p \in Controls : StrandedPrune(p) /\ target[c] \in affected[p]

TargetActive(c) ==
  kind[c] \in SwitchKinds /\ (pending = c \/ c \in aeFresh) => TargetHeld(c)

RowOK(c) ==
  /\ OnlyNeededRows(c)
  /\ OwnersInOrder(c)
  /\ ReleasedForGood(c)
  /\ ExecutedInFull(c)
  /\ FreshCanTake(c)
  /\ TargetActive(c)

-----------------------------------------------------------------------------
(* What a driver relies on at each place, whatever the others do           *)

PastForeground(c) == NeedsForeground(c) => aeOps[c] # "none"

PastGraph(c) == PastForeground(c) /\ (NeedsGraph(c) => reserved[c] # "none")

Placed(pc, c) ==
  /\ pc = "ae" => NeedsForeground(c)
  /\ pc = "rg" => NeedsGraph(c) /\ PastForeground(c)
  /\ pc = "ar" => PastGraph(c)
  /\ pc = "apply" => PastGraph(c) /\ arOps[c] # "none"
  /\ pc \in {"verify", "graph"} => NeedsGraph(c) /\ PastGraph(c) /\ RuntimeActed(c)
  /\ pc = "complete" =>
       /\ NeedsForeground(c) /\ PastForeground(c) /\ RuntimeActed(c)
       /\ NeedsGraph(c) => reserved[c] = "applied"
  /\ pc = "finish" =>
       /\ arOps[c] = "applied"
       /\ NeedsGraph(c) => reserved[c] = "applied"
       /\ NeedsForeground(c) => aeOps[c] = "completed"

Marking(todo, c) ==
  \E x \in {"apply", "verify", "complete", "finish", "idle"} :
    todo = <<x>> /\ Placed(x, c)

(* The releases a driver has left, and what it lost.                       *)
Unwinding(todo, c) ==
  \/ todo = <<>> /\ (NeedsForeground(c) => ForegroundLost(c))
  \/ /\ todo = <<"ae">> /\ NeedsForeground(c)
     /\ aeOps[c] # "none" \/ ForegroundLost(c)
     /\ NeedsGraph(c) => GraphReleased(c) \/ ForegroundLost(c)
  \/ todo = <<"ar">> /\ ~NeedsForeground(c)
  \/ /\ todo = <<"ar", "ae">> /\ NeedsForeground(c) /\ aeOps[c] # "none"
     /\ NeedsGraph(c) => GraphReleased(c)
  \/ /\ todo = <<"rg", "ae">> /\ NeedsGraph(c)
     /\ reserved[c] # "none" \/ ForegroundLost(c)
  \/ todo = <<"rg", "ar", "ae">> /\ NeedsGraph(c) /\ reserved[c] # "none"
  \/ /\ todo = <<"comp", "rg", "ae">> /\ NeedsGraph(c)
     /\ GraphLost(c) /\ RuntimeActed(c)
  \/ todo = <<"marked", "rg", "ae">> /\ NeedsGraph(c) /\ arOps[c] = "compensated"
  \/ todo = <<"comp">> /\ Invalidated(c) /\ RuntimeActed(c)
  \/ todo = <<"marked">> /\ Invalidated(c) /\ arOps[c] = "compensated"

DriverOK(r) ==
  r.pc # "idle" =>
    /\ r.cmd \in Controls /\ kind[r.cmd] # "none"
    /\ r.pc = "mark" => Marking(r.todo, r.cmd)
    /\ r.pc = "unwind" => Unwinding(r.todo, r.cmd)
    /\ Placed(r.pc, r.cmd)
    /\ r.pc = "ensure" /\ r.seen \in AbortedStatus => aeOps[r.cmd] = r.seen

DriversOK == \A d \in Drivers : DriverOK(driver[d])

RowsOK == \A c \in Controls : RowOK(c)

CurrentPrepared == \A c \in current : reserved[c] = "prepared"

SagaInvariant ==
  /\ SagaTypeOK
  /\ QuestionInvariant
  /\ CurrentPrepared
  /\ RowsOK
  /\ DriversOK

LEMMA SagaInit == InitSaga => SagaInvariant
<1> SUFFICES ASSUME InitSaga PROVE SagaInvariant
  OBVIOUS
<1> USE DEF InitSaga
<1>1. QuestionInvariant
  BY QuestionInit
<1>2. SagaTypeOK
  <2>1. <<>> \in Seq({"ae", "rg", "ar", "comp", "marked", "apply", "verify",
                      "complete", "finish", "idle"})
    OBVIOUS
  <2> QED BY <1>1, <2>1, TreeAssumption
      DEF SagaTypeOK, QuestionInvariant, Idle, AbortedStatus
<1>3. CurrentPrepared
  BY DEF CurrentPrepared, InitQuestions
<1>4. RowsOK
  BY TreeAssumption
     DEF RowsOK, RowOK, OnlyNeededRows, OwnersInOrder, ReleasedForGood, ExecutedInFull,
         FreshCanTake, TargetActive, InitQuestions, NeedsGraph, NeedsForeground, GraphKinds,
         SwitchKinds, RunKinds
<1>5. DriversOK
  BY DEF DriversOK, DriverOK, Idle
<1> QED BY <1>1, <1>2, <1>3, <1>4, <1>5 DEF SagaInvariant

-----------------------------------------------------------------------------
(* Frames                                                                  *)

(* A command goes on at AE and AR: what is there stays there.              *)
OwnersGoOn(c) ==
  kind[c] # "none" =>
    /\ kind'[c] = kind[c]
    /\ aeOps[c] # "none" => aeOps'[c] # "none"
    /\ aeOps[c] \in AbortedStatus \cup {"completed"} => aeOps'[c] = aeOps[c]
    /\ ForegroundLost(c) => ForegroundLost(c)'
    /\ arOps[c] # "none" => arOps'[c] # "none"
    /\ RuntimeActed(c) => RuntimeActed(c)'
    /\ arOps[c] = "compensated" => arOps'[c] = "compensated"

(* What needs the graph asks it for something, and needs the head too.     *)
LEMMA KindsAsk ==
  ASSUME SagaInvariant, NEW c \in Controls, NeedsGraph(c)
  PROVE  Asks(c) # "none" /\ kind[c] # "none" /\ NeedsForeground(c)
  BY DEF SagaInvariant, RowsOK, RowOK, OnlyNeededRows, NeedsGraph, NeedsForeground,
         GraphKinds, RunKinds

(* A driver that takes no step keeps its footing.                          *)
LEMMA OthersKept ==
  ASSUME SagaInvariant, [NextQuestions]_questionVars, RowsOK',
         \A c \in Controls : OwnersGoOn(c),
         NEW d \in Drivers, driver'[d] = driver[d]
  PROVE  DriverOK(driver[d])'
<1> DEFINE c == driver[d].cmd
<1>1. SUFFICES ASSUME driver[d].pc # "idle" PROVE DriverOK(driver[d])'
  BY DEF DriverOK
<1>2. c \in Controls /\ kind[c] # "none" /\ DriverOK(driver[d])
  BY <1>1 DEF SagaInvariant, DriversOK, DriverOK
<1>3. GraphGoesOn(c) /\ OwnersGoOn(c)
  BY <1>2, GraphProgress DEF SagaInvariant
<1>4. kind'[c] = kind[c]
  BY <1>2, <1>3 DEF OwnersGoOn
<1>5. (NeedsGraph(c)' <=> NeedsGraph(c)) /\ (NeedsForeground(c)' <=> NeedsForeground(c))
  BY <1>4 DEF NeedsGraph, NeedsForeground
<1>6. NeedsGraph(c) => (GraphLost(c) => GraphLost(c)') /\ (GraphReleased(c) => GraphReleased(c)')
  BY <1>2, <1>3, KindsAsk DEF GraphGoesOn
<1>7. /\ reserved[c] # "none" => reserved'[c] # "none"
      /\ reserved[c] = "applied" => reserved'[c] = "applied"
      /\ aeOps[c] # "none" => aeOps'[c] # "none"
      /\ aeOps[c] \in AbortedStatus \cup {"completed"} => aeOps'[c] = aeOps[c]
      /\ ForegroundLost(c) => ForegroundLost(c)'
      /\ arOps[c] # "none" => arOps'[c] # "none"
      /\ RuntimeActed(c) => RuntimeActed(c)'
      /\ arOps[c] = "compensated" => arOps'[c] = "compensated"
  BY <1>2, <1>3 DEF GraphGoesOn, OwnersGoOn
<1>8. /\ Invalidated(c) => Invalidated(c)'
      /\ aeOps[c] = "completed" => ~Invalidated(c)'
      /\ ~NeedsForeground(c) => ~Invalidated(c)'
  BY <1>4, <1>7 DEF Invalidated, AbortedStatus, NeedsForeground, SwitchKinds, RunKinds
<1>9. ASSUME NeedsGraph(c) => reserved[c] = "applied",
             NeedsForeground(c) => aeOps[c] = "completed", RuntimeActed(c)
      PROVE  arOps'[c] = "applied"
  BY <1>2, <1>5, <1>7, <1>8, <1>9
     DEF RowsOK, RowOK, ReleasedForGood, GraphLost, RuntimeActed
<1>10. ASSUME NEW x, Placed(x, c) PROVE Placed(x, c)'
  <2>1. (x = "finish") => arOps'[c] = "applied"
    BY <1>9, <1>10 DEF Placed, RuntimeActed
  <2> QED BY <1>5, <1>7, <1>10,   <2>1 DEF Placed, PastForeground, PastGraph, RuntimeActed
<1>11. Marking(driver[d].todo, c) => Marking(driver[d].todo, c)'
  BY <1>10 DEF Marking
<1>12. Unwinding(driver[d].todo, c) => Unwinding(driver[d].todo, c)'
  BY <1>5, <1>6, <1>7, <1>8 DEF Unwinding
<1> QED BY <1>2, <1>4, <1>7, <1>10, <1>11, <1>12 DEF DriverOK

LEMMA CurrentStep ==
  ASSUME QuestionInvariant, CurrentPrepared, [NextQuestions]_questionVars
  PROVE  CurrentPrepared'
<1> USE DEF CurrentPrepared
<1>1. CASE UNCHANGED questionVars
  BY <1>1 DEF questionVars
<1>2. CASE Growth
  BY <1>2 DEF Growth, CheckManualParent, AcceptManualQuestion,
              AcceptAutonomousQuestion, OtherGraphWrite, GraphMoves, controlVars
<1>3. ASSUME NEW c \in Controls, Control(c) PROVE CurrentPrepared'
  BY <1>3 DEF Control, PreviewPrune, PreviewRestore, PrepareQuestionControl,
              AbortQuestionControl, ApplyQuestionControl, GraphMoves,
              QuestionInvariant, QuestionTypeOK
<1> QED BY <1>1, <1>2, <1>3 DEF NextQuestions

(* A step of one driver keeps the invariant when the rows still fit and    *)
(* the driver stands where it may.                                         *)
LEMMA DriverStepKeeps ==
  ASSUME SagaInvariant, [NextQuestions]_questionVars, SagaTypeOK', RowsOK',
         \A c \in Controls : OwnersGoOn(c),
         NEW d \in Drivers, \A e \in Drivers \ {d} : driver'[e] = driver[e],
         DriverOK(driver[d])'
  PROVE  SagaInvariant'
<1>1. QuestionInvariant' /\ CurrentPrepared'
  BY QuestionStep, CurrentStep DEF SagaInvariant
<1>2. \A e \in Drivers : DriverOK(driver[e])'
  BY OthersKept
<1> QED BY <1>1, <1>2 DEF SagaInvariant, DriversOK

(* A step of no driver.                                                    *)
LEMMA OutsideStepKeeps ==
  ASSUME SagaInvariant, [NextQuestions]_questionVars, SagaTypeOK', RowsOK',
         \A c \in Controls : OwnersGoOn(c), driver' = driver
  PROVE  SagaInvariant'
<1>1. QuestionInvariant' /\ CurrentPrepared'
  BY QuestionStep, CurrentStep DEF SagaInvariant
<1>2. \A e \in Drivers : DriverOK(driver[e])'
  BY OthersKept
<1> QED BY <1>1, <1>2 DEF SagaInvariant, DriversOK

(* The graph does not change: what AE, AR and HC write is about the rest.  *)
LEMMA GraphStill ==
  ASSUME UNCHANGED questionVars
  PROVE  /\ reserved' = reserved /\ Active' = Active /\ affected' = affected
         /\ \A c : Asks(c)' = Asks(c)
         /\ \A c : GraphLost(c)' <=> GraphLost(c)
         /\ \A c : GraphReleased(c)' <=> GraphReleased(c)
<1>1. UNCHANGED <<lifecycle, control, fresh, reserved, affected, current>>
  BY DEF questionVars
<1>2. Active' = Active /\ Accepted' = Accepted /\ \A c : Asks(c)' = Asks(c)
  BY <1>1 DEF Active, Accepted, Asks
<1>3. \A c : AffectedBy(c)' = AffectedBy(c)
  BY <1>1, <1>2 DEF AffectedBy, Asks, SubtreeOf, ClosedBelow
<1>4. \A c : MayApply(c)' <=> MayApply(c)
  BY <1>1, <1>2 DEF MayApply
<1>5. \A c : MayReserve(c)' <=> MayReserve(c)
  BY <1>1, <1>2, <1>3 DEF MayReserve, Required
<1> QED BY <1>1, <1>2, <1>4, <1>5 DEF GraphLost, GraphReleased

-----------------------------------------------------------------------------
(* Moves of a driver                                                       *)

Places ==
  {"idle", "ensure", "ae", "rg", "ar", "mark", "apply", "verify",
   "graph", "complete", "finish", "unwind"}

Names ==
  {"ae", "rg", "ar", "comp", "marked", "apply", "verify", "complete", "finish", "idle"}

DriversTyped ==
  driver \in [Drivers ->
    [pc : Places, cmd : Controls \cup {NoControl},
     seen : {"none", "prepared", "handoff_pending", "completed"} \cup AbortedStatus,
     todo : Seq(Names)]]

(* Driver d keeps its command and goes to pc with todo.                    *)
Moved(d, pc, todo) ==
  /\ DriversTyped'
  /\ \A e \in Drivers \ {d} : driver'[e] = driver[e]
  /\ driver'[d].pc = pc /\ driver'[d].todo = todo
  /\ driver'[d].cmd = driver[d].cmd /\ driver'[d].seen = driver[d].seen

Stopped(d) ==
  /\ DriversTyped'
  /\ \A e \in Drivers \ {d} : driver'[e] = driver[e]
  /\ driver'[d] = Idle

LEMMA GoesMoves ==
  ASSUME DriversTyped, NEW d \in Drivers, NEW pc \in Places, Goes(d, pc)
  PROVE  Moved(d, pc, driver[d].todo)
  BY DEF DriversTyped, Moved, Goes, Places

LEMMA UnwindsMoves ==
  ASSUME DriversTyped, NEW d \in Drivers, NEW steps \in Seq(Names), Unwinds(d, steps)
  PROVE  Moved(d, "unwind", steps)
  BY DEF DriversTyped, Moved, Unwinds, Places

LEMMA MarksMoves ==
  ASSUME DriversTyped, NEW d \in Drivers, NEW next \in Names, Marks(d, next)
  PROVE  Moved(d, "mark", <<next>>)
<1>1. <<next>> \in Seq(Names)
  OBVIOUS
<1> QED BY <1>1 DEF DriversTyped, Moved, Marks, Places

LEMMA StopsMoves ==
  ASSUME DriversTyped, NEW d \in Drivers, Stops(d)
  PROVE  Stopped(d)
  BY DEF DriversTyped, Stopped, Stops, Idle, Places

LEMMA Next1Moves ==
  ASSUME DriversTyped, NEW d \in Drivers, driver[d].todo # <<>>, Next1(d)
  PROVE  Moved(d, driver[d].pc, Tail(driver[d].todo))
<1>1. driver[d].todo \in Seq(Names)
  BY DEF DriversTyped
<1>2. Tail(driver[d].todo) \in Seq(Names)
  BY <1>1
<1> QED BY <1>2 DEF DriversTyped, Moved, Next1

(* The lists a driver unwinds with.                                        *)
Without(c) == GraphPart(c) \o ForegroundPart(c)
WithRuntime(c) == GraphPart(c) \o <<"ar">> \o ForegroundPart(c)

LEMMA Releases ==
  /\ \A c : Without(c) \in Seq(Names) /\ WithRuntime(c) \in Seq(Names)
  /\ \A c : InvalidatedPart(c) \in Seq(Names) /\ InvalidatedPart(c) \in {<<>>, <<"comp">>}
  /\ <<"comp">> \in Seq(Names) /\ <<"marked">> \in Seq(Names)
  /\ \A x \in Names : <<x>> \in Seq(Names)
  /\ <<>> \in Seq(Names) /\ <<"comp", "rg", "ae">> \in Seq(Names)
  /\ \A c : Without(c) =
       IF NeedsGraph(c) THEN <<"rg", "ae">>
       ELSE IF NeedsForeground(c) THEN <<"ae">> ELSE <<>>
  /\ \A c : WithRuntime(c) =
       IF NeedsGraph(c) THEN <<"rg", "ar", "ae">>
       ELSE IF NeedsForeground(c) THEN <<"ar", "ae">> ELSE <<"ar">>
  /\ <<"rg", "ae">> \in Seq(Names) /\ <<"ar", "ae">> \in Seq(Names)
  /\ <<"rg", "ar", "ae">> \in Seq(Names) /\ <<"marked", "rg", "ae">> \in Seq(Names)
<1>1. \A c : NeedsGraph(c) => NeedsForeground(c)
  BY DEF NeedsGraph, NeedsForeground, GraphKinds, RunKinds
<1>2. \A c : Without(c) =
        IF NeedsGraph(c) THEN <<"rg", "ae">>
        ELSE IF NeedsForeground(c) THEN <<"ae">> ELSE <<>>
  BY <1>1, Lists DEF Without, WithRuntime, GraphPart, ForegroundPart
<1>3. \A c : WithRuntime(c) =
        IF NeedsGraph(c) THEN <<"rg", "ar", "ae">>
        ELSE IF NeedsForeground(c) THEN <<"ar", "ae">> ELSE <<"ar">>
  BY <1>1, Lists DEF Without, WithRuntime, GraphPart, ForegroundPart
<1>4. \A x \in Names : <<x>> \in Seq(Names)
  OBVIOUS
<1>5. /\ <<>> \in Seq(Names) /\ <<"comp", "rg", "ae">> \in Seq(Names)
      /\ <<"rg", "ae">> \in Seq(Names) /\ <<"ar", "ae">> \in Seq(Names)
      /\ <<"rg", "ar", "ae">> \in Seq(Names) /\ <<"marked", "rg", "ae">> \in Seq(Names)
  BY DEF Names
<1>6. /\ <<"ae">> \in Seq(Names) /\ <<"ar">> \in Seq(Names)
      /\ <<"comp">> \in Seq(Names) /\ <<"marked">> \in Seq(Names)
  BY DEF Names
<1>7. ASSUME NEW c PROVE Without(c) \in Seq(Names) /\ WithRuntime(c) \in Seq(Names)
  BY <1>2, <1>3, <1>5, <1>6
<1>8. \A c : InvalidatedPart(c) \in Seq(Names) /\ InvalidatedPart(c) \in {<<>>, <<"comp">>}
  BY <1>5, <1>6 DEF InvalidatedPart
<1> QED BY <1>2, <1>3, <1>4, <1>5, <1>6, <1>7, <1>8

-----------------------------------------------------------------------------
(* Steps of Human Collaboration                                            *)

HcTyped ==
  /\ kind \in [Controls -> Kinds \cup {"none"}]
  /\ target \in [Controls -> Questions]
  /\ saga \in [Controls -> {"none", "open", "compensated", "aborted", "completed"}]
  /\ executions \subseteq Controls

AeTyped ==
  /\ aeOps \in [Controls ->
       {"none", "prepared", "handoff_pending", "completed"} \cup AbortedStatus]
  /\ pending \in Controls \cup {NoControl}
  /\ aeFresh \subseteq Controls

ArTyped ==
  /\ arOps \in [Controls -> {"none", "prepared", "applied", "aborted", "compensated"}]
  /\ arFresh \subseteq Controls /\ suspends \subseteq Controls

LEMMA SagaTyped ==
  /\ SagaTypeOK <=> QuestionTypeOK /\ HcTyped /\ AeTyped /\ ArTyped /\ DriversTyped
  /\ SagaTypeOK' <=> QuestionTypeOK' /\ HcTyped' /\ AeTyped' /\ ArTyped' /\ DriversTyped'
  BY DEF SagaTypeOK, HcTyped, AeTyped, ArTyped, DriversTyped, Places, Names

(* A driver that is somewhere works on a confirmed command.                *)
LEMMA Working ==
  ASSUME SagaInvariant, NEW d \in Drivers, driver[d].pc # "idle"
  PROVE  /\ Cmd(d) \in Controls /\ kind[Cmd(d)] # "none" /\ RowOK(Cmd(d))
         /\ DriverOK(driver[d])
  BY DEF SagaInvariant, DriversOK, RowsOK, DriverOK, Cmd

LEMMA HcRows ==
  ASSUME SagaInvariant, UNCHANGED <<questionVars, kind, target, aeVars, arVars>>,
         NEW c \in Controls, kind[c] # "none",
         NEW s \in {"none", "open", "compensated", "aborted", "completed"},
         saga' = [saga EXCEPT ![c] = s],
         executions' \in {executions, executions \cup {c}},
         s = "compensated" => arOps[c] = "compensated",
         s = "aborted" => (NeedsForeground(c) => ForegroundLost(c)),
         executions' # executions => Placed("finish", c)
  PROVE  /\ RowsOK' /\ [NextQuestions]_questionVars
         /\ \A x \in Controls : OwnersGoOn(x)
         /\ DriversTyped' => SagaTypeOK'
<1> USE DEF SagaInvariant
<1>1. HcTyped /\ AeTyped /\ ArTyped /\ QuestionTypeOK
  BY SagaTyped
<1>2. saga'[c] = s /\ \A x \in Controls \ {c} : saga'[x] = saga[x]
  BY <1>1 DEF HcTyped
<1>3. \A x : (NeedsGraph(x)' <=> NeedsGraph(x)) /\ (NeedsForeground(x)' <=> NeedsForeground(x))
  BY DEF NeedsGraph, NeedsForeground
<1>4. \A x : (ForegroundLost(x)' <=> ForegroundLost(x)) /\ (RuntimeActed(x)' <=> RuntimeActed(x))
  BY DEF ForegroundLost, RuntimeActed, aeVars, arVars
<1>5. ASSUME NEW x \in Controls PROVE RowOK(x)'
  <2>1. RowOK(x)
    BY DEF RowsOK
  <2>2. OnlyNeededRows(x)'
    BY <2>1, <1>2, <1>3, GraphStill DEF RowOK, OnlyNeededRows, aeVars, arVars
  <2>3. OwnersInOrder(x)'
    BY <2>1, <1>3, <1>4, GraphStill DEF RowOK, OwnersInOrder, aeVars, arVars
  <2>4. ReleasedForGood(x)'
    BY <2>1, <1>2, <1>3, <1>4, GraphStill
       DEF RowOK, ReleasedForGood, Invalidated, aeVars, arVars
  <2>5. ExecutedInFull(x)'
    BY <2>1, <1>3, GraphStill DEF RowOK, ExecutedInFull, Placed, aeVars, arVars
  <2>6. FreshCanTake(x)' /\ TargetActive(x)'
    BY <2>1, <1>3, GraphStill
       DEF RowOK, FreshCanTake, MayTakeForeground, TargetActive, TargetHeld,
           StrandedPrune, aeVars
  <2> QED BY <2>2, <2>3, <2>4, <2>5, <2>6 DEF RowOK
<1>6. HcTyped' /\ AeTyped' /\ ArTyped' /\ QuestionTypeOK'
  BY <1>1 DEF HcTyped, AeTyped, ArTyped, QuestionTypeOK, aeVars, arVars, questionVars
<1>7. \A x \in Controls : OwnersGoOn(x)
  BY <1>4 DEF OwnersGoOn, aeVars, arVars
<1> QED BY <1>5, <1>6, <1>7, SagaTyped DEF RowsOK

(* What a driver relies on is not in the rows of HC.                       *)
LEMMA FootingStill ==
  ASSUME UNCHANGED <<questionVars, kind, aeVars, arOps>>
  PROVE  /\ \A pc, c : Placed(pc, c)' <=> Placed(pc, c)
         /\ \A todo, c : Marking(todo, c)' <=> Marking(todo, c)
         /\ \A todo, c : Unwinding(todo, c)' <=> Unwinding(todo, c)
<1>1. \A c : (NeedsGraph(c)' <=> NeedsGraph(c)) /\ (NeedsForeground(c)' <=> NeedsForeground(c))
  BY DEF NeedsGraph, NeedsForeground
<1>2. \A c : /\ ForegroundLost(c)' <=> ForegroundLost(c)
             /\ RuntimeActed(c)' <=> RuntimeActed(c)
             /\ PastForeground(c)' <=> PastForeground(c)
             /\ PastGraph(c)' <=> PastGraph(c)
  BY <1>1, GraphStill
     DEF ForegroundLost, RuntimeActed, PastForeground, PastGraph, aeVars
<1>3. \A pc, c : Placed(pc, c)' <=> Placed(pc, c)
  BY <1>1, <1>2, GraphStill DEF Placed, aeVars
<1>4. \A todo, c : Marking(todo, c)' <=> Marking(todo, c)
  BY <1>3 DEF Marking
<1>5. \A todo, c : Unwinding(todo, c)' <=> Unwinding(todo, c)
  BY <1>1, <1>2, GraphStill DEF Unwinding, Invalidated, aeVars
<1> QED BY <1>3, <1>4, <1>5

(* A driver that HC leaves standing somewhere else.                        *)
LEMMA HcStepKeeps ==
  ASSUME SagaInvariant, UNCHANGED <<questionVars, kind, target, aeVars, arVars>>,
         NEW d \in Drivers, NEW c \in Controls, kind[c] # "none",
         NEW s \in {"none", "open", "compensated", "aborted", "completed"},
         saga' = [saga EXCEPT ![c] = s],
         executions' \in {executions, executions \cup {c}},
         s = "compensated" => arOps[c] = "compensated",
         s = "aborted" => (NeedsForeground(c) => ForegroundLost(c)),
         executions' # executions => Placed("finish", c),
         DriversTyped', \A e \in Drivers \ {d} : driver'[e] = driver[e],
         DriverOK(driver[d])'
  PROVE  SagaInvariant'
  BY HcRows, DriverStepKeeps

LEMMA StoppedOK ==
  ASSUME NEW d \in Drivers, Stopped(d) PROVE DriverOK(driver[d])'
  BY DEF Stopped, DriverOK, Idle

LEMMA StartKeeps ==
  ASSUME SagaInvariant, NEW d \in Drivers, NEW c \in Controls, Start(d, c)
  PROVE  SagaInvariant'
<1>1. kind[c] # "none" /\ saga' = [saga EXCEPT ![c] = saga[c]]
      /\ UNCHANGED <<questionVars, kind, target, executions, aeVars, arVars>>
  BY SagaTyped DEF Start, Takes, hcVars, SagaInvariant, HcTyped
<1>2. /\ DriversTyped'
      /\ \A e \in Drivers \ {d} : driver'[e] = driver[e]
      /\ driver'[d] = [pc |-> "ensure", cmd |-> c, seen |-> aeOps[c], todo |-> <<>>]
  BY SagaTyped, Releases
     DEF Start, SagaInvariant, DriversTyped, Places, AeTyped, AbortedStatus
<1>3. DriverOK(driver[d])'
  BY <1>1, <1>2 DEF DriverOK, Placed, aeVars
<1>4. saga[c] \in {"none", "open", "compensated", "aborted", "completed"} /\ RowOK(c)
  BY SagaTyped DEF SagaInvariant, HcTyped, RowsOK
<1> QED BY <1>1, <1>2, <1>3, <1>4, HcStepKeeps DEF RowOK, ReleasedForGood

LEMMA StartExecutedKeeps ==
  ASSUME SagaInvariant, NEW d \in Drivers, NEW c \in Controls, StartExecuted(d, c)
  PROVE  SagaInvariant'
<1>1. DriversTyped' /\ driver' = driver
  BY SagaTyped DEF StartExecuted, SagaInvariant, DriversTyped
<1>2. DriverOK(driver[d])'
  BY <1>1 DEF StartExecuted, Takes, At, DriverOK
<1> QED BY <1>1, <1>2, HcStepKeeps DEF StartExecuted, Takes

LEMMA StartCompensatedKeeps ==
  ASSUME SagaInvariant, NEW d \in Drivers, NEW c \in Controls, StartCompensated(d, c)
  PROVE  SagaInvariant'
<1>1. RowOK(c) /\ arOps[c] = "compensated" /\ kind[c] # "none"
  BY DEF StartCompensated, SagaInvariant, RowsOK, RowOK, ReleasedForGood, OnlyNeededRows
<1>2. (NeedsGraph(c) /\ GraphLost(c)) \/ Invalidated(c)
  BY <1>1 DEF RowOK, ReleasedForGood
<1>3. /\ DriversTyped'
      /\ \A e \in Drivers \ {d} : driver'[e] = driver[e]
      /\ driver'[d] = [pc |-> "unwind", cmd |-> c, seen |-> "none", todo |-> Without(c)]
  BY SagaTyped, Releases
     DEF StartCompensated, SagaInvariant, DriversTyped, Places, Without
<1>4. Unwinding(Without(c), c)
  <2>1. CASE NeedsGraph(c) /\ GraphLost(c)
    BY <2>1, Releases DEF Unwinding, GraphLost
  <2>2. CASE Invalidated(c)
    BY <2>2, Releases
       DEF Unwinding, Invalidated, NeedsGraph, NeedsForeground, GraphKinds, SwitchKinds,
           RunKinds
  <2> QED BY <1>2, <2>1, <2>2
<1>5. UNCHANGED <<questionVars, kind, target, executions, aeVars, arVars>>
  BY DEF StartCompensated
<1>6. Unwinding(Without(c), c)' /\ kind'[c] # "none" /\ Without(c)' = Without(c)
  BY <1>1, <1>4, <1>5, FootingStill
     DEF arVars, Without, GraphPart, ForegroundPart, NeedsGraph, NeedsForeground
<1>7. DriverOK(driver[d])'
  BY <1>3, <1>6 DEF DriverOK, Placed
<1> QED BY <1>1, <1>3, <1>5, <1>7, HcStepKeeps DEF StartCompensated

(* Where a driver that goes on with its command may stand.                 *)
LEMMA MovedOK ==
  ASSUME NEW d \in Drivers, NEW c \in Controls, c = Cmd(d),
         NEW pc, NEW todo, Moved(d, pc, todo),
         kind'[c] # "none", pc # "ensure", Placed(pc, c)',
         pc = "mark" => Marking(todo, c)',
         pc = "unwind" => Unwinding(todo, c)'
  PROVE  DriverOK(driver[d])'
  BY DEF Moved, DriverOK, Cmd

LEMMA StillMovedOK ==
  ASSUME UNCHANGED <<questionVars, kind, aeVars, arOps>>,
         NEW d \in Drivers, NEW c \in Controls, c = Cmd(d),
         NEW pc, NEW todo, Moved(d, pc, todo),
         kind[c] # "none", pc # "ensure", Placed(pc, c),
         pc = "mark" => Marking(todo, c),
         pc = "unwind" => Unwinding(todo, c)
  PROVE  DriverOK(driver[d])'
<1>1. Placed(pc, c)' /\ (pc = "mark" => Marking(todo, c)')
      /\ (pc = "unwind" => Unwinding(todo, c)') /\ kind'[c] # "none"
  BY FootingStill
<1> QED BY <1>1, MovedOK

LEMMA EnsureSagaKeeps ==
  ASSUME SagaInvariant, NEW d \in Drivers, EnsureSaga(d)
  PROVE  SagaInvariant'
<1>1. SUFFICES ASSUME NEW c \in Controls, c = Cmd(d), kind[c] # "none", RowOK(c),
                      NEW t, t = driver[d].todo
               PROVE  SagaInvariant'
  BY Working DEF EnsureSaga, At
<1>2. DriversTyped /\ DriverOK(driver[d]) /\ driver[d].pc = "ensure"
  BY SagaTyped, Working DEF SagaInvariant, EnsureSaga, At
<1>3. UNCHANGED <<questionVars, kind, target, executions, aeVars, arVars>>
  BY DEF EnsureSaga
<1>4. /\ DriversTyped' /\ \A e \in Drivers \ {d} : driver'[e] = driver[e]
      /\ DriverOK(driver[d])'
  <2>1. CASE saga[c] \in {"compensated", "aborted"} \/ arOps[c] = "compensated"
    <3>1. Unwinds(d, Without(c))
      BY <1>1, <2>1 DEF EnsureSaga, Without
    <3>2. Moved(d, "unwind", Without(c))
      BY <1>2, <3>1, Releases, UnwindsMoves
    <3>3. Unwinding(Without(c), c)
      <4>1. CASE NeedsGraph(c)
        <5>1. reserved[c] # "none" \/ ForegroundLost(c)
          BY <1>1, <2>1, <4>1, KindsAsk
             DEF RowOK, ReleasedForGood, GraphLost, Invalidated, NeedsGraph, GraphKinds,
                 SwitchKinds
        <5> QED BY <4>1, <5>1, Releases DEF Unwinding
      <4>2. CASE ~NeedsGraph(c)
        BY <1>1, <2>1, <4>2, Releases
           DEF Unwinding, RowOK, ReleasedForGood, Invalidated, NeedsForeground,
               SwitchKinds, RunKinds
      <4> QED BY <4>1, <4>2
    <3>4. DriverOK(driver[d])'
      BY <1>1, <1>3, <3>2, <3>3, StillMovedOK DEF Placed, arVars
    <3> QED BY <3>2, <3>4 DEF Moved
  <2>2. CASE ~(saga[c] \in {"compensated", "aborted"} \/ arOps[c] = "compensated")
             /\ driver[d].seen = "aborted"
    <3>1. Unwinds(d, <<>>)
      BY <1>1, <2>2 DEF EnsureSaga
    <3>2. Moved(d, "unwind", <<>>)
      BY <1>2, <3>1, Releases, UnwindsMoves
    <3>3. Unwinding(<<>>, c)
      BY <1>1, <1>2, <2>2 DEF DriverOK, Cmd, Unwinding, ForegroundLost, AbortedStatus
    <3>4. DriverOK(driver[d])'
      BY <1>1, <1>3, <3>2, <3>3, StillMovedOK DEF Placed, arVars
    <3> QED BY <3>2, <3>4 DEF Moved
  <2>4. CASE ~(saga[c] \in {"compensated", "aborted"} \/ arOps[c] = "compensated")
             /\ driver[d].seen = "invalidated"
    <3>1. Unwinds(d, InvalidatedPart(c))
      BY <1>1, <2>4 DEF EnsureSaga
    <3>2. Moved(d, "unwind", InvalidatedPart(c))
      BY <1>2, <3>1, Releases, UnwindsMoves
    <3>3. aeOps[c] = "invalidated"
      BY <1>1, <1>2, <2>4 DEF DriverOK, Cmd, AbortedStatus
    <3>4. Unwinding(InvalidatedPart(c), c)
      BY <1>1, <3>3, Releases
         DEF Unwinding, ForegroundLost, AbortedStatus, Invalidated, RowOK, OwnersInOrder
    <3>5. DriverOK(driver[d])'
      BY <1>1, <1>3, <3>2, <3>4, StillMovedOK DEF Placed, arVars
    <3> QED BY <3>2, <3>5 DEF Moved
  <2>3. CASE ~(saga[c] \in {"compensated", "aborted"} \/ arOps[c] = "compensated")
             /\ driver[d].seen \notin AbortedStatus
    <3>1. PICK pc \in {"ae", "ar"} :
            Goes(d, pc) /\ (pc = "ae" <=> NeedsForeground(c))
      BY <1>1, <2>3 DEF EnsureSaga, AbortedStatus
    <3>2. Moved(d, pc, t)
      BY <1>1, <1>2, <3>1, GoesMoves DEF Places
    <3>3. Placed(pc, c)
      BY <1>1, <3>1, KindsAsk DEF Placed, PastGraph, PastForeground
    <3>4. DriverOK(driver[d])'
      BY <1>1, <1>3, <3>1, <3>2, <3>3, StillMovedOK DEF arVars
    <3> QED BY <3>2, <3>4 DEF Moved
  <2> QED BY <2>1, <2>2, <2>4, <2>3 DEF AbortedStatus
<1>5. PICK s \in {"open", "compensated", "aborted", "completed"} :
        /\ saga' = [saga EXCEPT ![c] = s]
        /\ s \in {"compensated", "aborted"} => s = saga[c]
  <2>1. saga[c] \in {"none", "open", "compensated", "aborted", "completed"}
    BY SagaTyped DEF SagaInvariant, HcTyped
  <2>2. saga' = [saga EXCEPT ![c] = IF saga[c] = "none" THEN "open" ELSE saga[c]]
    BY <1>1 DEF EnsureSaga
  <2> QED BY <2>1, <2>2
<1> QED BY <1>1, <1>3, <1>4, <1>5, HcStepKeeps DEF RowOK, ReleasedForGood

(* The command a working driver is at, as a value.                         *)
LEMMA AtWork ==
  ASSUME SagaInvariant, NEW d \in Drivers, driver[d].pc # "idle"
  PROVE  \E c \in Controls, t \in Seq(Names) :
           /\ c = Cmd(d) /\ t = driver[d].todo /\ kind[c] # "none" /\ RowOK(c)
           /\ Placed(driver[d].pc, c)
           /\ driver[d].pc = "mark" => Marking(t, c)
           /\ driver[d].pc = "unwind" => Unwinding(t, c)
<1>1. DriversTyped
  BY SagaTyped DEF SagaInvariant
<1> QED BY <1>1, Working DEF DriverOK, Cmd, DriversTyped

LEMMA QuietStepKeeps ==
  ASSUME SagaInvariant, UNCHANGED <<questionVars, hcVars, aeVars, arVars>>,
         NEW d \in Drivers, NEW c \in Controls, kind[c] # "none",
         DriversTyped', \A e \in Drivers \ {d} : driver'[e] = driver[e],
         DriverOK(driver[d])'
  PROVE  SagaInvariant'
<1>1. HcTyped /\ RowOK(c)
  BY SagaTyped DEF SagaInvariant, RowsOK
<1>2. saga[c] \in {"none", "open", "compensated", "aborted", "completed"}
      /\ saga' = [saga EXCEPT ![c] = saga[c]]
  BY <1>1 DEF HcTyped, hcVars
<1>3. /\ saga[c] = "compensated" => arOps[c] = "compensated"
      /\ saga[c] = "aborted" => (NeedsForeground(c) => ForegroundLost(c))
  BY <1>1 DEF RowOK, ReleasedForGood
<1> QED BY <1>2, <1>3, HcStepKeeps DEF hcVars

LEMMA MarkProgressKeeps ==
  ASSUME SagaInvariant, NEW d \in Drivers, MarkProgress(d)
  PROVE  SagaInvariant'
<1>1. PICK c \in Controls, t \in Seq(Names) :
        /\ c = Cmd(d) /\ t = driver[d].todo /\ kind[c] # "none" /\ Marking(t, c)
  BY AtWork DEF MarkProgress, At
<1>2. PICK x \in {"apply", "verify", "complete", "finish", "idle"} :
        t = <<x>> /\ Placed(x, c) /\ Head(t) = x
  BY <1>1 DEF Marking
<1>3. UNCHANGED <<questionVars, kind, target, executions, aeVars, arVars>>
      /\ saga' = [saga EXCEPT ![c] = "open"]
  BY <1>1 DEF MarkProgress
<1>4. DriversTyped
  BY SagaTyped DEF SagaInvariant
<1>5. CASE x = "idle"
  <2>1. Stopped(d)
    BY <1>1, <1>2, <1>4, <1>5, StopsMoves DEF MarkProgress
  <2> QED BY <1>1, <1>3, <2>1, StoppedOK, HcStepKeeps DEF Stopped
<1>6. CASE x # "idle"
  <2>1. driver' = [driver EXCEPT ![d].pc = x, ![d].todo = <<>>]
    BY <1>1, <1>2, <1>6 DEF MarkProgress
  <2>2. Moved(d, x, <<>>)
    BY <1>2, <1>4, <2>1, Releases DEF Moved, DriversTyped, Places
  <2>3. DriverOK(driver[d])'
    BY <1>1, <1>2, <1>3, <2>2, StillMovedOK DEF arVars
  <2> QED BY <1>1, <1>3, <2>2, <2>3, HcStepKeeps DEF Moved
<1> QED BY <1>5, <1>6

LEMMA FinishKeeps ==
  ASSUME SagaInvariant, NEW d \in Drivers, Finish(d)
  PROVE  SagaInvariant'
<1>1. PICK c \in Controls, t \in Seq(Names) :
        c = Cmd(d) /\ kind[c] # "none" /\ Placed("finish", c)
  BY AtWork DEF Finish, At
<1>2. Stopped(d)
  BY SagaTyped, StopsMoves DEF Finish, SagaInvariant
<1> QED BY <1>1, <1>2, StoppedOK, HcStepKeeps DEF Finish, Stopped

LEMMA MarkCompensatedKeeps ==
  ASSUME SagaInvariant, NEW d \in Drivers, MarkCompensated(d)
  PROVE  SagaInvariant'
<1>1. PICK c \in Controls, t \in Seq(Names) :
        /\ c = Cmd(d) /\ t = driver[d].todo /\ kind[c] # "none" /\ RowOK(c)
        /\ Unwinding(t, c)
  BY AtWork DEF MarkCompensated, Due, At
<1>2. t # <<>> /\ Head(t) = "marked"
  BY <1>1 DEF MarkCompensated, Due
<1>3. /\ arOps[c] = "compensated"
      /\ \/ t = <<"marked", "rg", "ae">> /\ NeedsGraph(c)
         \/ t = <<"marked">> /\ Invalidated(c)
  BY <1>1, <1>2 DEF Unwinding
<1>4. PICK u \in {<<"rg", "ae">>, <<>>} :
        Tail(t) = u /\ Unwinding(u, c)
  <2>1. CASE t = <<"marked", "rg", "ae">> /\ NeedsGraph(c)
    <3>1. Tail(t) = <<"rg", "ae">>
      BY <2>1
    <3>2. reserved[c] # "none"
      BY <1>1, <1>3, <2>1
         DEF RowOK, ReleasedForGood, GraphLost, Invalidated, NeedsGraph, GraphKinds,
             SwitchKinds
    <3> QED BY <2>1, <3>1, <3>2 DEF Unwinding
  <2>2. CASE t = <<"marked">> /\ Invalidated(c)
    <3>1. Tail(t) = <<>>
      BY <2>2
    <3> QED BY <2>2, <3>1 DEF Unwinding, Invalidated, ForegroundLost, AbortedStatus
  <2> QED BY <1>3, <2>1, <2>2
<1>5. Moved(d, "unwind", u)
  BY <1>1, <1>2, <1>4, SagaTyped, Next1Moves
     DEF MarkCompensated, SagaInvariant, Due, At
<1>6. UNCHANGED <<questionVars, kind, target, executions, aeVars, arVars>>
      /\ saga' = [saga EXCEPT ![c] = "compensated"]
  BY <1>1 DEF MarkCompensated
<1>7. DriverOK(driver[d])'
  BY <1>1, <1>4, <1>5, <1>6, StillMovedOK DEF Placed, arVars
<1> QED BY <1>1, <1>3, <1>5, <1>6, <1>7, HcStepKeeps DEF Moved

LEMMA MarkAbortedKeeps ==
  ASSUME SagaInvariant, NEW d \in Drivers, MarkAborted(d)
  PROVE  SagaInvariant'
<1>1. PICK c \in Controls, t \in Seq(Names) :
        c = Cmd(d) /\ t = driver[d].todo /\ kind[c] # "none" /\ Unwinding(t, c)
  BY AtWork DEF MarkAborted, At
<1>2. NeedsForeground(c) => ForegroundLost(c)
  <2>1. t = <<>>
    BY <1>1 DEF MarkAborted
  <2> QED BY <1>1, <2>1 DEF Unwinding
<1>3. Stopped(d)
  BY SagaTyped, StopsMoves DEF MarkAborted, SagaInvariant
<1> QED BY <1>1, <1>2, <1>3, StoppedOK, HcStepKeeps DEF MarkAborted, Stopped

-----------------------------------------------------------------------------
(* Steps that change no row                                                *)

LEMMA VerifyRuntimeReceiptKeeps ==
  ASSUME SagaInvariant, NEW d \in Drivers, VerifyRuntimeReceipt(d)
  PROVE  SagaInvariant'
<1>1. PICK c \in Controls, t \in Seq(Names) :
        /\ c = Cmd(d) /\ t = driver[d].todo /\ kind[c] # "none" /\ RowOK(c)
        /\ Placed("verify", c)
  BY AtWork DEF VerifyRuntimeReceipt, At
<1>2. DriversTyped /\ UNCHANGED <<questionVars, hcVars, aeVars, arVars>>
  BY SagaTyped DEF VerifyRuntimeReceipt, SagaInvariant
<1>3. CASE reserved[c] # "aborted" /\ arOps[c] = "applied"
  <2>1. Moved(d, "graph", t)
    BY <1>1, <1>2, <1>3, GoesMoves DEF VerifyRuntimeReceipt, Places
  <2>2. DriverOK(driver[d])'
    BY <1>1, <1>2, <2>1, StillMovedOK DEF Placed, hcVars, arVars
  <2> QED BY <1>1, <1>2, <2>1, <2>2, QuietStepKeeps DEF Moved
<1>4. CASE ~(reserved[c] # "aborted" /\ arOps[c] = "applied")
  <2>1. Moved(d, "unwind", <<"comp", "rg", "ae">>)
    BY <1>1, <1>2, <1>4, Releases, UnwindsMoves DEF VerifyRuntimeReceipt, Compensates
  <2>2. GraphLost(c) /\ RuntimeActed(c) /\ NeedsGraph(c)
    BY <1>1, <1>4
       DEF Placed, RuntimeActed, RowOK, ReleasedForGood, GraphLost, Invalidated,
           NeedsGraph, GraphKinds, SwitchKinds
  <2>3. DriverOK(driver[d])'
    BY <1>1, <1>2, <2>1, <2>2, StillMovedOK DEF Placed, Unwinding, hcVars, arVars
  <2> QED BY <1>1, <1>2, <2>1, <2>3, QuietStepKeeps DEF Moved
<1> QED BY <1>3, <1>4

LEMMA CannotCompensateKeeps ==
  ASSUME SagaInvariant, NEW d \in Drivers, CannotCompensate(d)
  PROVE  SagaInvariant'
<1>1. PICK c \in Controls, t \in Seq(Names) : kind[c] # "none"
  BY AtWork DEF CannotCompensate, Due, At
<1>2. Stopped(d)
  BY SagaTyped, StopsMoves DEF CannotCompensate, SagaInvariant
<1> QED BY <1>1, <1>2, StoppedOK, QuietStepKeeps DEF CannotCompensate, Stopped

-----------------------------------------------------------------------------
(* Steps of the Agent Runtime                                              *)

LEMMA ArStill ==
  ASSUME UNCHANGED <<questionVars, hcVars, aeVars>>
  PROVE  /\ UNCHANGED <<kind, target, saga, executions, aeOps, pending, aeFresh, reserved>>
         /\ \A c : /\ NeedsGraph(c)' <=> NeedsGraph(c)
                   /\ NeedsForeground(c)' <=> NeedsForeground(c)
                   /\ ForegroundLost(c)' <=> ForegroundLost(c)
                   /\ Invalidated(c)' <=> Invalidated(c)
                   /\ GraphLost(c)' <=> GraphLost(c)
                   /\ GraphReleased(c)' <=> GraphReleased(c)
                   /\ FreshCanTake(c)' <=> FreshCanTake(c)
                   /\ TargetActive(c)' <=> TargetActive(c)
                   /\ PastForeground(c)' <=> PastForeground(c)
                   /\ PastGraph(c)' <=> PastGraph(c)
<1>1. UNCHANGED <<kind, target, saga, executions, aeOps, pending, aeFresh, reserved>>
  BY GraphStill DEF hcVars, aeVars
<1>2. \A c : FreshCanTake(c)' <=> FreshCanTake(c)
  BY <1>1 DEF FreshCanTake, MayTakeForeground, NeedsForeground
<1>3. \A c : TargetActive(c)' <=> TargetActive(c)
  BY <1>1, GraphStill DEF TargetActive, TargetHeld, StrandedPrune
<1> QED BY <1>1, <1>2, <1>3, GraphStill
    DEF NeedsGraph, NeedsForeground, ForegroundLost, Invalidated, PastForeground,
        PastGraph

LEMMA ArRows ==
  ASSUME SagaInvariant, UNCHANGED <<questionVars, hcVars, aeVars>>,
         NEW c \in Controls, kind[c] # "none",
         NEW a \in {"none", "prepared", "applied", "aborted", "compensated"},
         arOps' = [arOps EXCEPT ![c] = a], arFresh' \subseteq Controls,
         suspends' \subseteq Controls,
         arOps[c] # "none" => a # "none",
         RuntimeActed(c) => a \in {"applied", "compensated"},
         arOps[c] = "compensated" => a = "compensated",
         a = "compensated" => (NeedsGraph(c) /\ GraphLost(c)) \/ Invalidated(c)
  PROVE  /\ RowsOK' /\ [NextQuestions]_questionVars
         /\ \A x \in Controls : OwnersGoOn(x)
         /\ DriversTyped' => SagaTypeOK'
<1> USE DEF SagaInvariant
<1>1. HcTyped /\ AeTyped /\ ArTyped /\ QuestionTypeOK
  BY SagaTyped
<1>2. arOps'[c] = a /\ \A x \in Controls \ {c} : arOps'[x] = arOps[x]
  BY <1>1 DEF ArTyped
<1>3. ASSUME NEW x \in Controls PROVE RowOK(x)'
  <2>1. RowOK(x)
    BY DEF RowsOK
  <2>2. OnlyNeededRows(x)'
    BY <2>1, <1>2, ArStill, GraphStill DEF RowOK, OnlyNeededRows
  <2>3. OwnersInOrder(x)'
    <3>1. NeedsGraph(x) => kind[x] \notin SwitchKinds
      BY DEF NeedsGraph, GraphKinds, SwitchKinds
    <3> QED BY <2>1, <3>1, <1>2, ArStill
        DEF RowOK, OwnersInOrder, RuntimeActed, GraphLost, Invalidated, OnlyNeededRows
  <2>4. ReleasedForGood(x)'
    BY <2>1, <1>2, ArStill DEF RowOK, ReleasedForGood
  <2>5. ExecutedInFull(x)'
    <3>1. kind[x] \in SwitchKinds => NeedsForeground(x)
      BY DEF NeedsForeground, RunKinds, SwitchKinds
    <3> QED BY <2>1, <3>1, <1>2, ArStill
        DEF RowOK, ExecutedInFull, RuntimeActed, GraphLost, Invalidated
  <2>6. FreshCanTake(x)' /\ TargetActive(x)'
    BY <2>1, ArStill DEF RowOK
  <2> QED BY <2>2, <2>3, <2>4, <2>5, <2>6 DEF RowOK
<1>4. HcTyped' /\ AeTyped' /\ ArTyped' /\ QuestionTypeOK'
  BY <1>1 DEF HcTyped, AeTyped, ArTyped, QuestionTypeOK, aeVars, hcVars, questionVars
<1>5. \A x \in Controls : OwnersGoOn(x)
  BY <1>2, ArStill DEF OwnersGoOn, RuntimeActed
<1> QED BY <1>3, <1>4, <1>5, SagaTyped DEF RowsOK

LEMMA ArStepKeeps ==
  ASSUME SagaInvariant, UNCHANGED <<questionVars, hcVars, aeVars>>,
         NEW d \in Drivers, NEW c \in Controls, kind[c] # "none",
         NEW a \in {"none", "prepared", "applied", "aborted", "compensated"},
         arOps' = [arOps EXCEPT ![c] = a], arFresh' \subseteq Controls,
         suspends' \subseteq Controls,
         arOps[c] # "none" => a # "none",
         RuntimeActed(c) => a \in {"applied", "compensated"},
         arOps[c] = "compensated" => a = "compensated",
         a = "compensated" => (NeedsGraph(c) /\ GraphLost(c)) \/ Invalidated(c),
         DriversTyped', \A e \in Drivers \ {d} : driver'[e] = driver[e],
         DriverOK(driver[d])'
  PROVE  SagaInvariant'
  BY ArRows, DriverStepKeeps

LEMMA PrepareRuntimeKeeps ==
  ASSUME SagaInvariant, NEW d \in Drivers, PrepareRuntime(d)
  PROVE  SagaInvariant'
<1>1. PICK c \in Controls, t \in Seq(Names) :
        c = Cmd(d) /\ kind[c] # "none" /\ RowOK(c) /\ Placed("ar", c)
  BY AtWork DEF PrepareRuntime, At
<1>2. DriversTyped /\ ArTyped
  BY SagaTyped DEF SagaInvariant
<1>3. UNCHANGED <<questionVars, hcVars, aeVars>> /\ PastGraph(c)
  BY <1>1 DEF PrepareRuntime, Placed
<1>4. CASE /\ arOps[c] = "none" /\ c \in arFresh
           /\ arOps' = [arOps EXCEPT ![c] = "prepared"]
           /\ arFresh' = arFresh \ {c}
           /\ UNCHANGED suspends
           /\ Marks(d, "apply")
  <2>1. Moved(d, "mark", <<"apply">>)
    BY <1>2, <1>4, MarksMoves DEF Names
  <2>2. arOps'[c] = "prepared" /\ kind' = kind
    BY <1>1, <1>2, <1>3, <1>4 DEF ArTyped, hcVars
  <2>3. Marking(<<"apply">>, c)'
    BY <1>3, <2>2, ArStill DEF Marking, Placed
  <2>4. DriverOK(driver[d])'
    BY <1>1, <2>1, <2>2, <2>3, MovedOK DEF Placed
  <2> QED BY <1>1, <1>2, <1>3, <1>4, <2>1, <2>4, ArStepKeeps
      DEF Moved, ArTyped, RuntimeActed
<1>5. CASE arOps[c] \notin {"none", "aborted"} /\ Marks(d, "apply") /\ UNCHANGED arVars
  <2>1. Moved(d, "mark", <<"apply">>)
    BY <1>2, <1>5, MarksMoves DEF Names
  <2>2. Marking(<<"apply">>, c)
    BY <1>3, <1>5 DEF Marking, Placed
  <2>3. DriverOK(driver[d])'
    BY <1>1, <1>3, <1>5, <2>1, <2>2, StillMovedOK DEF Placed, hcVars, arVars
  <2> QED BY <1>1, <1>3, <1>5, <2>1, <2>3, QuietStepKeeps DEF Moved
<1>6. CASE Unwinds(d, Without(c)) /\ UNCHANGED arVars
  <2>1. Moved(d, "unwind", Without(c))
    BY <1>2, <1>6, Releases, UnwindsMoves
  <2>2. Unwinding(Without(c), c)
    BY <1>3, Releases DEF Unwinding, PastGraph, PastForeground
  <2>3. DriverOK(driver[d])'
    BY <1>1, <1>3, <1>6, <2>1, <2>2, StillMovedOK DEF Placed, hcVars, arVars
  <2> QED BY <1>1, <1>3, <1>6, <2>1, <2>3, QuietStepKeeps DEF Moved
<1> QED BY <1>1, <1>4, <1>5, <1>6 DEF PrepareRuntime, Without

LEMMA ApplyRuntimeKeeps ==
  ASSUME SagaInvariant, NEW d \in Drivers, ApplyRuntime(d)
  PROVE  SagaInvariant'
<1>1. PICK c \in Controls, t \in Seq(Names) :
        c = Cmd(d) /\ kind[c] # "none" /\ RowOK(c) /\ Placed("apply", c)
  BY AtWork DEF ApplyRuntime, At
<1>2. DriversTyped /\ ArTyped
  BY SagaTyped DEF SagaInvariant
<1>3. UNCHANGED <<questionVars, hcVars, aeVars>> /\ PastGraph(c) /\ arOps[c] # "none"
  BY <1>1 DEF ApplyRuntime, Placed
<1>4. PICK x \in {"verify", "complete", "finish"} :
        /\ x = AfterRuntime(c)
        /\ x = "verify" <=> NeedsGraph(c)
        /\ x = "finish" <=> ~NeedsGraph(c) /\ ~NeedsForeground(c)
  BY DEF AfterRuntime
<1>5. x \in Names
  BY DEF Names
<1>6. CASE /\ arOps[c] = "prepared"
           /\ arOps' = [arOps EXCEPT ![c] = "applied"]
           /\ arFresh' = {}
           /\ suspends' \in {suspends, suspends \cup {c}}
           /\ Marks(d, x)
  <2>1. Moved(d, "mark", <<x>>)
    BY <1>2, <1>5, <1>6, MarksMoves
  <2>2. arOps'[c] = "applied" /\ kind' = kind
    BY <1>1, <1>2, <1>3, <1>6 DEF ArTyped, hcVars
  <2>3. /\ NeedsGraph(c)' <=> NeedsGraph(c)
        /\ NeedsForeground(c)' <=> NeedsForeground(c)
        /\ PastGraph(c)' /\ PastForeground(c)' /\ RuntimeActed(c)'
    BY <1>3, <2>2, ArStill DEF RuntimeActed, PastGraph
  <2>4. Placed(x, c)'
    BY <1>4, <2>2, <2>3 DEF Placed
  <2>5. Marking(<<x>>, c)'
    BY <2>4 DEF Marking
  <2>6. DriverOK(driver[d])'
    BY <1>1, <1>5, <2>1, <2>2, <2>5, MovedOK DEF Placed
  <2> QED BY <1>1, <1>2, <1>3, <1>6, <2>1, <2>6, ArStepKeeps
      DEF Moved, ArTyped, RuntimeActed
<1>7. CASE arOps[c] \in {"applied", "compensated"} /\ Marks(d, x) /\ UNCHANGED arVars
  <2>1. Moved(d, "mark", <<x>>)
    BY <1>2, <1>5, <1>7, MarksMoves
  <2>2. Marking(<<x>>, c)
    BY <1>1, <1>3, <1>4, <1>7
       DEF Marking, Placed, RuntimeActed, PastGraph, RowOK, ReleasedForGood,
           Invalidated, NeedsForeground, SwitchKinds, RunKinds
  <2>3. DriverOK(driver[d])'
    BY <1>1, <1>3, <1>7, <2>1, <2>2, StillMovedOK DEF Placed, hcVars, arVars
  <2> QED BY <1>1, <1>3, <1>7, <2>1, <2>3, QuietStepKeeps DEF Moved
<1>8. CASE Unwinds(d, WithRuntime(c)) /\ UNCHANGED arVars
  <2>1. Moved(d, "unwind", WithRuntime(c))
    BY <1>2, <1>8, Releases, UnwindsMoves
  <2>2. Unwinding(WithRuntime(c), c)
    BY <1>3, Releases DEF Unwinding, PastGraph, PastForeground
  <2>3. DriverOK(driver[d])'
    BY <1>1, <1>3, <1>8, <2>1, <2>2, StillMovedOK DEF Placed, hcVars, arVars
  <2> QED BY <1>1, <1>3, <1>8, <2>1, <2>3, QuietStepKeeps DEF Moved
<1> QED BY <1>1, <1>4, <1>6, <1>7, <1>8 DEF ApplyRuntime, WithRuntime

LEMMA ReleaseRuntimeKeeps ==
  ASSUME SagaInvariant, NEW d \in Drivers, ReleaseRuntime(d)
  PROVE  SagaInvariant'
<1>1. PICK c \in Controls, t \in Seq(Names) :
        /\ c = Cmd(d) /\ t = driver[d].todo /\ kind[c] # "none" /\ RowOK(c)
        /\ Unwinding(t, c)
  BY AtWork DEF ReleaseRuntime, Due, At
<1>2. DriversTyped /\ ArTyped
  BY SagaTyped DEF SagaInvariant
<1>3. t # <<>> /\ Head(t) = "ar" /\ driver[d].pc = "unwind"
  BY <1>1 DEF ReleaseRuntime, Due, At
<1>4. \/ Tail(t) = <<>> /\ ~NeedsForeground(c)
      \/ /\ Tail(t) = <<"ae">> /\ NeedsForeground(c) /\ aeOps[c] # "none"
         /\ NeedsGraph(c) => GraphReleased(c)
  <2>1. \/ t = <<"ar">> /\ ~NeedsForeground(c)
        \/ /\ t = <<"ar", "ae">> /\ NeedsForeground(c) /\ aeOps[c] # "none"
           /\ NeedsGraph(c) => GraphReleased(c)
    BY <1>1, <1>3 DEF Unwinding
  <2>2. CASE t = <<"ar">>
    <3>1. Tail(t) = <<>>
      BY <2>2
    <3> QED BY <2>1, <2>2, <3>1
  <2>3. CASE t = <<"ar", "ae">>
    <3>1. Tail(t) = <<"ae">>
      BY <2>3
    <3> QED BY <2>1, <2>3, <3>1
  <2> QED BY <2>1, <2>2, <2>3
<1>5. UNCHANGED <<questionVars, hcVars, aeVars, arFresh, suspends>>
  BY DEF ReleaseRuntime
<1>6. CASE /\ arOps[c] \in {"none", "prepared", "aborted"}
           /\ arOps' = [arOps EXCEPT ![c] = IF @ = "prepared" THEN "aborted" ELSE @]
           /\ Next1(d)
  <2>1. Moved(d, "unwind", Tail(t))
    BY <1>1, <1>2, <1>3, <1>6, Next1Moves
  <2>2. Unwinding(Tail(t), c)'
    BY <1>4, <1>5, ArStill DEF Unwinding
  <2>3. DriverOK(driver[d])'
    BY <1>1, <1>5, <2>1, <2>2, MovedOK DEF Placed, hcVars
  <2>4. PICK a \in {"none", "aborted"} :
          /\ arOps' = [arOps EXCEPT ![c] = a]
          /\ arOps[c] # "none" => a # "none"
    <3>1. CASE arOps[c] = "prepared"
      BY <1>6, <3>1
    <3>2. CASE arOps[c] # "prepared"
      BY <1>6, <3>2
    <3> QED BY <3>1, <3>2
  <2>5. ~RuntimeActed(c) /\ arOps[c] # "compensated" /\ arFresh' \subseteq Controls
        /\ suspends' \subseteq Controls
    BY <1>2, <1>5, <1>6 DEF RuntimeActed, ArTyped
  <2>6. DriversTyped' /\ \A e \in Drivers \ {d} : driver'[e] = driver[e]
    BY <2>1 DEF Moved
  <2>7. UNCHANGED <<questionVars, hcVars, aeVars>>
    BY <1>5
  <2>8. a \in {"none", "prepared", "applied", "aborted", "compensated"}
        /\ a # "compensated"
    OBVIOUS
  <2> QED BY <1>1, <2>3, <2>4, <2>5, <2>6, <2>7, <2>8, ArStepKeeps
<1>7. CASE Stops(d) /\ UNCHANGED arOps
  <2>1. Stopped(d)
    BY <1>2, <1>7, StopsMoves
  <2> QED BY <1>1, <1>5, <1>7, <2>1, StoppedOK, QuietStepKeeps DEF Stopped, arVars
<1> QED BY <1>1, <1>6, <1>7 DEF ReleaseRuntime

LEMMA CompensateRuntimeKeeps ==
  ASSUME SagaInvariant, NEW d \in Drivers, CompensateRuntime(d)
  PROVE  SagaInvariant'
<1>1. PICK c \in Controls, t \in Seq(Names) :
        /\ c = Cmd(d) /\ t = driver[d].todo /\ kind[c] # "none"
        /\ Unwinding(t, c)
  BY AtWork DEF CompensateRuntime, Due, At
<1>2. DriversTyped /\ ArTyped
  BY SagaTyped DEF SagaInvariant
<1>3. t # <<>> /\ Head(t) = "comp" /\ driver[d].pc = "unwind"
  BY <1>1 DEF CompensateRuntime, Due, At
<1>4. \/ t = <<"comp", "rg", "ae">> /\ NeedsGraph(c) /\ GraphLost(c)
      \/ t = <<"comp">> /\ Invalidated(c)
  BY <1>1, <1>3 DEF Unwinding
<1>5. UNCHANGED <<questionVars, hcVars, aeVars, suspends>>
      /\ arOps' = [arOps EXCEPT ![c] = "compensated"] /\ arFresh' = {}
  BY <1>1 DEF CompensateRuntime
<1>6. PICK u \in {<<"marked", "rg", "ae">>, <<"marked">>} :
        /\ u = <<"marked">> \o Tail(t)
        /\ \/ u = <<"marked", "rg", "ae">> /\ NeedsGraph(c)
           \/ u = <<"marked">> /\ Invalidated(c)
  BY <1>4, Lists
<1>7. Moved(d, "unwind", u)
  <2>1. driver' = [driver EXCEPT ![d].todo = u]
    BY <1>1, <1>6 DEF CompensateRuntime
  <2> QED BY <1>2, <1>3, <2>1, Releases DEF DriversTyped, Moved
<1>8. arOps'[c] = "compensated" /\ kind' = kind
  BY <1>2, <1>5 DEF ArTyped, hcVars
<1>9. Unwinding(u, c)'
  BY <1>5, <1>6, <1>8, ArStill DEF Unwinding
<1>10. DriverOK(driver[d])'
  BY <1>1, <1>7, <1>8, <1>9, MovedOK DEF Placed
<1> QED BY <1>1, <1>2, <1>4, <1>5, <1>7, <1>10, ArStepKeeps DEF Moved, ArTyped

-----------------------------------------------------------------------------
(* Steps of the Advancement Engine                                         *)

LEMMA AeStill ==
  ASSUME UNCHANGED <<questionVars, hcVars, arVars>>
  PROVE  /\ UNCHANGED <<kind, target, saga, executions, arOps, reserved, affected>>
         /\ Active' = Active
         /\ \A c : /\ NeedsGraph(c)' <=> NeedsGraph(c)
                   /\ NeedsForeground(c)' <=> NeedsForeground(c)
                   /\ RuntimeActed(c)' <=> RuntimeActed(c)
                   /\ GraphLost(c)' <=> GraphLost(c)
                   /\ GraphReleased(c)' <=> GraphReleased(c)
<1>1. UNCHANGED <<kind, target, saga, executions, arOps, reserved, affected>>
  BY GraphStill DEF hcVars, arVars
<1> QED BY <1>1, GraphStill DEF NeedsGraph, NeedsForeground, RuntimeActed

(* What a write of the foreground may do to the operation of a command.    *)
ForegroundMoves(c) ==
  /\ aeOps[c] # "none" => aeOps'[c] # "none"
  /\ aeOps[c] \in AbortedStatus \cup {"completed"} => aeOps'[c] = aeOps[c]
  /\ aeOps'[c] # "none" => NeedsForeground(c) /\ kind[c] # "none"
  /\ aeOps'[c] \in {"handoff_pending", "completed"} =>
       arOps[c] = "applied" /\ (NeedsGraph(c) => reserved[c] = "applied")
  /\ aeOps'[c] = "handoff_pending" => kind[c] = "normal_switch"
  /\ aeOps'[c] = "invalidated" => kind[c] \in SwitchKinds /\ RuntimeActed(c)
  /\ pending' = c => aeOps'[c] \in {"prepared", "handoff_pending"}
  /\ aeOps'[c] = "aborted" /\ NeedsGraph(c) => GraphReleased(c)
  /\ ForegroundLost(c) => aeOps'[c] \in {"none"} \cup AbortedStatus
  /\ pending' = c => pending = c \/ (c \in aeFresh /\ aeOps[c] = "none")
  /\ c \in aeFresh' /\ NeedsForeground(c) =>
       aeOps'[c] = "none" /\ MayTakeForeground(kind[c])'
  /\ StrandedPrune(c) => aeOps'[c] = "prepared" /\ pending' # c

LEMMA AeRows ==
  ASSUME SagaInvariant, UNCHANGED <<questionVars, hcVars, arVars>>,
         AeTyped', aeFresh' \subseteq aeFresh, \A c \in Controls : ForegroundMoves(c)
  PROVE  /\ RowsOK' /\ [NextQuestions]_questionVars
         /\ \A x \in Controls : OwnersGoOn(x)
         /\ DriversTyped' => SagaTypeOK'
<1> USE DEF SagaInvariant
<1>1. HcTyped /\ AeTyped /\ ArTyped /\ QuestionTypeOK
  BY SagaTyped
<1>2. \A x \in Controls : ForegroundLost(x) => ForegroundLost(x)'
  BY DEF ForegroundLost, ForegroundMoves
<1>3. \A p \in Controls : StrandedPrune(p) => StrandedPrune(p)'
  BY AeStill DEF StrandedPrune, ForegroundMoves
<1>4. ASSUME NEW x \in Controls PROVE RowOK(x)'
  <2>1. RowOK(x) /\ ForegroundMoves(x)
    BY DEF RowsOK
  <2>2. OnlyNeededRows(x)'
    BY <2>1, AeStill, GraphStill DEF RowOK, OnlyNeededRows, ForegroundMoves
  <2>3. OwnersInOrder(x)'
    BY <2>1, AeStill DEF RowOK, OwnersInOrder, ForegroundMoves
  <2>4. ReleasedForGood(x)'
    BY <2>1, <1>2, AeStill
       DEF RowOK, ReleasedForGood, Invalidated, AbortedStatus, ForegroundMoves
  <2>5. ExecutedInFull(x)'
    BY <2>1, AeStill DEF RowOK, ExecutedInFull, ForegroundMoves
  <2>6. FreshCanTake(x)' /\ TargetActive(x)'
    <3>1. TargetHeld(x) => TargetHeld(x)'
      BY <1>3, AeStill DEF TargetHeld
    <3> QED BY <2>1, <3>1, AeStill DEF RowOK, FreshCanTake, TargetActive, ForegroundMoves
  <2> QED BY <2>2, <2>3, <2>4, <2>5, <2>6 DEF RowOK
<1>5. HcTyped' /\ ArTyped' /\ QuestionTypeOK'
  BY <1>1 DEF HcTyped, ArTyped, QuestionTypeOK, arVars, hcVars, questionVars
<1>6. \A x \in Controls : OwnersGoOn(x)
  BY <1>2, AeStill DEF OwnersGoOn, ForegroundMoves
<1> QED BY <1>4, <1>5, <1>6, SagaTyped DEF RowsOK

LEMMA AeStepKeeps ==
  ASSUME SagaInvariant, UNCHANGED <<questionVars, hcVars, arVars>>,
         AeTyped', aeFresh' \subseteq aeFresh, \A c \in Controls : ForegroundMoves(c),
         NEW d \in Drivers,
         DriversTyped', \A e \in Drivers \ {d} : driver'[e] = driver[e],
         DriverOK(driver[d])'
  PROVE  SagaInvariant'
  BY AeRows, DriverStepKeeps

(* A command whose operation a write leaves alone.                         *)
LEMMA ForegroundUntouched ==
  ASSUME SagaInvariant, NEW c \in Controls, aeOps'[c] = aeOps[c],
         pending' = c => pending = c,
         c \in aeFresh' /\ NeedsForeground(c) =>
           aeOps[c] = "none" /\ MayTakeForeground(kind[c])'
  PROVE  ForegroundMoves(c)
<1>1. RowOK(c)
  BY DEF SagaInvariant, RowsOK
<1> QED BY <1>1 DEF ForegroundMoves, RowOK, OnlyNeededRows, OwnersInOrder,
                    ReleasedForGood, ForegroundLost, StrandedPrune

(* The end of the operation at the head.                                   *)
LEMMA ForegroundEnds ==
  ASSUME SagaInvariant, AeTyped, NEW c \in Controls, kind[c] # "none",
         NeedsForeground(c), pending = c, EndsAtHead(c), arOps[c] = "applied",
         NeedsGraph(c) => reserved[c] = "applied"
  PROVE  /\ AeTyped' /\ aeFresh' = {} /\ \A x \in Controls : ForegroundMoves(x)
         /\ aeOps'[c] = IF TargetGone(c) THEN "invalidated" ELSE "completed"
         /\ \A x \in Controls \ {c} : aeOps'[x] = aeOps[x]
<1>1. aeOps[c] \in {"prepared", "handoff_pending"}
  BY DEF SagaInvariant, RowsOK, RowOK, OwnersInOrder
<1>2. /\ AeTyped' /\ pending' = NoControl /\ aeFresh' = {}
      /\ aeOps'[c] = IF TargetGone(c) THEN "invalidated" ELSE "completed"
      /\ \A x \in Controls \ {c} : aeOps'[x] = aeOps[x]
  BY DEF EndsAtHead, AeTyped, AbortedStatus
<1>3. ForegroundMoves(c)
  BY <1>1, <1>2, TreeAssumption
     DEF ForegroundMoves, ForegroundLost, TargetGone, RuntimeActed, AbortedStatus,
         StrandedPrune
<1>4. \A x \in Controls \ {c} : ForegroundMoves(x)
  BY <1>2, TreeAssumption, ForegroundUntouched
<1> QED BY <1>2, <1>3, <1>4

LEMMA StageCommitKeeps ==
  ASSUME SagaInvariant, NEW c \in Controls, StageCommitCompletesHandoff(c)
  PROVE  SagaInvariant'
<1>1. AeTyped /\ DriversTyped /\ RowOK(c)
  BY SagaTyped DEF SagaInvariant, RowsOK
<1>2. UNCHANGED <<questionVars, hcVars, arVars, driver>>
  BY DEF StageCommitCompletesHandoff
<1>3. AeTyped' /\ aeFresh' = {} /\ \A x \in Controls : ForegroundMoves(x)
  BY <1>1, ForegroundEnds
     DEF StageCommitCompletesHandoff, RowOK, OnlyNeededRows, OwnersInOrder
<1>4. DriversTyped'
  BY <1>1, <1>2 DEF DriversTyped
<1> QED BY <1>2, <1>3, <1>4, AeRows, OutsideStepKeeps

(* A successor takes the head from whatever was pending there.             *)
LEMMA SuccessorKeeps ==
  ASSUME SagaInvariant, ActivateReasoningSuccessor
  PROVE  SagaInvariant'
<1>1. AeTyped /\ DriversTyped
  BY SagaTyped DEF SagaInvariant
<1>2. UNCHANGED <<questionVars, hcVars, arVars, driver>> /\ aeOps' = aeOps
      /\ pending' = NoControl /\ aeFresh' = {}
  BY DEF ActivateReasoningSuccessor
<1>3. AeTyped' /\ DriversTyped'
  BY <1>1, <1>2 DEF AeTyped, DriversTyped
<1>4. \A x \in Controls : ForegroundMoves(x)
  BY <1>2, TreeAssumption, ForegroundUntouched
<1> QED BY <1>2, <1>3, <1>4, AeRows, OutsideStepKeeps

LEMMA OwnerMovesKeeps ==
  ASSUME SagaInvariant, OwnerMovesOn
  PROVE  SagaInvariant'
<1>1. AeTyped /\ ArTyped /\ DriversTyped /\ QuestionTypeOK /\ HcTyped
  BY SagaTyped DEF SagaInvariant
<1>2. CASE aeFresh' = {} /\ UNCHANGED <<aeOps, pending, arVars>>
  <2>1. UNCHANGED <<questionVars, hcVars, arVars, driver>>
    BY <1>2 DEF OwnerMovesOn
  <2>2. AeTyped' /\ DriversTyped'
    BY <1>1, <1>2, <2>1 DEF AeTyped, DriversTyped
  <2>3. \A x \in Controls : ForegroundMoves(x)
    BY <1>2, ForegroundUntouched
  <2> QED BY <1>2, <2>1, <2>2, <2>3, AeRows, OutsideStepKeeps
<1>3. CASE arFresh' = {} /\ UNCHANGED <<arOps, suspends, aeVars>>
  <2>1. UNCHANGED <<questionVars, hcVars, aeVars, driver>>
    BY <1>3 DEF OwnerMovesOn
  <2>2. ASSUME NEW x \in Controls PROVE RowOK(x)' /\ OwnersGoOn(x)
    <3>1. RowOK(x)
      BY DEF SagaInvariant, RowsOK
    <3>2. OnlyNeededRows(x)' /\ OwnersInOrder(x)' /\ ReleasedForGood(x)'
      BY <3>1, <1>3, <2>1, ArStill, GraphStill
         DEF RowOK, OnlyNeededRows, OwnersInOrder, ReleasedForGood, RuntimeActed
    <3>3. ExecutedInFull(x)' /\ FreshCanTake(x)' /\ TargetActive(x)'
      BY <3>1, <1>3, <2>1, ArStill, GraphStill DEF RowOK, ExecutedInFull
    <3>4. OwnersGoOn(x)
      BY <1>3, <2>1, ArStill DEF OwnersGoOn, RuntimeActed
    <3> QED BY <3>2, <3>3, <3>4 DEF RowOK
  <2>3. SagaTypeOK'
    <3>1. HcTyped' /\ AeTyped' /\ ArTyped' /\ QuestionTypeOK' /\ DriversTyped'
      BY <1>1, <1>3, <2>1
         DEF HcTyped, AeTyped, ArTyped, QuestionTypeOK, DriversTyped, aeVars, hcVars,
             questionVars
    <3> QED BY <3>1, SagaTyped
  <2> QED BY <2>1, <2>2, <2>3, OutsideStepKeeps DEF RowsOK
<1> QED BY <1>2, <1>3 DEF OwnerMovesOn, OwnerMoves

LEMMA PrepareForegroundKeeps ==
  ASSUME SagaInvariant, NEW d \in Drivers, PrepareForeground(d)
  PROVE  SagaInvariant'
<1>1. PICK c \in Controls, t \in Seq(Names) :
        /\ c = Cmd(d) /\ t = driver[d].todo /\ kind[c] # "none" /\ RowOK(c)
        /\ NeedsForeground(c)
  BY AtWork DEF PrepareForeground, At, Placed
<1>2. DriversTyped /\ AeTyped
  BY SagaTyped DEF SagaInvariant
<1>3. UNCHANGED <<questionVars, hcVars, arVars>>
  BY DEF PrepareForeground
<1>4. PICK pc \in {"rg", "ar"} : pc = AfterForeground(c) /\ (pc = "rg" <=> NeedsGraph(c))
  BY DEF AfterForeground
<1>5. ASSUME aeOps[c] = "none", c \in aeFresh, MayTakeForeground(kind[c]),
             aeOps' = [o \in Controls |->
                         IF o = Cmd(d) THEN "prepared"
                         ELSE IF o = pending THEN "aborted" ELSE aeOps[o]],
             pending' = c, aeFresh' = {}, Goes(d, pc)
      PROVE  SagaInvariant'
  <2>1. Moved(d, pc, t)
    BY <1>1, <1>2, <1>5, GoesMoves DEF Places
  <2>2. AeTyped'
    BY <1>1, <1>2, <1>5 DEF AeTyped, AbortedStatus
  <2>3. pending # c /\ (pending # NoControl => aeOps[pending] = "handoff_pending")
    BY <1>1, <1>5 DEF MayTakeForeground, RowOK, OwnersInOrder
  <2>4. ForegroundMoves(c)
    BY <1>1, <1>5, <2>3
       DEF ForegroundMoves, ForegroundLost, StrandedPrune, AbortedStatus
  <2>5. ASSUME NEW x \in Controls, x # c PROVE ForegroundMoves(x)
    <3>1. RowOK(x)
      BY DEF SagaInvariant, RowsOK
    <3>2. CASE x = pending
      <4>1. aeOps[x] = "handoff_pending" /\ aeOps'[x] = "aborted"
        BY <1>1, <1>5, <2>3, <2>5, <3>2, TreeAssumption
      <4>2. kind[x] = "normal_switch"
        BY <3>1, <4>1 DEF RowOK, OwnersInOrder
      <4>3. ~NeedsGraph(x) /\ NeedsForeground(x)
        BY <4>2 DEF NeedsGraph, NeedsForeground, GraphKinds, RunKinds
      <4> QED BY <1>5, <2>5, <4>1, <4>2, <4>3
          DEF ForegroundMoves, ForegroundLost, StrandedPrune, AbortedStatus
    <3>3. CASE x # pending
      BY <1>1, <1>5, <2>5, <3>3, ForegroundUntouched
    <3> QED BY <3>2, <3>3
  <2>6. Placed(pc, c)'
    <3>1. aeOps'[c] = "prepared"
      BY <1>1, <1>5
    <3> QED BY <1>3, <1>4, <3>1, AeStill DEF Placed, PastGraph, PastForeground
  <2>7. DriverOK(driver[d])'
    BY <1>1, <1>3, <2>1, <2>6, AeStill, MovedOK
  <2>8. \A x \in Controls : ForegroundMoves(x)
    BY <2>4, <2>5
  <2> QED BY <1>3, <1>5, <2>1, <2>2, <2>7, <2>8, AeStepKeeps DEF Moved
<1>6. CASE /\ aeOps[c] \notin {"none"} \cup AbortedStatus
           /\ Goes(d, pc) /\ UNCHANGED aeVars
  <2>1. Moved(d, pc, t)
    BY <1>1, <1>2, <1>6, GoesMoves DEF Places
  <2>2. Placed(pc, c)
    BY <1>4, <1>6 DEF Placed, PastGraph, PastForeground
  <2>3. DriverOK(driver[d])'
    BY <1>1, <1>3, <1>6, <2>1, <2>2, StillMovedOK DEF hcVars, arVars
  <2> QED BY <1>1, <1>3, <1>6, <2>1, <2>3, QuietStepKeeps DEF Moved
<1>7. CASE /\ \/ aeOps[c] \in AbortedStatus
              \/ aeOps[c] = "none" /\ ~(c \in aeFresh /\ MayTakeForeground(kind[c]))
           /\ Unwinds(d, <<>>) /\ UNCHANGED aeVars
  <2>1. Moved(d, "unwind", <<>>)
    BY <1>2, <1>7, Releases, UnwindsMoves
  <2>2. Unwinding(<<>>, c)
    BY <1>1, <1>7 DEF Unwinding, ForegroundLost, RowOK, FreshCanTake
  <2>3. DriverOK(driver[d])'
    BY <1>1, <1>3, <1>7, <2>1, <2>2, StillMovedOK DEF Placed, hcVars, arVars
  <2> QED BY <1>1, <1>3, <1>7, <2>1, <2>3, QuietStepKeeps DEF Moved
<1> DEFINE accepts ==
      aeOps[c] = "none" /\ c \in aeFresh /\ MayTakeForeground(kind[c])
<1>8. \/ /\ accepts
         /\ aeOps' = [o \in Controls |->
                        IF o = Cmd(d) THEN "prepared"
                        ELSE IF o = pending THEN "aborted" ELSE aeOps[o]]
         /\ pending' = c /\ aeFresh' = {} /\ Goes(d, pc)
      \/ /\ aeOps[c] \notin {"none"} \cup AbortedStatus
         /\ Goes(d, pc) /\ UNCHANGED aeVars
      \/ /\ aeOps[c] \in AbortedStatus \/ (aeOps[c] = "none" /\ ~accepts)
         /\ Unwinds(d, <<>>) /\ UNCHANGED aeVars
  BY <1>1, <1>4, Zenon DEF PrepareForeground
<1> QED BY <1>5, <1>6, <1>7, <1>8

LEMMA CompleteForegroundKeeps ==
  ASSUME SagaInvariant, NEW d \in Drivers, CompleteForeground(d)
  PROVE  SagaInvariant'
<1>1. PICK c \in Controls, t \in Seq(Names) :
        /\ c = Cmd(d) /\ kind[c] # "none" /\ RowOK(c) /\ Placed("complete", c)
  BY AtWork DEF CompleteForeground, At
<1>2. DriversTyped /\ AeTyped
  BY SagaTyped DEF SagaInvariant
<1>3. UNCHANGED <<questionVars, hcVars, arVars>> /\ NeedsForeground(c)
      /\ (NeedsGraph(c) => reserved[c] = "applied")
  BY <1>1 DEF CompleteForeground, Placed
<1>4. Marking(<<"idle">>, c)' /\ Marking(<<"idle">>, c)
  BY DEF Marking, Placed
<1>5. CASE MayComplete(c) /\ aeOps[c] = "completed" /\ Marks(d, "finish") /\ UNCHANGED aeVars
  <2>1. Moved(d, "mark", <<"finish">>)
    BY <1>2, <1>5, MarksMoves DEF Names
  <2>2. Marking(<<"finish">>, c)
    BY <1>3, <1>5 DEF MayComplete, Marking, Placed
  <2>3. DriverOK(driver[d])'
    BY <1>1, <1>3, <1>5, <2>1, <2>2, StillMovedOK DEF Placed, hcVars, arVars
  <2> QED BY <1>1, <1>3, <1>5, <2>1, <2>3, QuietStepKeeps DEF Moved
<1>6. CASE /\ MayComplete(c) /\ aeOps[c] # "completed" /\ EndsAtHead(c)
           /\ IF TargetGone(c) THEN Unwinds(d, InvalidatedPart(c))
                               ELSE Marks(d, "finish")
  <2>1. arOps[c] = "applied" /\ pending = c
    BY <1>6 DEF MayComplete
  <2>2. /\ AeTyped' /\ aeFresh' = {} /\ \A x \in Controls : ForegroundMoves(x)
        /\ aeOps'[c] = IF TargetGone(c) THEN "invalidated" ELSE "completed"
    BY <1>1, <1>2, <1>3, <1>6, <2>1, ForegroundEnds
  <2>3. CASE TargetGone(c)
    <3>1. Moved(d, "unwind", InvalidatedPart(c))
      BY <1>2, <1>6, <2>3, Releases, UnwindsMoves
    <3>2. aeOps'[c] = "invalidated" /\ kind[c] \in SwitchKinds
      BY <2>2, <2>3 DEF TargetGone
    <3>3. ForegroundLost(c)' /\ Invalidated(c)' /\ RuntimeActed(c)'
      BY <1>3, <2>1, <3>2, AeStill
         DEF ForegroundLost, Invalidated, RuntimeActed, AbortedStatus
    <3>4. Unwinding(InvalidatedPart(c), c)'
      <4>1. CASE InvalidatedPart(c) = <<>>
        <5>1. InvalidatedPart(c)' = <<>>
          BY <1>3, <4>1 DEF InvalidatedPart, arVars
        <5> QED BY <3>3, <5>1 DEF Unwinding
      <4>2. CASE InvalidatedPart(c) = <<"comp">>
        <5>1. InvalidatedPart(c)' = <<"comp">>
          BY <1>3, <4>2 DEF InvalidatedPart, arVars
        <5> QED BY <3>3, <5>1 DEF Unwinding
      <4> QED BY <4>1, <4>2, Releases
    <3>5. InvalidatedPart(c)' = InvalidatedPart(c)
      BY <1>3 DEF InvalidatedPart, arVars
    <3>6. kind'[c] # "none" /\ Moved(d, "unwind", InvalidatedPart(c)')
      BY <1>1, <1>3, <3>1, <3>5, AeStill
    <3>7. DriverOK(driver[d])'
      BY <1>1, <3>4, <3>5, <3>6, MovedOK DEF Placed
    <3> QED BY <1>3, <2>2, <3>1, <3>7, AeStepKeeps DEF Moved
  <2>4. CASE ~TargetGone(c)
    <3>1. Moved(d, "mark", <<"finish">>)
      BY <1>2, <1>6, <2>4, MarksMoves DEF Names
    <3>2. Marking(<<"finish">>, c)'
      BY <1>3, <2>1, <2>2, <2>4, AeStill DEF Marking, Placed
    <3>3. DriverOK(driver[d])'
      BY <1>1, <1>3, <3>1, <3>2, AeStill, MovedOK DEF Placed
    <3> QED BY <1>3, <2>2, <3>1, <3>3, AeStepKeeps DEF Moved
  <2> QED BY <2>3, <2>4
<1>7. CASE /\ MayComplete(c) /\ aeOps[c] # "completed" /\ kind[c] = "normal_switch"
           /\ aeOps' = [aeOps EXCEPT ![c] = "handoff_pending"]
           /\ aeFresh' = {}
           /\ Marks(d, "idle")
           /\ UNCHANGED pending
  <2>1. Moved(d, "mark", <<"idle">>)
    BY <1>2, <1>7, MarksMoves DEF Names
  <2>2. arOps[c] = "applied" /\ pending = c
        /\ aeOps[c] \in {"prepared", "handoff_pending"}
    BY <1>1, <1>7 DEF MayComplete, RowOK, OwnersInOrder
  <2>3. AeTyped'
    BY <1>2, <1>7 DEF AeTyped
  <2>4. ForegroundMoves(c)
    BY <1>1, <1>2, <1>3, <1>7, <2>2
       DEF ForegroundMoves, ForegroundLost, AeTyped, AbortedStatus, StrandedPrune
  <2>5. \A x \in Controls \ {c} : ForegroundMoves(x)
    BY <1>2, <1>7, ForegroundUntouched DEF AeTyped
  <2>6. DriverOK(driver[d])'
    BY <1>1, <1>3, <1>4, <2>1, AeStill, MovedOK DEF Placed
  <2>7. \A x \in Controls : ForegroundMoves(x)
    BY <2>4, <2>5
  <2> QED BY <1>3, <1>7, <2>1, <2>3, <2>6, <2>7, AeStepKeeps DEF Moved
<1>8. CASE ~MayComplete(c) /\ Marks(d, "idle") /\ UNCHANGED aeVars
  <2>1. Moved(d, "mark", <<"idle">>)
    BY <1>2, <1>8, MarksMoves DEF Names
  <2>2. DriverOK(driver[d])'
    BY <1>1, <1>3, <1>4, <1>8, <2>1, StillMovedOK DEF Placed, hcVars, arVars
  <2> QED BY <1>1, <1>3, <1>8, <2>1, <2>2, QuietStepKeeps DEF Moved
<1> QED BY <1>1, <1>5, <1>6, <1>7, <1>8 DEF CompleteForeground

LEMMA ReleaseForegroundKeeps ==
  ASSUME SagaInvariant, NEW d \in Drivers, ReleaseForeground(d)
  PROVE  SagaInvariant'
<1>1. PICK c \in Controls, t \in Seq(Names) :
        /\ c = Cmd(d) /\ t = driver[d].todo /\ kind[c] # "none" /\ RowOK(c)
        /\ Unwinding(t, c)
  BY AtWork DEF ReleaseForeground, Due, At
<1>2. DriversTyped /\ AeTyped
  BY SagaTyped DEF SagaInvariant
<1>3. t # <<>> /\ Head(t) = "ae" /\ driver[d].pc = "unwind"
  BY <1>1 DEF ReleaseForeground, Due, At
<1>4. /\ t = <<"ae">> /\ NeedsForeground(c)
      /\ aeOps[c] # "none" \/ ForegroundLost(c)
      /\ NeedsGraph(c) => GraphReleased(c) \/ ForegroundLost(c)
  BY <1>1, <1>3 DEF Unwinding
<1>5. Tail(t) = <<>>
  BY <1>4
<1>6. UNCHANGED <<questionVars, hcVars, arVars>>
  BY DEF ReleaseForeground
<1>7. CASE /\ aeOps[c] \in {"prepared", "handoff_pending"}
           /\ aeOps' = [aeOps EXCEPT ![c] = "aborted"]
           /\ pending' = (IF pending = c THEN NoControl ELSE pending)
           /\ aeFresh' = aeFresh /\ Next1(d)
  <2>1. Moved(d, "unwind", <<>>)
    BY <1>1, <1>2, <1>3, <1>5, <1>7, Next1Moves
  <2>2. ~ForegroundLost(c) /\ (NeedsGraph(c) => GraphReleased(c))
    BY <1>4, <1>7 DEF ForegroundLost, AbortedStatus
  <2>3. /\ AeTyped' /\ aeOps'[c] = "aborted"
        /\ \A x \in Controls \ {c} : aeOps'[x] = aeOps[x]
    BY <1>2, <1>7 DEF AeTyped, AbortedStatus
  <2>4. ASSUME NEW x \in Controls, x \in aeFresh, NeedsForeground(x)
        PROVE  x # c /\ aeOps[x] = "none" /\ MayTakeForeground(kind[x])'
    <3>1. aeOps[x] = "none" /\ MayTakeForeground(kind[x])
      BY <2>4 DEF SagaInvariant, RowsOK, RowOK, FreshCanTake
    <3>2. CASE pending = c \/ pending = NoControl
      BY <1>6, <1>7, <3>1, <3>2, AeStill DEF MayTakeForeground
    <3>3. CASE pending # c /\ pending # NoControl
      <4>1. pending' = pending /\ aeOps'[pending] = aeOps[pending]
        BY <1>2, <1>7, <2>3, <3>3 DEF AeTyped
      <4> QED BY <1>6, <1>7, <3>1, <4>1, AeStill DEF MayTakeForeground
    <3> QED BY <1>7, <3>1, <3>2, <3>3
  <2>5. ForegroundMoves(c)
    <3>1. ~StrandedPrune(c)
      BY <2>2 DEF StrandedPrune, NeedsGraph, GraphKinds, GraphReleased
    <3> QED BY <1>1, <1>4, <1>7, <2>2, <2>3, <2>4, <3>1, TreeAssumption
        DEF ForegroundMoves, AbortedStatus
  <2>6. \A x \in Controls \ {c} : ForegroundMoves(x)
    BY <1>7, <2>3, <2>4, TreeAssumption, ForegroundUntouched
  <2>7. Unwinding(<<>>, c)'
    BY <2>3 DEF Unwinding, ForegroundLost, AbortedStatus
  <2>8. DriverOK(driver[d])'
    BY <1>1, <1>6, <2>1, <2>7, AeStill, MovedOK DEF Placed
  <2>9. \A x \in Controls : ForegroundMoves(x)
    BY <2>5, <2>6
  <2> QED BY <1>6, <1>7, <2>1, <2>3, <2>8, <2>9, AeStepKeeps DEF Moved
<1>8. CASE /\ aeOps[c] \notin {"prepared", "handoff_pending", "completed"}
           /\ UNCHANGED aeVars /\ Next1(d)
  <2>1. Moved(d, "unwind", <<>>)
    BY <1>1, <1>2, <1>3, <1>5, <1>8, Next1Moves
  <2>2. Unwinding(<<>>, c)
    BY <1>2, <1>4, <1>8 DEF Unwinding, ForegroundLost, AeTyped
  <2>3. DriverOK(driver[d])'
    BY <1>1, <1>6, <1>8, <2>1, <2>2, StillMovedOK DEF Placed, hcVars, arVars
  <2> QED BY <1>1, <1>6, <1>8, <2>1, <2>3, QuietStepKeeps DEF Moved
<1>9. CASE Stops(d) /\ UNCHANGED aeVars
  <2>1. Stopped(d)
    BY <1>2, <1>9, StopsMoves
  <2> QED BY <1>1, <1>6, <1>9, <2>1, StoppedOK, QuietStepKeeps DEF Stopped
<1>10. pending = c => aeOps[c] \in {"prepared", "handoff_pending"}
  BY <1>1 DEF RowOK, OwnersInOrder
<1>11. CASE aeOps[c] # "completed" /\ Next1(d) /\ ~(Stops(d) /\ UNCHANGED aeVars)
  <2>1. CASE aeOps[c] \in {"prepared", "handoff_pending"}
    BY <1>1, <1>7, <1>11, <2>1 DEF ReleaseForeground
  <2>2. CASE aeOps[c] \notin {"prepared", "handoff_pending"}
    <3>1. aeOps' = aeOps
      BY <1>1, <1>2, <1>11, <2>2 DEF ReleaseForeground, AeTyped
    <3>2. pending' = pending /\ aeFresh' = aeFresh
      BY <1>1, <1>10, <1>11, <2>2 DEF ReleaseForeground
    <3> QED BY <1>8, <1>11, <2>2, <3>1, <3>2 DEF aeVars
  <2> QED BY <2>1, <2>2
<1> QED BY <1>1, <1>9, <1>11 DEF ReleaseForeground

-----------------------------------------------------------------------------
(* Steps of the Research Graph                                             *)

LEMMA RgStill ==
  ASSUME UNCHANGED <<hcVars, aeVars, arVars>>
  PROVE  /\ UNCHANGED <<kind, target, saga, executions, aeOps, pending, aeFresh, arOps>>
         /\ \A c : FreshCanTake(c)' <=> FreshCanTake(c)
         /\ \A c : Invalidated(c)' <=> Invalidated(c)
         /\ \A c : /\ NeedsGraph(c)' <=> NeedsGraph(c)
                   /\ NeedsForeground(c)' <=> NeedsForeground(c)
                   /\ ForegroundLost(c)' <=> ForegroundLost(c)
                   /\ RuntimeActed(c)' <=> RuntimeActed(c)
                   /\ PastForeground(c)' <=> PastForeground(c)
<1>1. UNCHANGED <<kind, target, saga, executions, aeOps, pending, aeFresh, arOps>>
  BY DEF hcVars, aeVars, arVars
<1> QED BY <1>1 DEF NeedsGraph, NeedsForeground, ForegroundLost, FreshCanTake,
                    MayTakeForeground, Invalidated, RuntimeActed, PastForeground

(* A switch keeps its target while no Question is pruned.                  *)
LEMMA TargetsKept ==
  ASSUME SagaInvariant, UNCHANGED <<hcVars, aeVars, arVars>>, Active \subseteq Active',
         \A p \in Controls : reserved[p] = "applied" =>
           reserved'[p] = "applied" /\ affected'[p] = affected[p]
  PROVE  \A x \in Controls : TargetActive(x)'
<1>1. \A p \in Controls : StrandedPrune(p) =>
        StrandedPrune(p)' /\ affected'[p] = affected[p]
  BY RgStill DEF StrandedPrune
<1>2. ASSUME NEW x \in Controls PROVE TargetActive(x)'
  <2>1. TargetActive(x)
    BY DEF SagaInvariant, RowsOK, RowOK
  <2>2. TargetHeld(x) => TargetHeld(x)'
    BY <1>1, RgStill DEF TargetHeld
  <2> QED BY <2>1, <2>2, RgStill DEF TargetActive
<1> QED BY <1>2

LEMMA RgRows ==
  ASSUME SagaInvariant, [NextQuestions]_questionVars,
         UNCHANGED <<hcVars, aeVars, arVars>>,
         \A x \in Controls :
           /\ control'[x] = control[x]
           /\ reserved'[x] # "none" => NeedsGraph(x) /\ aeOps[x] # "none"
           /\ reserved'[x] = "applied" => arOps[x] = "applied"
           /\ TargetActive(x)'
  PROVE  /\ RowsOK' /\ \A x \in Controls : OwnersGoOn(x)
         /\ DriversTyped' => SagaTypeOK'
<1> USE DEF SagaInvariant
<1>1. HcTyped /\ AeTyped /\ ArTyped
  BY SagaTyped
<1>2. ASSUME NEW x \in Controls PROVE RowOK(x)'
  <2>1. RowOK(x) /\ GraphGoesOn(x)
    BY GraphProgress DEF RowsOK
  <2>2. OnlyNeededRows(x)'
    BY <2>1, RgStill DEF RowOK, OnlyNeededRows, Asks
  <2>3. OwnersInOrder(x)'
    BY <2>1, RgStill DEF RowOK, OwnersInOrder, GraphGoesOn
  <2>4. ReleasedForGood(x)'
    <3>1. NeedsGraph(x) => Asks(x) # "none"
      BY KindsAsk
    <3> QED BY <2>1, <3>1, RgStill DEF RowOK, ReleasedForGood, GraphGoesOn
  <2>5. ExecutedInFull(x)'
    BY <2>1, RgStill DEF RowOK, ExecutedInFull, GraphGoesOn
  <2>6. FreshCanTake(x)' /\ TargetActive(x)'
    BY <2>1, RgStill DEF RowOK
  <2> QED BY <2>2, <2>3, <2>4, <2>5, <2>6 DEF RowOK
<1>3. HcTyped' /\ AeTyped' /\ ArTyped'
  BY <1>1 DEF HcTyped, AeTyped, ArTyped, arVars, hcVars, aeVars
<1>4. QuestionTypeOK'
  BY QuestionStep DEF QuestionInvariant
<1>5. \A x \in Controls : OwnersGoOn(x)
  BY RgStill DEF OwnersGoOn
<1> QED BY <1>2, <1>3, <1>4, <1>5, SagaTyped DEF RowsOK

LEMMA GrowthKeepsSaga ==
  ASSUME SagaInvariant, Growth, UNCHANGED <<hcVars, aeVars, arVars, driver>>
  PROVE  SagaInvariant'
<1>1. control' = control /\ reserved' = reserved
  BY DEF Growth, CheckManualParent, AcceptManualQuestion, AcceptAutonomousQuestion,
         OtherGraphWrite, controlVars
<1>2. Active \subseteq Active'
  BY DEF SagaInvariant, QuestionInvariant, QuestionTypeOK, Active, Growth,
         CheckManualParent, AcceptManualQuestion, AcceptAutonomousQuestion,
         OtherGraphWrite, treeVars
<1>3. affected' = affected
  BY DEF Growth, CheckManualParent, AcceptManualQuestion, AcceptAutonomousQuestion,
         OtherGraphWrite, controlVars
<1>4. \A x \in Controls : TargetActive(x)'
  BY <1>1, <1>2, <1>3, TargetsKept
<1>5. \A x \in Controls :
        /\ reserved[x] # "none" => NeedsGraph(x) /\ aeOps[x] # "none"
        /\ reserved[x] = "applied" => arOps[x] = "applied"
  BY DEF SagaInvariant, RowsOK, RowOK, OnlyNeededRows, OwnersInOrder
<1>6. [NextQuestions]_questionVars
  BY DEF NextQuestions
<1>7. DriversTyped'
  BY SagaTyped DEF SagaInvariant, DriversTyped
<1>8. RowsOK' /\ SagaTypeOK' /\ \A x \in Controls : OwnersGoOn(x)
  BY <1>1, <1>5, <1>6, <1>7, <1>4, RgRows
<1> QED BY <1>6, <1>8, OutsideStepKeeps

(* What an operation of the graph does to its row.                         *)
LEMMA RgStepKeeps ==
  ASSUME SagaInvariant, UNCHANGED <<hcVars, aeVars, arVars>>,
         NEW d \in Drivers, NEW c \in Controls, [NextQuestions]_questionVars,
         control' = control, \A x \in Controls \ {c} : reserved'[x] = reserved[x],
         reserved'[c] # "none" => NeedsGraph(c) /\ aeOps[c] # "none",
         reserved'[c] = "applied" => arOps[c] = "applied",
         \A x \in Controls : TargetActive(x)',
         DriversTyped', \A e \in Drivers \ {d} : driver'[e] = driver[e],
         DriverOK(driver[d])'
  PROVE  SagaInvariant'
<1>1. \A x \in Controls :
        /\ reserved[x] # "none" => NeedsGraph(x) /\ aeOps[x] # "none"
        /\ reserved[x] = "applied" => arOps[x] = "applied"
  BY DEF SagaInvariant, RowsOK, RowOK, OnlyNeededRows, OwnersInOrder
<1>2. RowsOK' /\ SagaTypeOK' /\ \A x \in Controls : OwnersGoOn(x)
  BY <1>1, RgRows
<1> QED BY <1>2, DriverStepKeeps

LEMMA PrepareGraphKeeps ==
  ASSUME SagaInvariant, NEW d \in Drivers, PrepareGraph(d)
  PROVE  SagaInvariant'
<1>1. PICK c \in Controls, t \in Seq(Names) :
        /\ c = Cmd(d) /\ t = driver[d].todo /\ kind[c] # "none"
        /\ Placed("rg", c)
  BY AtWork DEF PrepareGraph, At
<1>2. DriversTyped /\ QuestionTypeOK
  BY SagaTyped DEF SagaInvariant
<1>3. UNCHANGED <<hcVars, aeVars, arVars>> /\ NeedsGraph(c) /\ NeedsForeground(c)
      /\ aeOps[c] # "none"
  BY <1>1, KindsAsk DEF PrepareGraph, Placed, PastForeground
<1>4. CASE PrepareQuestionControl(c) /\ Goes(d, "ar")
  <2>1. Moved(d, "ar", t)
    BY <1>1, <1>2, <1>4, GoesMoves DEF Places
  <2>2. /\ reserved'[c] = "prepared" /\ control' = control /\ lifecycle' = lifecycle
        /\ \A x \in Controls \ {c} : reserved'[x] = reserved[x]
    BY <1>2, <1>4 DEF PrepareQuestionControl, QuestionTypeOK, treeVars
  <2>3. Active' = Active /\ [NextQuestions]_questionVars
    BY <1>4, <2>2 DEF Active, NextQuestions, Control
  <2>4. Placed("ar", c)'
    BY <1>3, <2>2, RgStill DEF Placed, PastGraph, PastForeground
  <2>5. DriverOK(driver[d])'
    BY <1>1, <1>3, <2>1, <2>4, RgStill, MovedOK
  <2>6. \A x \in Controls \ {c} : affected'[x] = affected[x]
    BY <1>2, <1>4 DEF PrepareQuestionControl, QuestionTypeOK
  <2>7. \A x \in Controls : TargetActive(x)'
    BY <1>3, <1>4, <2>2, <2>3, <2>6, TargetsKept DEF PrepareQuestionControl, MayReserve
  <2> QED BY <1>3, <2>1, <2>2, <2>3, <2>5, <2>7, RgStepKeeps DEF Moved
<1>5. CASE reserved[c] \in {"prepared", "applied"} /\ Goes(d, "ar") /\ UNCHANGED questionVars
  <2>1. Moved(d, "ar", t)
    BY <1>1, <1>2, <1>5, GoesMoves DEF Places
  <2>2. Placed("ar", c)
    BY <1>3, <1>5 DEF Placed, PastGraph, PastForeground
  <2>3. DriverOK(driver[d])'
    BY <1>1, <1>3, <1>5, <2>1, <2>2, StillMovedOK DEF hcVars, arVars
  <2> QED BY <1>1, <1>3, <1>5, <2>1, <2>3, QuietStepKeeps DEF Moved
<1>6. CASE /\ \/ reserved[c] = "aborted"
              \/ reserved[c] = "none" /\ ~MayReserve(c)
           /\ Unwinds(d, <<"ae">>) /\ UNCHANGED questionVars
  <2>1. Moved(d, "unwind", <<"ae">>)
    BY <1>2, <1>6, Releases, UnwindsMoves DEF Names
  <2>2. Unwinding(<<"ae">>, c)
    BY <1>3, <1>6 DEF Unwinding, GraphReleased
  <2>3. DriverOK(driver[d])'
    BY <1>1, <1>3, <1>6, <2>1, <2>2, StillMovedOK DEF Placed, hcVars, arVars
  <2> QED BY <1>1, <1>3, <1>6, <2>1, <2>3, QuietStepKeeps DEF Moved
<1> QED BY <1>1, <1>4, <1>5, <1>6 DEF PrepareGraph

(* The graph is written for a command whose operation AE has prepared.     *)
LEMMA AppliesWhenPrepared ==
  ASSUME SagaInvariant, NEW c \in Controls, NeedsGraph(c), RuntimeActed(c),
         ApplyQuestionControl(c)
  PROVE  arOps[c] = "applied" /\ aeOps[c] = "prepared"
<1>1. RowOK(c) /\ MayApply(c) /\ reserved[c] = "prepared" /\ AeTyped
  BY SagaTyped DEF SagaInvariant, RowsOK, ApplyQuestionControl, MayApply
<1>2. ~GraphLost(c) /\ ~GraphReleased(c)
  BY <1>1 DEF GraphLost, GraphReleased
<1> QED BY <1>1, <1>2
    DEF RowOK, OwnersInOrder, ReleasedForGood, Invalidated, RuntimeActed, AeTyped,
        AbortedStatus, NeedsGraph, GraphKinds, SwitchKinds

(* A prune at the head meets no switch; one that lost the head is the      *)
(* prune that takes the target away.                                       *)
LEMMA TargetsAfterApply ==
  ASSUME SagaInvariant, UNCHANGED <<hcVars, aeVars, arVars>>,
         NEW c \in Controls, NeedsGraph(c), aeOps[c] = "prepared",
         ApplyQuestionControl(c)
  PROVE  \A x \in Controls : TargetActive(x)'
<1>1. /\ reserved'[c] = "applied" /\ affected' = affected
      /\ \A x \in Controls \ {c} : reserved'[x] = reserved[x]
      /\ \A q \in Questions : lifecycle'[q] =
           IF q \in affected[c] THEN NextStatus(c) ELSE lifecycle[q]
  BY ApplyChanges DEF SagaInvariant
<1>2. Asks(c) = kind[c] /\ kind[c] \in GraphKinds /\ HcTyped /\ AeTyped
  BY SagaTyped DEF SagaInvariant, RowsOK, RowOK, OnlyNeededRows, NeedsGraph
<1>3. CASE kind[c] = "restore"
  <2>1. Active \subseteq Active'
    BY <1>1, <1>2, <1>3 DEF Active, NextStatus
  <2> QED BY <1>1, <2>1, TargetsKept
<1>4. CASE kind[c] = "prune" /\ pending = c
  <2>1. ASSUME NEW x \in Controls, kind[x] \in SwitchKinds
        PROVE  pending # x /\ x \notin aeFresh
    <3>1. FreshCanTake(x) /\ NeedsForeground(x)
      BY <2>1 DEF SagaInvariant, RowsOK, RowOK, NeedsForeground, SwitchKinds, RunKinds
    <3> QED BY <1>4, <2>1, <3>1, TreeAssumption
        DEF FreshCanTake, MayTakeForeground, SwitchKinds
  <2> QED BY <2>1, RgStill DEF TargetActive
<1>5. CASE kind[c] = "prune" /\ pending # c
  <2>1. StrandedPrune(c)' /\ \A p \in Controls : StrandedPrune(p) => StrandedPrune(p)'
    BY <1>1, <1>5, RgStill DEF StrandedPrune
  <2>2. ASSUME NEW x \in Controls PROVE TargetActive(x)'
    <3>1. TargetActive(x) /\ target[x] \in Questions /\ target'[x] = target[x]
      BY <1>2, RgStill DEF SagaInvariant, RowsOK, RowOK, HcTyped
    <3>2. target[x] \in Active => target[x] \in Active' \/ target[x] \in affected[c]
      BY <1>1, <3>1 DEF Active
    <3>3. TargetHeld(x) => TargetHeld(x)'
      BY <1>1, <2>1, <3>1, <3>2 DEF TargetHeld
    <3> QED BY <3>1, <3>3, RgStill DEF TargetActive
  <2> QED BY <2>2
<1> QED BY <1>2, <1>3, <1>4, <1>5 DEF GraphKinds

LEMMA ApplyGraphKeeps ==
  ASSUME SagaInvariant, NEW d \in Drivers, ApplyGraph(d)
  PROVE  SagaInvariant'
<1>1. PICK c \in Controls, t \in Seq(Names) :
        /\ c = Cmd(d) /\ t = driver[d].todo /\ kind[c] # "none" /\ RowOK(c)
        /\ Placed("graph", c)
  BY AtWork DEF ApplyGraph, At
<1>2. DriversTyped /\ QuestionTypeOK
  BY SagaTyped DEF SagaInvariant
<1>3. UNCHANGED <<hcVars, aeVars, arVars>> /\ NeedsGraph(c) /\ NeedsForeground(c)
      /\ PastGraph(c) /\ RuntimeActed(c)
  BY <1>1, KindsAsk DEF ApplyGraph, Placed
<1>4. CASE ApplyQuestionControl(c) /\ Marks(d, "complete")
  <2>1. Moved(d, "mark", <<"complete">>)
    BY <1>2, <1>4, MarksMoves DEF Names
  <2>2. arOps[c] = "applied" /\ aeOps[c] = "prepared"
    BY <1>3, <1>4, AppliesWhenPrepared
  <2>3. /\ reserved'[c] = "applied" /\ control' = control
        /\ \A x \in Controls \ {c} : reserved'[x] = reserved[x]
    BY <1>4, ApplyChanges DEF SagaInvariant
  <2>4. [NextQuestions]_questionVars
    BY <1>4 DEF NextQuestions, Control
  <2>5. \A x \in Controls : TargetActive(x)'
    BY <1>3, <1>4, <2>2, TargetsAfterApply
  <2>6. Marking(<<"complete">>, c)'
    BY <1>3, <2>3, RgStill DEF Marking, Placed, PastGraph
  <2>7. DriverOK(driver[d])'
    BY <1>1, <1>3, <2>1, <2>6, RgStill, MovedOK DEF Placed
  <2> QED BY <1>3, <2>1, <2>2, <2>3, <2>4, <2>5, <2>7, RgStepKeeps DEF Moved
<1>5. CASE reserved[c] = "applied" /\ Marks(d, "complete") /\ UNCHANGED questionVars
  <2>1. Moved(d, "mark", <<"complete">>)
    BY <1>2, <1>5, MarksMoves DEF Names
  <2>2. Marking(<<"complete">>, c)
    BY <1>3, <1>5 DEF Marking, Placed, PastGraph
  <2>3. DriverOK(driver[d])'
    BY <1>1, <1>3, <1>5, <2>1, <2>2, StillMovedOK DEF Placed, hcVars, arVars
  <2> QED BY <1>1, <1>3, <1>5, <2>1, <2>3, QuietStepKeeps DEF Moved
<1>6. CASE /\ reserved[c] # "applied" /\ ~MayApply(c)
           /\ Compensates(d) /\ UNCHANGED questionVars
  <2>1. Moved(d, "unwind", <<"comp", "rg", "ae">>)
    BY <1>2, <1>6, Releases, UnwindsMoves DEF Compensates
  <2>2. Unwinding(<<"comp", "rg", "ae">>, c)
    BY <1>2, <1>3, <1>6 DEF Unwinding, GraphLost, PastGraph, QuestionTypeOK
  <2>3. DriverOK(driver[d])'
    BY <1>1, <1>3, <1>6, <2>1, <2>2, StillMovedOK DEF Placed, hcVars, arVars
  <2> QED BY <1>1, <1>3, <1>6, <2>1, <2>3, QuietStepKeeps DEF Moved
<1> QED BY <1>1, <1>4, <1>5, <1>6 DEF ApplyGraph

(* abort_question_control changes nothing when nothing is reserved.        *)
LEMMA AbortIsQuestionStep ==
  ASSUME SagaInvariant, NEW c \in Controls, AbortQuestionControl(c)
  PROVE  /\ [NextQuestions]_questionVars
         /\ control' = control /\ lifecycle' = lifecycle /\ Active' = Active
         /\ \A x \in Controls \ {c} : reserved'[x] = reserved[x]
         /\ reserved'[c] = IF reserved[c] = "none" THEN "none" ELSE "aborted"
<1>1. QuestionTypeOK
  BY SagaTyped DEF SagaInvariant
<1>2. /\ control' = control /\ lifecycle' = lifecycle
      /\ \A x \in Controls \ {c} : reserved'[x] = reserved[x]
      /\ reserved'[c] = IF reserved[c] = "none" THEN "none" ELSE "aborted"
  BY <1>1 DEF AbortQuestionControl, QuestionTypeOK, treeVars
<1>3. Active' = Active
  BY <1>2 DEF Active
<1>4. CASE reserved[c] # "none"
  BY <1>2, <1>3, <1>4 DEF NextQuestions, Control
<1>5. CASE reserved[c] = "none"
  <2>1. reserved' = reserved
    BY <1>1, <1>5 DEF AbortQuestionControl, QuestionTypeOK
  <2>2. current' = current
    BY <1>5 DEF AbortQuestionControl, SagaInvariant, CurrentPrepared
  <2>3. UNCHANGED questionVars
    BY <2>1, <2>2 DEF AbortQuestionControl, questionVars, treeVars
  <2> QED BY <1>2, <1>3, <2>3
<1> QED BY <1>4, <1>5

LEMMA ReleaseGraphKeeps ==
  ASSUME SagaInvariant, NEW d \in Drivers, ReleaseGraph(d)
  PROVE  SagaInvariant'
<1>1. PICK c \in Controls, t \in Seq(Names) :
        /\ c = Cmd(d) /\ t = driver[d].todo /\ kind[c] # "none" /\ RowOK(c)
        /\ Unwinding(t, c)
  BY AtWork DEF ReleaseGraph, Due, At
<1>2. DriversTyped
  BY SagaTyped DEF SagaInvariant
<1>3. t # <<>> /\ Head(t) = "rg" /\ driver[d].pc = "unwind"
  BY <1>1 DEF ReleaseGraph, Due, At
<1>4. UNCHANGED <<hcVars, aeVars, arVars>>
  BY DEF ReleaseGraph
<1>5. CASE AbortQuestionControl(c) /\ Next1(d)
  <2>1. Moved(d, "unwind", Tail(t))
    BY <1>1, <1>2, <1>3, <1>5, Next1Moves
  <2>2. /\ [NextQuestions]_questionVars
        /\ control' = control /\ Active' = Active
        /\ \A x \in Controls \ {c} : reserved'[x] = reserved[x]
        /\ reserved'[c] = IF reserved[c] = "none" THEN "none" ELSE "aborted"
    BY <1>5, AbortIsQuestionStep
  <2>3. \/ t = <<"rg", "ae">> /\ (reserved[c] # "none" \/ ForegroundLost(c))
        \/ t = <<"rg", "ar", "ae">> /\ reserved[c] # "none"
    BY <1>1, <1>3 DEF Unwinding
  <2>4. NeedsGraph(c) /\ NeedsForeground(c)
    BY <1>1, <1>3, KindsAsk DEF Unwinding
  <2>5. reserved[c] # "none" => aeOps[c] # "none" /\ GraphReleased(c)'
    BY <1>1, <2>2 DEF RowOK, OwnersInOrder, GraphReleased
  <2>6. Unwinding(Tail(t), c)'
    <3>1. CASE t = <<"rg", "ae">>
      <4>1. Tail(t) = <<"ae">> /\ (reserved[c] # "none" \/ ForegroundLost(c))
        BY <2>3, <3>1
      <4> QED BY <1>4, <2>4, <2>5, <4>1, RgStill DEF Unwinding
    <3>2. CASE t = <<"rg", "ar", "ae">>
      <4>1. Tail(t) = <<"ar", "ae">> /\ reserved[c] # "none"
        BY <2>3, <3>2
      <4> QED BY <1>4, <2>4, <2>5, <4>1, RgStill DEF Unwinding
    <3> QED BY <2>3, <3>1, <3>2
  <2>7. DriverOK(driver[d])'
    BY <1>1, <1>4, <2>1, <2>6, RgStill, MovedOK DEF Placed
  <2>8. /\ reserved'[c] # "none" => NeedsGraph(c) /\ aeOps[c] # "none"
        /\ reserved'[c] = "applied" => arOps[c] = "applied"
    BY <2>2, <2>4, <2>5
  <2>9. \A x \in Controls : TargetActive(x)'
    <3>1. \A p \in Controls : reserved[p] = "applied" => reserved'[p] = "applied"
      BY <1>5, <2>2 DEF AbortQuestionControl
    <3> QED BY <1>4, <1>5, <2>2, <3>1, TargetsKept DEF AbortQuestionControl
  <2> QED BY <1>4, <2>1, <2>2, <2>7, <2>8, <2>9, RgStepKeeps DEF Moved
<1>6. CASE Stops(d) /\ UNCHANGED questionVars
  <2>1. Stopped(d)
    BY <1>2, <1>6, StopsMoves
  <2> QED BY <1>1, <1>4, <1>6, <2>1, StoppedOK, QuietStepKeeps DEF Stopped
<1> QED BY <1>1, <1>5, <1>6 DEF ReleaseGraph

-----------------------------------------------------------------------------
(* The human confirms; the daemon dies                                     *)

(* What the preview and the confirmation of a command write.               *)
Asked(c, k, q) ==
  /\ Confirmed(c, k, q) /\ q \in Questions
  /\ [NextQuestions]_questionVars
  /\ UNCHANGED <<lifecycle, reserved>>
  /\ \A x \in Controls \ {c} : control'[x] = control[x]
  /\ k \in GraphKinds => control'[c].action = k
  /\ k \in SwitchKinds => q \in Active
  /\ affected' = affected

(* A confirmation writes the row of the command it previewed, and no other.*)
LEMMA ConfirmAsks ==
  ASSUME SagaInvariant, NEW c \in Controls, Confirm(c)
  PROVE  \E k \in Kinds, q \in Questions : Asked(c, k, q)
<1>1. QuestionTypeOK
  BY SagaTyped DEF SagaInvariant
<1>2. ASSUME NEW q \in Questions, PreviewPrune(c, q), Confirmed(c, "prune", q)
      PROVE  Asked(c, "prune", q) /\ "prune" \in Kinds
  BY <1>1, <1>2 DEF Asked, PreviewPrune, Confirmed, NextQuestions, Control, treeVars,
                    QuestionTypeOK, SwitchKinds
<1>3. ASSUME NEW r \in Controls, PreviewRestore(c, r), Confirmed(c, "restore", Root)
      PROVE  Asked(c, "restore", Root) /\ "restore" \in Kinds
  BY <1>1, <1>3, TreeAssumption
     DEF Asked, PreviewRestore, Confirmed, NextQuestions, Control, treeVars,
         QuestionTypeOK, SwitchKinds
<1>4. ASSUME NEW k \in SwitchKinds, NEW q \in Active,
             Confirmed(c, k, q), UNCHANGED questionVars
      PROVE  Asked(c, k, q) /\ k \in Kinds /\ q \in Questions
  BY <1>4 DEF Asked, Confirmed, SwitchKinds, GraphKinds, Active, questionVars
<1>5. ASSUME NEW k \in CycleKinds \cup RunKinds,
             Confirmed(c, k, Root), UNCHANGED questionVars
      PROVE  Asked(c, k, Root) /\ k \in Kinds
  BY <1>5, TreeAssumption
     DEF Asked, Confirmed, SwitchKinds, GraphKinds, CycleKinds, RunKinds, questionVars
<1> QED BY <1>2, <1>3, <1>4, <1>5, TreeAssumption DEF Confirm

LEMMA ConfirmKeeps ==
  ASSUME SagaInvariant, NEW c \in Controls, Confirm(c)
  PROVE  SagaInvariant'
<1>1. PICK k \in Kinds, q \in Questions : Asked(c, k, q)
  BY ConfirmAsks
<1>2. HcTyped /\ AeTyped /\ ArTyped /\ DriversTyped
  BY SagaTyped DEF SagaInvariant
<1>3. /\ kind[c] = "none" /\ kind'[c] = k /\ target'[c] = q
      /\ \A x \in Controls \ {c} : kind'[x] = kind[x] /\ target'[x] = target[x]
      /\ aeFresh' = aeFresh \cup {c} /\ arFresh' = arFresh \cup {c}
      /\ UNCHANGED <<saga, executions, aeOps, pending, arOps, suspends, driver>>
      /\ Active' = Active /\ reserved' = reserved /\ [NextQuestions]_questionVars
  BY <1>1, <1>2 DEF Asked, Confirmed, HcTyped, Active
<1>4. \A p \in Controls : StrandedPrune(p) =>
        StrandedPrune(p)' /\ affected'[p] = affected[p]
  <2>1. aeOps[c] = "none"
    BY <1>3 DEF SagaInvariant, RowsOK, RowOK, OnlyNeededRows
  <2> QED BY <1>1, <1>3, <2>1 DEF Asked, StrandedPrune
<1>5. ASSUME NEW x \in Controls, x # c PROVE RowOK(x)' /\ OwnersGoOn(x)
  <2>1. RowOK(x) /\ GraphGoesOn(x)
    BY <1>3, GraphProgress DEF SagaInvariant, RowsOK
  <2>2. /\ NeedsGraph(x)' <=> NeedsGraph(x)
        /\ NeedsForeground(x)' <=> NeedsForeground(x)
        /\ ForegroundLost(x)' <=> ForegroundLost(x)
        /\ Asks(x)' = Asks(x)
    BY <1>1, <1>3, <1>5
       DEF Asked, NeedsGraph, NeedsForeground, ForegroundLost, Asks
  <2>3. OnlyNeededRows(x)' /\ OwnersInOrder(x)'
    BY <1>3, <1>5, <2>1, <2>2 DEF RowOK, OnlyNeededRows, OwnersInOrder, RuntimeActed
  <2>4. ReleasedForGood(x)'
    <3>1. NeedsGraph(x) => Asks(x) # "none"
      BY KindsAsk
    <3> QED BY <1>3, <1>5, <2>1, <2>2, <3>1
        DEF RowOK, ReleasedForGood, Invalidated, GraphGoesOn
  <2>5. ExecutedInFull(x)' /\ FreshCanTake(x)' /\ TargetActive(x)'
    <3>1. TargetHeld(x) => TargetHeld(x)'
      BY <1>3, <1>5, <1>4 DEF TargetHeld
    <3> QED BY <1>3, <1>5, <2>1, <2>2, <3>1
        DEF RowOK, ExecutedInFull, FreshCanTake, MayTakeForeground, TargetActive
  <2>6. OwnersGoOn(x)
    BY <1>3, <1>5, <2>2 DEF OwnersGoOn, RuntimeActed
  <2> QED BY <2>3, <2>4, <2>5, <2>6 DEF RowOK
<1>6. RowOK(c)' /\ OwnersGoOn(c)
  <2>1. RowOK(c)
    BY DEF SagaInvariant, RowsOK
  <2>2. /\ arOps[c] = "none" /\ aeOps[c] = "none" /\ saga[c] = "none"
        /\ c \notin executions /\ pending # c /\ reserved[c] = "none" /\ k # "none"
    BY <1>3, <2>1, SagaAssumption
       DEF RowOK, OnlyNeededRows, OwnersInOrder, NeedsGraph, GraphKinds, SwitchKinds,
           CycleKinds, RunKinds
  <2>3. OnlyNeededRows(c)'
    BY <1>1, <1>3, <2>2 DEF Asked, OnlyNeededRows, NeedsGraph, Asks
  <2>4. OwnersInOrder(c)' /\ ReleasedForGood(c)' /\ ExecutedInFull(c)'
    BY <1>3, <2>2 DEF OwnersInOrder, ReleasedForGood, ExecutedInFull
  <2>5. TargetActive(c)' /\ FreshCanTake(c)'
    BY <1>1, <1>3, <2>2
       DEF Asked, Confirmed, TargetActive, TargetHeld, FreshCanTake, NeedsForeground,
           MayTakeForeground
  <2>6. OwnersGoOn(c)
    BY <1>3 DEF OwnersGoOn
  <2> QED BY <2>3, <2>4, <2>5, <2>6 DEF RowOK
<1>7. SagaTypeOK'
  <2>1. HcTyped'
    BY <1>1, <1>2, <1>3 DEF HcTyped, Asked, Confirmed
  <2>2. AeTyped' /\ ArTyped' /\ DriversTyped'
    BY <1>2, <1>3 DEF AeTyped, ArTyped, DriversTyped
  <2>3. QuestionTypeOK'
    BY <1>3, QuestionStep DEF SagaInvariant, QuestionInvariant
  <2> QED BY <2>1, <2>2, <2>3, SagaTyped
<1> QED BY <1>3, <1>5, <1>6, <1>7, OutsideStepKeeps DEF RowsOK

LEMMA CrashKeeps ==
  ASSUME SagaInvariant, Crash
  PROVE  SagaInvariant'
<1>1. PICK d \in Drivers : driver[d].pc # "idle"
  BY DEF Crash, At
<1>2. PICK c \in Controls, t \in Seq(Names) : kind[c] # "none" /\ RowOK(c)
  BY <1>1, AtWork
<1>3. UNCHANGED <<questionVars, hcVars, aeVars, arVars>>
  BY DEF Crash
<1>4. HcTyped
  BY SagaTyped DEF SagaInvariant
<1>5. DriversTyped' /\ \A e \in Drivers : driver'[e] = Idle
  BY Releases DEF Crash, DriversTyped, Idle, Places
<1>6. RowsOK' /\ SagaTypeOK' /\ \A x \in Controls : OwnersGoOn(x)
  <2>1. saga[c] \in {"none", "open", "compensated", "aborted", "completed"}
        /\ saga' = [saga EXCEPT ![c] = saga[c]]
    BY <1>3, <1>4 DEF HcTyped, hcVars
  <2>2. /\ saga[c] = "compensated" => arOps[c] = "compensated"
        /\ saga[c] = "aborted" => (NeedsForeground(c) => ForegroundLost(c))
    BY <1>2 DEF RowOK, ReleasedForGood
  <2> QED BY <1>2, <1>3, <1>5, <2>1, <2>2, HcRows DEF hcVars
<1>7. DriversOK'
  BY <1>5 DEF DriversOK, DriverOK, Idle
<1>8. QuestionInvariant' /\ CurrentPrepared'
  BY <1>3, QuestionStep, CurrentStep DEF SagaInvariant
<1> QED BY <1>6, <1>7, <1>8 DEF SagaInvariant

(* No transaction and no crash breaks the fit of the rows.                 *)
LEMMA SagaStep == SagaInvariant /\ [NextSaga]_sagaVars => SagaInvariant'
<1> SUFFICES ASSUME SagaInvariant, [NextSaga]_sagaVars PROVE SagaInvariant'
  OBVIOUS
<1>1. ASSUME NEW d \in Drivers, Step(d) PROVE SagaInvariant'
  BY <1>1, StartKeeps, StartExecutedKeeps, StartCompensatedKeeps, EnsureSagaKeeps,
     PrepareForegroundKeeps, PrepareGraphKeeps, PrepareRuntimeKeeps,
     MarkProgressKeeps, ApplyRuntimeKeeps, VerifyRuntimeReceiptKeeps, ApplyGraphKeeps,
     CompleteForegroundKeeps, FinishKeeps, ReleaseGraphKeeps, ReleaseRuntimeKeeps,
     ReleaseForegroundKeeps, CompensateRuntimeKeeps, CannotCompensateKeeps,
     MarkCompensatedKeeps, MarkAbortedKeeps
     DEF Step
<1>2. CASE Environment
  BY <1>2, OwnerMovesKeeps, SuccessorKeeps, GrowthKeepsSaga, ConfirmKeeps,
     StageCommitKeeps, CrashKeeps
     DEF Environment
<1>3. CASE UNCHANGED sagaVars
  <2>1. UNCHANGED <<questionVars, hcVars, aeVars, arVars, driver>>
    BY <1>3 DEF sagaVars
  <2>2. RowsOK'
    <3>1. ASSUME NEW x \in Controls PROVE RowOK(x)'
      <4>1. RowOK(x)
        BY DEF SagaInvariant, RowsOK
      <4>2. arOps' = arOps
        BY <2>1 DEF arVars
      <4>3. OnlyNeededRows(x)' /\ OwnersInOrder(x)' /\ ReleasedForGood(x)'
        BY <4>1, <4>2, <2>1, ArStill, GraphStill
           DEF RowOK, OnlyNeededRows, OwnersInOrder, ReleasedForGood, RuntimeActed
      <4>4. ExecutedInFull(x)' /\ FreshCanTake(x)' /\ TargetActive(x)'
        BY <4>1, <4>2, <2>1, ArStill, GraphStill DEF RowOK, ExecutedInFull
      <4> QED BY <4>3, <4>4 DEF RowOK
    <3> QED BY <3>1 DEF RowsOK
  <2>3. SagaTypeOK'
    BY <2>1 DEF SagaInvariant, SagaTypeOK, QuestionTypeOK, questionVars, hcVars, aeVars, arVars
  <2>4. \A x \in Controls : OwnersGoOn(x)
    BY <2>1, ArStill DEF OwnersGoOn, RuntimeActed, arVars
  <2> QED BY <2>1, <2>2, <2>3, <2>4, OutsideStepKeeps
<1> QED BY <1>1, <1>2, <1>3 DEF NextSaga

(* The rows of the four Owners and the places of the drivers fit together  *)
(* at every moment: whoever drives, and whenever the daemon dies.          *)
THEOREM SagaHolds == SpecSaga => []SagaInvariant
  BY SagaInit, SagaStep, PTL DEF SpecSaga

(* Every row of the four Owners, and the place and the list of each driver,*)
(* keep their types.                                                       *)
THEOREM SagaTypeCorrect == SpecSaga => []SagaTypeOK
  BY SagaHolds, PTL DEF SagaInvariant

(* An aborted command holds neither the foreground nor the graph, whether  *)
(* or not somebody still works on it.                                      *)
THEOREM AbortedCommandsFree == SpecSaga => []AbortedFreesForeground
<1>1. SagaInvariant => AbortedFreesForeground
  <2> SUFFICES ASSUME SagaInvariant, NEW c \in Controls, saga[c] = "aborted"
               PROVE  pending # c /\ reserved[c] # "prepared"
    BY DEF AbortedFreesForeground
  <2>1. RowOK(c)
    BY DEF SagaInvariant, RowsOK
  <2>2. aeOps[c] \in {"none"} \cup AbortedStatus
    BY <2>1 DEF RowOK, OnlyNeededRows, ReleasedForGood, ForegroundLost
  <2>3. NeedsGraph(c) => aeOps[c] # "invalidated"
    BY <2>1 DEF RowOK, OwnersInOrder, NeedsGraph, GraphKinds, SwitchKinds
  <2> QED BY <2>1, <2>2, <2>3
      DEF RowOK, OnlyNeededRows, OwnersInOrder, ReleasedForGood, GraphReleased,
          AbortedStatus
<1> QED BY <1>1, SagaHolds, PTL

(* complete_foreground_control meets a switch whose target is gone only    *)
(* after a Reasoning successor took the head from a prune of that target,  *)
(* which went on at Research Graph.                                        *)
THEOREM SwitchTargets == SpecSaga => []SwitchTargetStaysActive
<1>1. SagaInvariant => SwitchTargetStaysActive
  BY DEF SagaInvariant, RowsOK, RowOK, TargetActive, TargetHeld, SwitchTargetStaysActive
<1> QED BY <1>1, SagaHolds, PTL

-----------------------------------------------------------------------------
(* The graph inside the saga is the graph of QuestionControl               *)

(* What a saga writes in the graph is a step of QuestionControl.           *)
LEMMA StepIsQuestionStep ==
  ASSUME SagaInvariant, NEW d \in Drivers, Step(d)
  PROVE  [NextQuestions]_questionVars
<1>1. CASE ReleaseGraph(d)
  <2>1. Cmd(d) \in Controls
    BY <1>1, Working DEF ReleaseGraph, Due, At
  <2> QED BY <1>1, <2>1, AbortIsQuestionStep DEF ReleaseGraph
<1>2. CASE PrepareGraph(d)
  <2>1. Cmd(d) \in Controls
    BY <1>2, Working DEF PrepareGraph, At
  <2> QED BY <1>2, <2>1 DEF PrepareGraph, NextQuestions, Control
<1>3. CASE ApplyGraph(d)
  <2>1. Cmd(d) \in Controls
    BY <1>3, Working DEF ApplyGraph, At
  <2> QED BY <1>3, <2>1 DEF ApplyGraph, NextQuestions, Control
<1>4. CASE ~ReleaseGraph(d) /\ ~PrepareGraph(d) /\ ~ApplyGraph(d)
  <2>1. UNCHANGED questionVars
    BY <1>4 DEF Step, Start, StartExecuted, StartCompensated, EnsureSaga,
                PrepareForeground, PrepareRuntime, MarkProgress, ApplyRuntime,
                VerifyRuntimeReceipt, CompleteForeground, Finish, ReleaseRuntime,
                ReleaseForeground, CompensateRuntime, CannotCompensate,
                MarkCompensated, MarkAborted
  <2> QED BY <2>1
<1> QED BY <1>1, <1>2, <1>3, <1>4

LEMMA SagaStepIsQuestionStep ==
  SagaInvariant /\ [NextSaga]_sagaVars => [NextQuestions]_questionVars
<1> SUFFICES ASSUME SagaInvariant, [NextSaga]_sagaVars
             PROVE  [NextQuestions]_questionVars
  OBVIOUS
<1>1. CASE Environment
  <2>1. ASSUME NEW c \in Controls, Confirm(c) PROVE [NextQuestions]_questionVars
    BY <2>1, ConfirmAsks DEF Asked
  <2>2. CASE Growth
    BY <2>2 DEF NextQuestions
  <2> QED BY <1>1, <2>1, <2>2
      DEF Environment, OwnerMovesOn, ActivateReasoningSuccessor,
          StageCommitCompletesHandoff, Crash
<1>2. CASE UNCHANGED sagaVars
  BY <1>2 DEF sagaVars
<1> QED BY <1>1, <1>2, StepIsQuestionStep DEF NextSaga

(* What QuestionControl proves of prunes and restores that anybody may     *)
(* interleave holds of those that sagas drive.                             *)
THEOREM SagaDrivesQuestions == SpecSaga => SpecQuestions
  BY SagaHolds, SagaStepIsQuestionStep, PTL DEF SpecSaga, SpecQuestions, InitSaga

-----------------------------------------------------------------------------
(* The saga implements ControlOutcome                                      *)

Same(c) ==
  /\ NeededBy(c)' = NeededBy(c)
  /\ EffectsOf(c)' = EffectsOf(c)
  /\ OutcomeOf(c)' = OutcomeOf(c)

Mapped == [Outcome!NextOutcome]_(Outcome!outcomeVars)

(* The outcome of a command is read off its own rows only.                 *)
LEMMA RowSame ==
  ASSUME NEW c, kind'[c] = kind[c], arOps'[c] = arOps[c], aeOps'[c] = aeOps[c],
         reserved'[c] = reserved[c], c \in executions' <=> c \in executions
  PROVE  Same(c)
  BY DEF Same, NeededBy, EffectsOf, OutcomeOf, NeedsGraph, NeedsForeground

LEMMA MappedStutter ==
  ASSUME \A x \in Controls : Same(x)
  PROVE  Mapped
<1>1. /\ [c \in Controls |-> NeededBy(c)]' = [c \in Controls |-> NeededBy(c)]
      /\ [c \in Controls |-> EffectsOf(c)]' = [c \in Controls |-> EffectsOf(c)]
      /\ [c \in Controls |-> OutcomeOf(c)]' = [c \in Controls |-> OutcomeOf(c)]
  BY DEF Same
<1> QED BY <1>1 DEF Mapped, Outcome!outcomeVars

LEMMA MappedConfirm ==
  ASSUME NEW c \in Controls, \A x \in Controls \ {c} : Same(x),
         NeededBy(c) = {}, "runtime" \in NeededBy(c)',
         EffectsOf(c)' = EffectsOf(c), OutcomeOf(c)' = OutcomeOf(c)
  PROVE  Mapped
<1>1. NeededBy(c)' \in SUBSET Outcome!Owners
  BY DEF NeededBy, Outcome!Owners
<1>2. PICK N \in SUBSET Outcome!Owners : N = NeededBy(c)'
  BY <1>1
<1>3. /\ [x \in Controls |-> NeededBy(x)]' =
           [[x \in Controls |-> NeededBy(x)] EXCEPT ![c] = N]
      /\ [x \in Controls |-> EffectsOf(x)]' = [x \in Controls |-> EffectsOf(x)]
      /\ [x \in Controls |-> OutcomeOf(x)]' = [x \in Controls |-> OutcomeOf(x)]
  BY <1>2 DEF Same
<1>4. Outcome!Confirm(c)
  BY <1>2, <1>3 DEF Outcome!Confirm
<1> QED BY <1>4 DEF Mapped, Outcome!NextOutcome

LEMMA MappedAct ==
  ASSUME NEW c \in Controls, \A x \in Controls \ {c} : Same(x),
         NEW o \in {"runtime", "graph", "foreground"},
         NeededBy(c)' = NeededBy(c), OutcomeOf(c)' = OutcomeOf(c),
         o \in NeededBy(c) \ EffectsOf(c), EffectsOf(c)' = EffectsOf(c) \cup {o},
         o = "graph" => "runtime" \in EffectsOf(c),
         o = "foreground" => NeededBy(c) \ {"foreground"} \subseteq EffectsOf(c),
         o = "runtime" \/ OutcomeOf(c) = "undecided",
         OutcomeOf(c) # "executed"
  PROVE  Mapped
<1>1. /\ [x \in Controls |-> NeededBy(x)]' = [x \in Controls |-> NeededBy(x)]
      /\ [x \in Controls |-> EffectsOf(x)]' =
           [[x \in Controls |-> EffectsOf(x)] EXCEPT ![c] = EffectsOf(c) \cup {o}]
      /\ [x \in Controls |-> OutcomeOf(x)]' = [x \in Controls |-> OutcomeOf(x)]
  BY DEF Same
<1>2. Outcome!Before(c, o) \subseteq EffectsOf(c)
  BY DEF Outcome!Before
<1>3. Outcome!Act(c, o)
  BY <1>1, <1>2 DEF Outcome!Act
<1> QED BY <1>3 DEF Mapped, Outcome!NextOutcome, Outcome!Owners

LEMMA MappedExecute ==
  ASSUME NEW c \in Controls, \A x \in Controls \ {c} : Same(x),
         NeededBy(c)' = NeededBy(c), EffectsOf(c)' = EffectsOf(c),
         OutcomeOf(c) = "undecided", OutcomeOf(c)' = "executed",
         NeededBy(c) # {}, EffectsOf(c) = NeededBy(c)
  PROVE  Mapped
<1>1. /\ [x \in Controls |-> NeededBy(x)]' = [x \in Controls |-> NeededBy(x)]
      /\ [x \in Controls |-> EffectsOf(x)]' = [x \in Controls |-> EffectsOf(x)]
      /\ [x \in Controls |-> OutcomeOf(x)]' =
           [[x \in Controls |-> OutcomeOf(x)] EXCEPT ![c] = "executed"]
  BY DEF Same
<1>2. Outcome!Execute(c)
  BY <1>1 DEF Outcome!Execute
<1> QED BY <1>2 DEF Mapped, Outcome!NextOutcome

LEMMA MappedRefuse ==
  ASSUME NEW c \in Controls, \A x \in Controls \ {c} : Same(x),
         NeededBy(c)' = NeededBy(c), EffectsOf(c)' = EffectsOf(c),
         OutcomeOf(c) = "undecided", OutcomeOf(c)' = "refused",
         EffectsOf(c) \subseteq {"runtime"}
  PROVE  Mapped
<1>1. /\ [x \in Controls |-> NeededBy(x)]' = [x \in Controls |-> NeededBy(x)]
      /\ [x \in Controls |-> EffectsOf(x)]' = [x \in Controls |-> EffectsOf(x)]
      /\ [x \in Controls |-> OutcomeOf(x)]' =
           [[x \in Controls |-> OutcomeOf(x)] EXCEPT ![c] = "refused"]
  BY DEF Same
<1>2. Outcome!Refuse(c)
  BY <1>1 DEF Outcome!Refuse, Outcome!OnlyRuntimeActed
<1> QED BY <1>2 DEF Mapped, Outcome!NextOutcome

LEMMA MappedUndo ==
  ASSUME NEW c \in Controls, \A x \in Controls \ {c} : Same(x),
         NeededBy(c)' = NeededBy(c), OutcomeOf(c) # "executed",
         EffectsOf(c) = {"runtime"}, EffectsOf(c)' = {}, OutcomeOf(c)' = "refused"
  PROVE  Mapped
<1>1. /\ [x \in Controls |-> NeededBy(x)]' = [x \in Controls |-> NeededBy(x)]
      /\ [x \in Controls |-> EffectsOf(x)]' =
           [[x \in Controls |-> EffectsOf(x)] EXCEPT ![c] = {}]
      /\ [x \in Controls |-> OutcomeOf(x)]' =
           [[x \in Controls |-> OutcomeOf(x)] EXCEPT ![c] = "refused"]
  BY DEF Same
<1>2. Outcome!Undo(c)
  BY <1>1 DEF Outcome!Undo
<1> QED BY <1>2 DEF Mapped, Outcome!NextOutcome

-----------------------------------------------------------------------------
(* Which step of a driver maps to what                                     *)

(* A step of a driver maps to Act, Execute, Refuse or Undo of the command it*)
(* works on, or changes nothing a reader of the outcome sees.              *)

(* The receipt of HC is what makes a command executed.                     *)
LEMMA FinishMapped ==
  ASSUME SagaInvariant, NEW d \in Drivers, Finish(d)
  PROVE  Mapped
<1>1. PICK c \in Controls, t \in Seq(Names) :
        c = Cmd(d) /\ kind[c] # "none" /\ RowOK(c) /\ Placed("finish", c)
  BY AtWork DEF Finish, At
<1>2. /\ UNCHANGED <<kind, arOps, aeOps, reserved>>
      /\ executions' = executions \cup {c}
  BY <1>1, GraphStill DEF Finish, aeVars, arVars
<1>3. \A x \in Controls \ {c} : Same(x)
  BY <1>2, RowSame
<1>4. CASE c \in executions
  BY <1>2, <1>4, RowSame, MappedStutter
<1>5. CASE c \notin executions
  <2>1. /\ arOps[c] = "applied"
        /\ reserved[c] = IF NeedsGraph(c) THEN "applied" ELSE "none"
        /\ aeOps[c] = IF NeedsForeground(c) THEN "completed" ELSE "none"
    BY <1>1 DEF Placed, RowOK, OnlyNeededRows
  <2>2. OutcomeOf(c) = "undecided" /\ OutcomeOf(c)' = "executed"
    BY <1>2, <1>5, <2>1 DEF OutcomeOf, AbortedStatus
  <2>3. EffectsOf(c) = NeededBy(c) /\ NeededBy(c) # {}
    BY <1>1, <2>1 DEF EffectsOf, NeededBy
  <2>4. EffectsOf(c)' = EffectsOf(c) /\ NeededBy(c)' = NeededBy(c)
    BY <1>2 DEF EffectsOf, NeededBy, NeedsGraph, NeedsForeground
  <2> QED BY <1>3, <2>2, <2>3, <2>4, MappedExecute
<1> QED BY <1>4, <1>5

LEMMA PrepareForegroundMapped ==
  ASSUME SagaInvariant, NEW d \in Drivers, PrepareForeground(d)
  PROVE  Mapped
<1>1. PICK c \in Controls : c = Cmd(d) /\ AeTyped
  BY Working, SagaTyped DEF PrepareForeground, At, SagaInvariant
<1>2. UNCHANGED <<kind, arOps, reserved, executions>>
  BY GraphStill DEF PrepareForeground, hcVars, arVars
<1>3. CASE aeOps' = aeOps
  BY <1>2, <1>3, RowSame, MappedStutter
<1>4. CASE aeOps' # aeOps
  <2>1. /\ aeOps[c] = "none" /\ MayTakeForeground(kind[c])
        /\ \A o \in Controls : aeOps'[o] =
             IF o = c THEN "prepared" ELSE IF o = pending THEN "aborted" ELSE aeOps[o]
    BY <1>1, <1>4 DEF PrepareForeground, aeVars
  <2>2. Same(c)
    BY <1>1, <1>2, <2>1
       DEF Same, NeededBy, EffectsOf, OutcomeOf, NeedsGraph, NeedsForeground, AbortedStatus
  <2>3. \A x \in Controls \ {c, pending} : Same(x)
    BY <1>2, <2>1, RowSame
  <2>4. CASE pending = NoControl
    BY <2>2, <2>3, <2>4, TreeAssumption, MappedStutter
  <2>5. CASE pending # NoControl
    <3>1. PICK p \in Controls : p = pending
      BY <1>1, <2>5 DEF AeTyped
    <3>2. RowOK(p) /\ aeOps[p] = "handoff_pending" /\ p # c
      BY <2>1, <2>5, <3>1 DEF MayTakeForeground, SagaInvariant, RowsOK
    <3>3. kind[p] = "normal_switch" /\ arOps[p] = "applied"
      BY <3>2 DEF RowOK, OwnersInOrder
    <3>4. ~NeedsGraph(p) /\ NeedsForeground(p)
      BY <3>3 DEF NeedsGraph, NeedsForeground, GraphKinds, RunKinds
    <3>5. reserved[p] = "none" /\ p \notin executions
      BY <3>2, <3>4 DEF RowOK, OnlyNeededRows, ExecutedInFull
    <3>6. aeOps'[p] = "aborted"
      BY <2>1, <3>1, <3>2
    <3>7. OutcomeOf(p) = "undecided" /\ OutcomeOf(p)' = "refused"
      BY <1>2, <3>2, <3>3, <3>5, <3>6 DEF OutcomeOf, AbortedStatus
    <3>8. /\ NeededBy(p)' = NeededBy(p) /\ EffectsOf(p)' = EffectsOf(p)
          /\ EffectsOf(p) \subseteq {"runtime"}
      BY <1>2, <3>2, <3>5, <3>6
         DEF NeededBy, EffectsOf, NeedsGraph, NeedsForeground
    <3>9. \A x \in Controls \ {p} : Same(x)
      BY <2>2, <2>3, <3>1
    <3> QED BY <3>7, <3>8, <3>9, MappedRefuse
  <2> QED BY <2>4, <2>5
<1> QED BY <1>3, <1>4

LEMMA PrepareGraphMapped ==
  ASSUME SagaInvariant, NEW d \in Drivers, PrepareGraph(d)
  PROVE  Mapped
<1>1. PICK c \in Controls : c = Cmd(d) /\ QuestionTypeOK
  BY Working, SagaTyped DEF PrepareGraph, At, SagaInvariant
<1>2. UNCHANGED <<kind, arOps, aeOps, executions>>
  BY DEF PrepareGraph, hcVars, arVars, aeVars
<1>3. CASE UNCHANGED questionVars
  BY <1>2, <1>3, GraphStill, RowSame, MappedStutter
<1>4. CASE PrepareQuestionControl(c)
  <2>1. /\ reserved[c] = "none" /\ reserved'[c] = "prepared"
        /\ \A x \in Controls \ {c} : reserved'[x] = reserved[x]
    BY <1>1, <1>4 DEF PrepareQuestionControl, MayReserve, QuestionTypeOK
  <2>2. Same(c)
    BY <1>2, <2>1 DEF Same, NeededBy, EffectsOf, OutcomeOf, NeedsGraph, NeedsForeground
  <2>3. \A x \in Controls \ {c} : Same(x)
    BY <1>2, <2>1, RowSame
  <2> QED BY <2>2, <2>3, MappedStutter
<1> QED BY <1>1, <1>3, <1>4 DEF PrepareGraph

LEMMA PrepareRuntimeMapped ==
  ASSUME SagaInvariant, NEW d \in Drivers, PrepareRuntime(d)
  PROVE  Mapped
<1>1. PICK c \in Controls : c = Cmd(d) /\ ArTyped
  BY Working, SagaTyped DEF PrepareRuntime, At, SagaInvariant
<1>2. UNCHANGED <<kind, reserved, aeOps, executions>>
  BY ArStill DEF PrepareRuntime
<1>3. CASE UNCHANGED arVars
  BY <1>2, <1>3, RowSame, MappedStutter DEF arVars
<1>4. CASE arOps[c] = "none" /\ arOps' = [arOps EXCEPT ![c] = "prepared"]
  <2>1. /\ arOps'[c] = "prepared"
        /\ \A x \in Controls \ {c} : arOps'[x] = arOps[x]
    BY <1>1, <1>4 DEF ArTyped
  <2>2. Same(c)
    BY <1>2, <1>4, <2>1 DEF Same, NeededBy, EffectsOf, OutcomeOf, NeedsGraph, NeedsForeground
  <2>3. \A x \in Controls \ {c} : Same(x)
    BY <1>2, <2>1, RowSame
  <2> QED BY <2>2, <2>3, MappedStutter
<1> QED BY <1>1, <1>3, <1>4 DEF PrepareRuntime

LEMMA ApplyRuntimeMapped ==
  ASSUME SagaInvariant, NEW d \in Drivers, ApplyRuntime(d)
  PROVE  Mapped
<1>1. PICK c \in Controls, t \in Seq(Names) : c = Cmd(d) /\ kind[c] # "none" /\ RowOK(c)
  BY AtWork DEF ApplyRuntime, At
<1>2. UNCHANGED <<kind, reserved, aeOps, executions>> /\ ArTyped
  BY SagaTyped, ArStill DEF ApplyRuntime, SagaInvariant
<1>3. CASE UNCHANGED arVars
  BY <1>2, <1>3, RowSame, MappedStutter DEF arVars
<1>4. CASE arOps[c] = "prepared" /\ arOps' = [arOps EXCEPT ![c] = "applied"]
  <2>1. /\ arOps'[c] = "applied"
        /\ \A x \in Controls \ {c} : arOps'[x] = arOps[x]
    BY <1>2, <1>4 DEF ArTyped
  <2>2. \A x \in Controls \ {c} : Same(x)
    BY <1>2, <2>1, RowSame
  <2>3. NeededBy(c)' = NeededBy(c) /\ OutcomeOf(c)' = OutcomeOf(c)
    BY <1>2, <1>4, <2>1 DEF NeededBy, OutcomeOf, NeedsGraph, NeedsForeground
  <2>4. "runtime" \in NeededBy(c) \ EffectsOf(c)
    BY <1>1, <1>4 DEF NeededBy, EffectsOf
  <2>5. EffectsOf(c)' = EffectsOf(c) \cup {"runtime"}
    BY <1>2, <2>1 DEF EffectsOf
  <2>6. OutcomeOf(c) # "executed"
    BY <1>1, <1>4 DEF OutcomeOf, RowOK, ExecutedInFull
  <2> QED BY <2>2, <2>3, <2>4, <2>5, <2>6, MappedAct
<1> QED BY <1>1, <1>3, <1>4 DEF ApplyRuntime

LEMMA ApplyGraphMapped ==
  ASSUME SagaInvariant, NEW d \in Drivers, ApplyGraph(d)
  PROVE  Mapped
<1>1. PICK c \in Controls, t \in Seq(Names) :
        c = Cmd(d) /\ kind[c] # "none" /\ RowOK(c) /\ Placed("graph", c)
  BY AtWork DEF ApplyGraph, At
<1>2. UNCHANGED <<kind, arOps, aeOps, executions>>
  BY DEF ApplyGraph, hcVars, arVars, aeVars
<1>3. CASE UNCHANGED questionVars
  BY <1>2, <1>3, GraphStill, RowSame, MappedStutter
<1>4. CASE ApplyQuestionControl(c)
  <2>1. NeedsGraph(c) /\ arOps[c] = "applied" /\ aeOps[c] = "prepared"
    BY <1>1, <1>4, AppliesWhenPrepared DEF Placed
  <2>2. /\ reserved[c] = "prepared" /\ reserved'[c] = "applied"
        /\ \A x \in Controls \ {c} : reserved'[x] = reserved[x]
    BY <1>4, ApplyChanges DEF SagaInvariant, Holds
  <2>3. \A x \in Controls \ {c} : Same(x)
    BY <1>2, <2>2, RowSame
  <2>4. c \notin executions
    BY <1>1, <2>1, <2>2 DEF RowOK, ExecutedInFull
  <2>5. OutcomeOf(c) = "undecided" /\ OutcomeOf(c)' = "undecided"
    BY <1>2, <2>1, <2>2, <2>4 DEF OutcomeOf, AbortedStatus
  <2>6. NeededBy(c)' = NeededBy(c) /\ "graph" \in NeededBy(c) \ EffectsOf(c)
        /\ "runtime" \in EffectsOf(c) /\ EffectsOf(c)' = EffectsOf(c) \cup {"graph"}
    BY <1>1, <1>2, <2>1, <2>2 DEF NeededBy, EffectsOf, NeedsGraph, NeedsForeground
  <2> QED BY <2>3, <2>5, <2>6, MappedAct
<1> QED BY <1>1, <1>3, <1>4 DEF ApplyGraph

(* The foreground acts last, at complete_foreground_control or at the      *)
(* Stage commit that a normal switch waited for.                           *)
LEMMA ForegroundActs ==
  ASSUME SagaInvariant, NEW c \in Controls, kind[c] # "none", NeedsForeground(c),
         pending = c, arOps[c] = "applied", NeedsGraph(c) => reserved[c] = "applied",
         EndsAtHead(c), ~TargetGone(c),
         UNCHANGED <<kind, arOps, reserved, executions>>
  PROVE  Mapped
<1>1. RowOK(c) /\ AeTyped /\ aeOps' = [aeOps EXCEPT ![c] = "completed"]
  BY SagaTyped DEF SagaInvariant, RowsOK, EndsAtHead
<1>2. aeOps[c] \in {"prepared", "handoff_pending"} /\ c \notin executions
  BY <1>1 DEF RowOK, OwnersInOrder, ExecutedInFull
<1>3. aeOps'[c] = "completed" /\ \A x \in Controls \ {c} : aeOps'[x] = aeOps[x]
  BY <1>1 DEF AeTyped
<1>4. \A x \in Controls \ {c} : Same(x)
  BY <1>3, RowSame
<1>5. reserved[c] # "aborted"
  BY <1>1 DEF RowOK, OnlyNeededRows
<1>6. OutcomeOf(c) = "undecided" /\ OutcomeOf(c)' = "undecided"
  BY <1>2, <1>3, <1>5 DEF OutcomeOf, AbortedStatus
<1>7. /\ NeededBy(c)' = NeededBy(c)
      /\ "foreground" \in NeededBy(c) \ EffectsOf(c)
      /\ EffectsOf(c)' = EffectsOf(c) \cup {"foreground"}
      /\ NeededBy(c) \ {"foreground"} \subseteq EffectsOf(c)
  BY <1>2, <1>3 DEF NeededBy, EffectsOf, NeedsGraph, NeedsForeground
<1> QED BY <1>4, <1>6, <1>7, MappedAct

(* An Owner that releases decides the command, unless it is decided.       *)
LEMMA ReleaseMapped ==
  ASSUME NEW c \in Controls, \A x \in Controls \ {c} : Same(x),
         NeededBy(c)' = NeededBy(c), EffectsOf(c)' = EffectsOf(c),
         OutcomeOf(c) # "executed", OutcomeOf(c)' = "refused",
         EffectsOf(c) \subseteq {"runtime"}
  PROVE  Mapped
<1>1. CASE OutcomeOf(c) = "undecided"
  BY <1>1, MappedRefuse
<1>2. CASE OutcomeOf(c) = "refused"
  BY <1>2, MappedStutter DEF Same
<1> QED BY <1>1, <1>2 DEF OutcomeOf

(* A switch whose target is gone is refused: only the runtime has acted.   *)
LEMMA ForegroundRefuses ==
  ASSUME SagaInvariant, NEW c \in Controls, pending = c,
         EndsAtHead(c), TargetGone(c),
         UNCHANGED <<kind, arOps, reserved, executions>>
  PROVE  Mapped
<1>1. RowOK(c) /\ AeTyped /\ aeOps' = [aeOps EXCEPT ![c] = "invalidated"]
  BY SagaTyped DEF SagaInvariant, RowsOK, EndsAtHead
<1>2. ~NeedsGraph(c) /\ NeedsForeground(c)
  BY DEF TargetGone, NeedsGraph, NeedsForeground, GraphKinds, SwitchKinds, RunKinds
<1>3. /\ aeOps[c] \in {"prepared", "handoff_pending"} /\ c \notin executions
      /\ reserved[c] = "none"
  BY <1>1, <1>2 DEF RowOK, OnlyNeededRows, OwnersInOrder, ExecutedInFull
<1>4. aeOps'[c] = "invalidated" /\ \A x \in Controls \ {c} : aeOps'[x] = aeOps[x]
  BY <1>1 DEF AeTyped
<1>5. \A x \in Controls \ {c} : Same(x)
  BY <1>4, RowSame
<1>6. OutcomeOf(c) # "executed" /\ OutcomeOf(c)' = "refused"
  BY <1>3, <1>4 DEF OutcomeOf, AbortedStatus
<1>7. /\ NeededBy(c)' = NeededBy(c) /\ EffectsOf(c)' = EffectsOf(c)
      /\ EffectsOf(c) \subseteq {"runtime"}
  BY <1>3, <1>4 DEF NeededBy, EffectsOf, NeedsGraph, NeedsForeground
<1> QED BY <1>5, <1>6, <1>7, ReleaseMapped

LEMMA CompleteForegroundMapped ==
  ASSUME SagaInvariant, NEW d \in Drivers, CompleteForeground(d)
  PROVE  Mapped
<1>1. PICK c \in Controls, t \in Seq(Names) :
        c = Cmd(d) /\ kind[c] # "none" /\ RowOK(c) /\ Placed("complete", c)
  BY AtWork DEF CompleteForeground, At
<1>2. UNCHANGED <<kind, arOps, reserved, executions>> /\ AeTyped
  BY SagaTyped, GraphStill DEF CompleteForeground, hcVars, arVars, SagaInvariant
<1>3. CASE UNCHANGED aeVars
  BY <1>2, <1>3, RowSame, MappedStutter DEF aeVars
<1>4. CASE MayComplete(c) /\ aeOps[c] # "completed" /\ EndsAtHead(c)
  BY <1>1, <1>2, <1>4, ForegroundActs, ForegroundRefuses DEF Placed, MayComplete
<1>5. CASE MayComplete(c) /\ aeOps[c] # "completed"
           /\ aeOps' = [aeOps EXCEPT ![c] = "handoff_pending"]
  <2>1. /\ aeOps[c] \in {"prepared", "handoff_pending"} /\ aeOps'[c] = "handoff_pending"
        /\ \A x \in Controls \ {c} : aeOps'[x] = aeOps[x]
    BY <1>1, <1>2, <1>5 DEF MayComplete, AeTyped, RowOK, OwnersInOrder
  <2>2. Same(c)
    BY <1>2, <2>1
       DEF Same, NeededBy, EffectsOf, OutcomeOf, NeedsGraph, NeedsForeground, AbortedStatus
  <2>3. \A x \in Controls \ {c} : Same(x)
    BY <1>2, <2>1, RowSame
  <2> QED BY <2>2, <2>3, MappedStutter
<1> QED BY <1>1, <1>3, <1>4, <1>5 DEF CompleteForeground

LEMMA ReleaseGraphMapped ==
  ASSUME SagaInvariant, NEW d \in Drivers, ReleaseGraph(d)
  PROVE  Mapped
<1>1. PICK c \in Controls, t \in Seq(Names) : c = Cmd(d) /\ kind[c] # "none" /\ RowOK(c)
  BY AtWork DEF ReleaseGraph, Due, At
<1>2. UNCHANGED <<kind, arOps, aeOps, executions>>
  BY DEF ReleaseGraph, hcVars, arVars, aeVars
<1>3. CASE UNCHANGED questionVars
  BY <1>2, <1>3, GraphStill, RowSame, MappedStutter
<1>4. CASE AbortQuestionControl(c)
  <2>1. /\ reserved[c] # "applied"
        /\ \A x \in Controls \ {c} : reserved'[x] = reserved[x]
        /\ reserved'[c] = IF reserved[c] = "none" THEN "none" ELSE "aborted"
    BY <1>4, AbortIsQuestionStep DEF AbortQuestionControl
  <2>2. \A x \in Controls \ {c} : Same(x)
    BY <1>2, <2>1, RowSame
  <2>3. CASE reserved[c] = "none"
    BY <1>2, <2>1, <2>2, <2>3, RowSame, MappedStutter
  <2>4. CASE reserved[c] # "none"
    <3>1. NeedsGraph(c) /\ c \notin executions /\ aeOps[c] # "completed"
      BY <1>1, <2>1, <2>4 DEF RowOK, OnlyNeededRows, ExecutedInFull, OwnersInOrder
    <3>2. OutcomeOf(c) # "executed" /\ OutcomeOf(c)' = "refused"
      BY <1>2, <2>1, <2>4, <3>1 DEF OutcomeOf
    <3>3. /\ NeededBy(c)' = NeededBy(c) /\ EffectsOf(c)' = EffectsOf(c)
          /\ EffectsOf(c) \subseteq {"runtime"}
      BY <1>2, <2>1, <2>4, <3>1 DEF NeededBy, EffectsOf, NeedsGraph, NeedsForeground
    <3> QED BY <2>2, <3>2, <3>3, ReleaseMapped
  <2> QED BY <2>3, <2>4
<1> QED BY <1>1, <1>3, <1>4 DEF ReleaseGraph

LEMMA ReleaseRuntimeMapped ==
  ASSUME SagaInvariant, NEW d \in Drivers, ReleaseRuntime(d)
  PROVE  Mapped
<1>1. PICK c \in Controls, t \in Seq(Names) : c = Cmd(d) /\ kind[c] # "none" /\ RowOK(c)
  BY AtWork DEF ReleaseRuntime, Due, At
<1>2. UNCHANGED <<kind, reserved, aeOps, executions>> /\ ArTyped
  BY SagaTyped, ArStill DEF ReleaseRuntime, SagaInvariant
<1>3. CASE arOps' = arOps
  BY <1>2, <1>3, RowSame, MappedStutter
<1>4. CASE arOps' # arOps
  <2>1. arOps[c] = "prepared" /\ arOps' = [arOps EXCEPT ![c] = "aborted"]
    <3>1. arOps' = [arOps EXCEPT ![c] = IF arOps[c] = "prepared" THEN "aborted" ELSE arOps[c]]
      BY <1>1, <1>4 DEF ReleaseRuntime
    <3>2. arOps[c] = "prepared"
      BY <1>2, <1>4, <3>1 DEF ArTyped
    <3> QED BY <3>1, <3>2
  <2>2. /\ arOps'[c] = "aborted"
        /\ \A x \in Controls \ {c} : arOps'[x] = arOps[x]
    BY <1>2, <2>1 DEF ArTyped
  <2>3. \A x \in Controls \ {c} : Same(x)
    BY <1>2, <2>2, RowSame
  <2>4. c \notin executions /\ reserved[c] # "applied" /\ aeOps[c] # "completed"
    BY <1>1, <2>1 DEF RowOK, ExecutedInFull, OwnersInOrder
  <2>5. OutcomeOf(c) # "executed" /\ OutcomeOf(c)' = "refused"
    BY <1>2, <2>2, <2>4 DEF OutcomeOf
  <2>6. /\ NeededBy(c)' = NeededBy(c) /\ EffectsOf(c)' = EffectsOf(c)
        /\ EffectsOf(c) \subseteq {"runtime"}
    BY <1>2, <2>1, <2>2, <2>4 DEF NeededBy, EffectsOf, NeedsGraph, NeedsForeground
  <2> QED BY <2>3, <2>5, <2>6, ReleaseMapped
<1> QED BY <1>3, <1>4

LEMMA ReleaseForegroundMapped ==
  ASSUME SagaInvariant, NEW d \in Drivers, ReleaseForeground(d)
  PROVE  Mapped
<1>1. PICK c \in Controls, t \in Seq(Names) :
        /\ c = Cmd(d) /\ t = driver[d].todo /\ kind[c] # "none" /\ RowOK(c)
        /\ Unwinding(t, c)
  BY AtWork DEF ReleaseForeground, Due, At
<1>2. UNCHANGED <<kind, arOps, reserved, executions>> /\ AeTyped
  BY SagaTyped, GraphStill DEF ReleaseForeground, hcVars, arVars, SagaInvariant
<1>3. CASE aeOps' = aeOps
  BY <1>2, <1>3, RowSame, MappedStutter
<1>4. CASE aeOps' # aeOps
  <2>1. /\ aeOps[c] \in {"prepared", "handoff_pending"}
        /\ aeOps' = [aeOps EXCEPT ![c] = "aborted"]
    <3>1. aeOps' = [aeOps EXCEPT ![c] =
                      IF aeOps[c] \in {"prepared", "handoff_pending"}
                      THEN "aborted" ELSE aeOps[c]]
      BY <1>1, <1>4 DEF ReleaseForeground, aeVars
    <3>2. aeOps[c] \in {"prepared", "handoff_pending"}
      BY <1>2, <1>4, <3>1 DEF AeTyped
    <3> QED BY <3>1, <3>2
  <2>2. /\ aeOps'[c] = "aborted"
        /\ \A x \in Controls \ {c} : aeOps'[x] = aeOps[x]
    BY <1>2, <2>1 DEF AeTyped
  <2>3. \A x \in Controls \ {c} : Same(x)
    BY <1>2, <2>2, RowSame
  <2>4. NeedsForeground(c) /\ (NeedsGraph(c) => GraphReleased(c))
    <3>1. t # <<>> /\ Head(t) = "ae"
      BY <1>1 DEF ReleaseForeground, Due
    <3> QED BY <1>1, <2>1, <3>1 DEF Unwinding, ForegroundLost, AbortedStatus
  <2>5. c \notin executions /\ reserved[c] # "applied"
    BY <1>1, <2>1, <2>4 DEF RowOK, ExecutedInFull, OnlyNeededRows, GraphReleased
  <2>6. OutcomeOf(c) # "executed" /\ OutcomeOf(c)' = "refused"
    BY <1>2, <2>2, <2>5 DEF OutcomeOf, AbortedStatus
  <2>7. /\ NeededBy(c)' = NeededBy(c) /\ EffectsOf(c)' = EffectsOf(c)
        /\ EffectsOf(c) \subseteq {"runtime"}
    BY <1>2, <2>1, <2>2, <2>5 DEF NeededBy, EffectsOf, NeedsGraph, NeedsForeground
  <2> QED BY <2>3, <2>6, <2>7, ReleaseMapped
<1> QED BY <1>3, <1>4

LEMMA CompensateRuntimeMapped ==
  ASSUME SagaInvariant, NEW d \in Drivers, CompensateRuntime(d)
  PROVE  Mapped
<1>1. PICK c \in Controls, t \in Seq(Names) :
        /\ c = Cmd(d) /\ t = driver[d].todo /\ kind[c] # "none" /\ RowOK(c)
        /\ Unwinding(t, c)
  BY AtWork DEF CompensateRuntime, Due, At
<1>2. UNCHANGED <<kind, reserved, aeOps, executions>> /\ ArTyped
  BY SagaTyped, ArStill DEF CompensateRuntime, SagaInvariant
<1>3. ((NeedsGraph(c) /\ GraphLost(c)) \/ Invalidated(c)) /\ RuntimeActed(c)
  <2>1. t # <<>> /\ Head(t) = "comp"
    BY <1>1 DEF CompensateRuntime, Due
  <2> QED BY <1>1, <2>1 DEF Unwinding
<1>4. /\ arOps'[c] = "compensated"
      /\ \A x \in Controls \ {c} : arOps'[x] = arOps[x]
  BY <1>1, <1>2 DEF CompensateRuntime, ArTyped
<1>5. \A x \in Controls \ {c} : Same(x)
  BY <1>2, <1>4, RowSame
<1>6. CASE arOps[c] = "compensated"
  BY <1>2, <1>4, <1>5, <1>6, RowSame, MappedStutter
<1>7. CASE arOps[c] = "applied"
  <2>1. c \notin executions /\ reserved[c] # "applied" /\ aeOps[c] # "completed"
    <3>1. CASE NeedsGraph(c) /\ GraphLost(c)
      BY <1>1, <3>1 DEF RowOK, ExecutedInFull, OwnersInOrder, GraphLost
    <3>2. CASE Invalidated(c)
      BY <1>1, <3>2
         DEF RowOK, OnlyNeededRows, ExecutedInFull, Invalidated, NeedsGraph,
             NeedsForeground, GraphKinds, SwitchKinds, RunKinds
    <3> QED BY <1>3, <3>1, <3>2
  <2>2. OutcomeOf(c) # "executed" /\ OutcomeOf(c)' = "refused"
    BY <1>2, <1>4, <2>1 DEF OutcomeOf
  <2>3. /\ NeededBy(c)' = NeededBy(c)
        /\ EffectsOf(c) = {"runtime"} /\ EffectsOf(c)' = {}
    BY <1>2, <1>4, <1>7, <2>1 DEF NeededBy, EffectsOf, NeedsGraph, NeedsForeground
  <2> QED BY <1>5, <2>2, <2>3, MappedUndo
<1> QED BY <1>3, <1>6, <1>7 DEF RuntimeActed

(* Each step of a driver is a step of the abstract command or a stutter.   *)
LEMMA StepMapped ==
  ASSUME SagaInvariant, NEW d \in Drivers, Step(d)
  PROVE  Mapped
<1>1. CASE \/ \E c \in Controls : Start(d, c) \/ StartExecuted(d, c) \/ StartCompensated(d, c)
           \/ EnsureSaga(d) \/ MarkProgress(d) \/ VerifyRuntimeReceipt(d)
           \/ CannotCompensate(d) \/ MarkCompensated(d) \/ MarkAborted(d)
  <2>1. UNCHANGED <<questionVars, kind, executions, aeVars, arVars>>
    BY <1>1 DEF Start, StartExecuted, StartCompensated, EnsureSaga, MarkProgress,
                VerifyRuntimeReceipt, CannotCompensate, MarkCompensated, MarkAborted,
                hcVars
  <2>2. UNCHANGED <<kind, arOps, aeOps, reserved, executions>>
    BY <2>1, GraphStill DEF aeVars, arVars
  <2> QED BY <2>2, RowSame, MappedStutter
<1> QED BY <1>1, PrepareForegroundMapped, PrepareGraphMapped, PrepareRuntimeMapped,
        ApplyRuntimeMapped, ApplyGraphMapped, CompleteForegroundMapped, FinishMapped,
        ReleaseGraphMapped, ReleaseRuntimeMapped, ReleaseForegroundMapped,
        CompensateRuntimeMapped DEF Step

(* So is each step of the human and of the Owners themselves.              *)
LEMMA EnvironmentMapped ==
  ASSUME SagaInvariant, Environment
  PROVE  Mapped
<1>1. ASSUME NEW c \in Controls, Confirm(c) PROVE Mapped
  <2>1. PICK k \in Kinds, q \in Questions : Asked(c, k, q)
    BY <1>1, ConfirmAsks
  <2>2. HcTyped
    BY SagaTyped DEF SagaInvariant
  <2>3. /\ kind[c] = "none" /\ kind'[c] = k /\ k # "none"
        /\ \A x \in Controls \ {c} : kind'[x] = kind[x]
        /\ UNCHANGED <<executions, aeOps, arOps, reserved>>
    BY <2>1, <2>2, SagaAssumption
       DEF Asked, Confirmed, HcTyped, GraphKinds, SwitchKinds, CycleKinds, RunKinds
  <2>4. \A x \in Controls \ {c} : Same(x)
    BY <2>3, RowSame
  <2>5. /\ NeededBy(c) = {} /\ "runtime" \in NeededBy(c)'
        /\ EffectsOf(c)' = EffectsOf(c) /\ OutcomeOf(c)' = OutcomeOf(c)
    BY <2>3 DEF NeededBy, EffectsOf, OutcomeOf
  <2> QED BY <2>4, <2>5, MappedConfirm
<1>2. ASSUME NEW c \in Controls, StageCommitCompletesHandoff(c) PROVE Mapped
  <2>1. RowOK(c)
    BY DEF SagaInvariant, RowsOK
  <2>2. UNCHANGED <<kind, arOps, reserved, executions>>
    BY <1>2, GraphStill DEF StageCommitCompletesHandoff, hcVars, arVars
  <2>3. CASE TargetGone(c)
    BY <1>2, <2>2, <2>3, ForegroundRefuses DEF StageCommitCompletesHandoff
  <2>4. CASE ~TargetGone(c)
    BY <1>2, <2>1, <2>2, <2>4, ForegroundActs
       DEF StageCommitCompletesHandoff, RowOK, OnlyNeededRows, OwnersInOrder
  <2> QED BY <2>3, <2>4
<1>3. CASE OwnerMovesOn \/ ActivateReasoningSuccessor \/ Crash
  <2>1. UNCHANGED <<kind, arOps, aeOps, reserved, executions>>
    BY <1>3, GraphStill
       DEF OwnerMovesOn, OwnerMoves, ActivateReasoningSuccessor, Crash, hcVars, aeVars,
           arVars
  <2> QED BY <2>1, RowSame, MappedStutter
<1>4. CASE Growth /\ UNCHANGED <<hcVars, aeVars, arVars, driver>>
  <2>1. UNCHANGED <<kind, arOps, aeOps, reserved, executions>>
    BY <1>4 DEF hcVars, aeVars, arVars, Growth, CheckManualParent, AcceptManualQuestion,
                AcceptAutonomousQuestion, OtherGraphWrite, controlVars
  <2> QED BY <2>1, RowSame, MappedStutter
<1> QED BY <1>1, <1>2, <1>3, <1>4 DEF Environment

LEMMA SagaSteps == SpecSaga => [][Outcome!NextOutcome]_(Outcome!outcomeVars)
<1>1. SagaInvariant /\ [NextSaga]_sagaVars => [Outcome!NextOutcome]_(Outcome!outcomeVars)
  <2> SUFFICES ASSUME SagaInvariant, [NextSaga]_sagaVars PROVE Mapped
    BY DEF Mapped
  <2>1. CASE UNCHANGED sagaVars
    <3>1. UNCHANGED <<questionVars, kind, arOps, aeOps, executions>>
      BY <2>1 DEF sagaVars, hcVars, aeVars, arVars
    <3>2. UNCHANGED <<kind, arOps, aeOps, reserved, executions>>
      BY <3>1, GraphStill
    <3> QED BY <3>2, RowSame, MappedStutter
  <2> QED BY <2>1, StepMapped, EnvironmentMapped DEF NextSaga
<1> QED BY <1>1, SagaHolds, PTL DEF SpecSaga

(* Every command is confirmed, carried out by its Owners in their order    *)
(* and executed or refused as ControlOutcome promises: for every set of    *)
(* commands, every number of drivers, and crashes anywhere.                *)
THEOREM SagaImplementsOutcome == SpecSaga => ImplementsOutcome
<1>1. InitSaga => Outcome!InitOutcome
  <2> SUFFICES ASSUME InitSaga PROVE Outcome!InitOutcome
    OBVIOUS
  <2>1. \A c \in Controls :
          NeededBy(c) = {} /\ EffectsOf(c) = {} /\ OutcomeOf(c) = "undecided"
    BY DEF InitSaga, InitQuestions, NeededBy, EffectsOf, OutcomeOf, AbortedStatus
  <2> QED BY <2>1 DEF Outcome!InitOutcome
<1> QED BY <1>1, SagaSteps, PTL DEF SpecSaga, ImplementsOutcome, Outcome!SpecOutcome

(* An executed command shows the effect of every Owner it needs; a refused *)
(* one shows neither the graph's nor the foreground's.                     *)
THEOREM CommandsAllOrNothing == SpecSaga => []Outcome!AllOrNothing
<1>1. SagaInvariant => Outcome!AllOrNothing
  <2> SUFFICES ASSUME SagaInvariant, NEW c \in Controls
               PROVE  /\ OutcomeOf(c) = "executed" => EffectsOf(c) = NeededBy(c)
                      /\ OutcomeOf(c) = "refused" => EffectsOf(c) \subseteq {"runtime"}
    BY DEF Outcome!AllOrNothing, Outcome!OnlyRuntimeActed
  <2>1. RowOK(c)
    BY DEF SagaInvariant, RowsOK
  <2>2. NeedsGraph(c) => kind[c] \notin SwitchKinds /\ NeedsForeground(c)
    BY DEF NeedsGraph, NeedsForeground, GraphKinds, SwitchKinds, RunKinds
  <2>3. CASE c \in executions
    <3>1. kind[c] # "none" /\ OutcomeOf(c) = "executed"
      BY <2>1, <2>3 DEF OutcomeOf, RowOK, OnlyNeededRows
    <3> QED BY <2>1, <2>3, <3>1
        DEF EffectsOf, NeededBy, RowOK, ExecutedInFull, OnlyNeededRows
  <2>4. CASE c \notin executions
    <3>1. OutcomeOf(c) # "executed"
      BY <2>4 DEF OutcomeOf
    <3>2. ASSUME OutcomeOf(c) = "refused"
          PROVE  reserved[c] # "applied" /\ aeOps[c] # "completed"
      <4>1. \/ arOps[c] \in {"aborted", "compensated"}
            \/ reserved[c] = "aborted" \/ aeOps[c] \in AbortedStatus
        BY <2>4, <3>2 DEF OutcomeOf
      <4>2. CASE arOps[c] \in {"aborted", "compensated"}
        BY <2>1, <4>2 DEF RowOK, OwnersInOrder
      <4>3. CASE reserved[c] = "aborted"
        BY <2>1, <4>3 DEF RowOK, OwnersInOrder, OnlyNeededRows
      <4>4. CASE aeOps[c] \in AbortedStatus
        BY <2>1, <2>2, <4>4
           DEF RowOK, OwnersInOrder, OnlyNeededRows, ReleasedForGood, GraphReleased,
               AbortedStatus
      <4> QED BY <4>1, <4>2, <4>3, <4>4
    <3> QED BY <3>1, <3>2 DEF EffectsOf
  <2> QED BY <2>3, <2>4
<1> QED BY <1>1, SagaHolds, PTL

(* Once a command is executed or refused, no driver, retry or crash decides*)
(* it the other way.                                                       *)
THEOREM CommandsDecidedOnce == SpecSaga => Outcome!DecidedOnce
<1>1. [Outcome!NextOutcome]_(Outcome!outcomeVars) =>
        [Outcome!KeepsDecisions]_(Outcome!outcomeVars)
  <2> DEFINE outcomes == [c \in Controls |-> OutcomeOf(c)]
  <2> SUFFICES ASSUME Outcome!NextOutcome, NEW c \in Controls,
                      outcomes[c] # "undecided"
               PROVE  outcomes'[c] = outcomes[c]
    BY DEF Outcome!KeepsDecisions
  <2>1. outcomes[c] \in {"executed", "refused"}
    BY DEF OutcomeOf
  <2>2. PICK x \in Controls :
          \/ outcomes' = outcomes
          \/ /\ outcomes[x] = "undecided"
             /\ \E v : outcomes' = [outcomes EXCEPT ![x] = v]
          \/ outcomes[x] # "executed" /\ outcomes' = [outcomes EXCEPT ![x] = "refused"]
    BY DEF Outcome!NextOutcome, Outcome!Confirm, Outcome!Act, Outcome!Execute,
           Outcome!Refuse, Outcome!Undo
  <2> QED BY <2>1, <2>2
<1> QED BY <1>1, SagaSteps, PTL DEF Outcome!DecidedOnce

=============================================================================
