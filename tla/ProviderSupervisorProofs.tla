---------------------- MODULE ProviderSupervisorProofs ----------------------
(***************************************************************************)
(* Proofs about ProviderSupervisor, for every number of supervisors.       *)
(***************************************************************************)
EXTENDS ProviderSupervisor, FiniteSetTheorems, TLAPS

-----------------------------------------------------------------------------
(* The invariant                                                           *)

(* Who may have started a provider, or is about to, holds the lock.        *)
LockHeld ==
  \A s \in Supervisors :
    sup[s] \in {"ready", "spawned", "watching", "closing", "sealing"} => lock = s

(* The ready marker names the only supervisor that ever starts a provider. *)
ReadyNames ==
  /\ \A s \in Supervisors :
       sup[s] \in {"ready", "spawned", "watching", "closing"} \/ provider[s] # "none" =>
         ready = s
  /\ ready # NoOne => ready \in Launched

(* A provider runs below a supervisor that watches it, or below nobody.     *)
ProviderPlaces ==
  \A s \in Supervisors :
    /\ sup[s] \in {"new", "starting", "queued", "ready", "unknown", "sealing"} =>
         provider[s] = "none"
    /\ At(s, "closing") => provider[s] # "running"

(* While an interruption is being sealed nothing runs.                     *)
SealingAlone == \A s \in Supervisors : At(s, "sealing") => Running = {}

(* What the daemon has seen when it waits, verifies or scans.              *)
DaemonSaw ==
  /\ stopper.over \subseteq Launched
  /\ stopper.pc \in {"waiting", "verify"} => ready # NoOne
  /\ stopper.pc = "verify" => ~Alive(ready)

(* Only a supervisor that published seals, or one that finds its traces.   *)
MarkersOrder ==
  /\ started # NoOne \/ sealed => ready # NoOne
  /\ \A s \in Supervisors : sup[s] \in {"unknown", "sealing"} => started # NoOne

StoppedAreSilent == \A s \in stopped : ready # NoOne /\ Silent(s)

UnstartedAreGone == \A s \in unstarted : At(s, "gone")

SupervisorInvariant ==
  /\ SupervisorTypeOK
  /\ LockHeld
  /\ ReadyNames
  /\ ProviderPlaces
  /\ SealingAlone
  /\ SealedIsOver
  /\ DaemonSaw
  /\ MarkersOrder
  /\ StoppedAreSilent
  /\ UnstartedAreGone

LEMMA SupervisorInit == InitSupervisor => SupervisorInvariant
<1> SUFFICES ASSUME InitSupervisor PROVE SupervisorInvariant
  OBVIOUS
<1> USE DEF InitSupervisor
<1>1. SupervisorTypeOK
  BY DEF SupervisorTypeOK
<1>2. LockHeld /\ ReadyNames /\ ProviderPlaces
  BY DEF LockHeld, ReadyNames, ProviderPlaces, At
<1>3. SealingAlone /\ SealedIsOver
  BY DEF SealingAlone, SealedIsOver, Running, At
<1>4. DaemonSaw /\ MarkersOrder /\ StoppedAreSilent /\ UnstartedAreGone
  BY DEF DaemonSaw, MarkersOrder, At, StoppedAreSilent, UnstartedAreGone
<1> QED BY <1>1, <1>2, <1>3, <1>4 DEF SupervisorInvariant

-----------------------------------------------------------------------------
(* Types                                                                   *)

LEMMA TypeStep ==
  SupervisorTypeOK /\ [NextSupervisor]_supervisorVars => SupervisorTypeOK'
<1> SUFFICES ASSUME SupervisorTypeOK, [NextSupervisor]_supervisorVars
             PROVE  SupervisorTypeOK'
  OBVIOUS
<1> USE DEF SupervisorTypeOK, files, processes, daemon, Goes, Exits
<1>1. ASSUME NEW s \in Supervisors, Launch(s) PROVE SupervisorTypeOK'
  BY <1>1 DEF Launch
<1>2. ASSUME NEW s \in Supervisors, InstallHandlers(s) PROVE SupervisorTypeOK'
  BY <1>2 DEF InstallHandlers
<1>3. ASSUME NEW s \in Supervisors, PublishReady(s) PROVE SupervisorTypeOK'
  BY <1>3 DEF PublishReady
<1>4. ASSUME NEW s \in Supervisors, GiveWay(s) PROVE SupervisorTypeOK'
  BY <1>4 DEF GiveWay
<1>5. ASSUME NEW s \in Supervisors, StartProvider(s) PROVE SupervisorTypeOK'
  BY <1>5 DEF StartProvider
<1>6. ASSUME NEW s \in Supervisors, StartNothing(s) PROVE SupervisorTypeOK'
  BY <1>6 DEF StartNothing
<1>7. ASSUME NEW s \in Supervisors, MarkStarted(s) PROVE SupervisorTypeOK'
  BY <1>7 DEF MarkStarted
<1>8. ASSUME NEW s \in Supervisors, EndProvider(s) PROVE SupervisorTypeOK'
  BY <1>8 DEF EndProvider
<1>9. ASSUME NEW s \in Supervisors, SealReceipt(s) PROVE SupervisorTypeOK'
  BY <1>9 DEF SealReceipt
<1>10. ASSUME NEW s \in Supervisors, FailSupervisor(s) PROVE SupervisorTypeOK'
  BY <1>10 DEF FailSupervisor
<1>11. ASSUME NEW s \in Supervisors, ProveAbsent(s) PROVE SupervisorTypeOK'
  BY <1>11 DEF ProveAbsent
<1>12. ASSUME NEW s \in Supervisors, SealInterruption(s) PROVE SupervisorTypeOK'
  BY <1>12 DEF SealInterruption
<1>13. ASSUME NEW s \in Supervisors, ProviderEnds(s) PROVE SupervisorTypeOK'
  BY <1>13 DEF ProviderEnds
<1>14. ASSUME NEW s \in Supervisors, Kill(s) PROVE SupervisorTypeOK'
  BY <1>14 DEF Kill
<1>15. ASSUME NEW s \in Supervisors, Terminate(s) PROVE SupervisorTypeOK'
  BY <1>15 DEF Terminate
<1>16. CASE RequestStop
  BY <1>16 DEF RequestStop, Checks, Launched
<1>24. CASE FindReceipt
  BY <1>24 DEF FindReceipt, Launched
<1>17. CASE SeeReceipt
  BY <1>17 DEF SeeReceipt, Believe, Idle
<1>18. CASE StopTimesOut
  BY <1>18 DEF StopTimesOut, Idle
<1>19. CASE VerifyAbsent
  BY <1>19 DEF VerifyAbsent, Believe, Idle
<1>20. CASE FindNoMarker
  BY <1>20 DEF FindNoMarker, Checks, Launched
<1>21. CASE ScanProcesses
  BY <1>21 DEF ScanProcesses, Idle
<1>22. CASE DaemonDies
  BY <1>22 DEF DaemonDies, Idle
<1>23. CASE UNCHANGED supervisorVars
  BY <1>23 DEF supervisorVars
<1> QED
  BY <1>1, <1>2, <1>3, <1>4, <1>5, <1>6, <1>7, <1>8, <1>9, <1>10, <1>11, <1>12, <1>13, <1>14, <1>15, <1>16, <1>17, <1>18, <1>19, <1>20, <1>21, <1>22, <1>23, <1>24
     DEF NextSupervisor, SupervisorStep

-----------------------------------------------------------------------------
(* Steps                                                                   *)

LEMMA InvariantStep ==
  SupervisorInvariant /\ [NextSupervisor]_supervisorVars => SupervisorInvariant'
<1> SUFFICES ASSUME SupervisorInvariant, [NextSupervisor]_supervisorVars
             PROVE  SupervisorInvariant'
  OBVIOUS
<1>0. SupervisorTypeOK /\ SupervisorTypeOK'
  BY TypeStep DEF SupervisorInvariant
<1> DEFINE Rest == /\ LockHeld /\ ReadyNames /\ ProviderPlaces /\ SealingAlone
                   /\ SealedIsOver /\ DaemonSaw /\ MarkersOrder /\ StoppedAreSilent
                   /\ UnstartedAreGone
<1>00. Rest
  BY DEF SupervisorInvariant
<1> SUFFICES Rest'
  BY <1>0 DEF SupervisorInvariant
<1> USE <1>0, <1>00, SupervisorAssumption
    DEF SupervisorTypeOK, LockHeld, ReadyNames, ProviderPlaces, SealingAlone,
        SealedIsOver, DaemonSaw, MarkersOrder, StoppedAreSilent, UnstartedAreGone,
        At, Goes, Exits, Alive, Running, Launched, Silent, files, processes, daemon
<1>1. ASSUME NEW s \in Supervisors, Launch(s) PROVE Rest'
  BY <1>1 DEF Launch
<1>2. ASSUME NEW s \in Supervisors, InstallHandlers(s) PROVE Rest'
  BY <1>2 DEF InstallHandlers
<1>3. ASSUME NEW s \in Supervisors, PublishReady(s) PROVE Rest'
  BY <1>3 DEF PublishReady, MayPublishReady
<1>4. ASSUME NEW s \in Supervisors, GiveWay(s) PROVE Rest'
  BY <1>4 DEF GiveWay, MayPublishReady
<1>5. ASSUME NEW s \in Supervisors, StartProvider(s) PROVE Rest'
  BY <1>5 DEF StartProvider
<1>6. ASSUME NEW s \in Supervisors, StartNothing(s) PROVE Rest'
  BY <1>6 DEF StartNothing
<1>7. ASSUME NEW s \in Supervisors, MarkStarted(s) PROVE Rest'
  BY <1>7 DEF MarkStarted
<1>8. ASSUME NEW s \in Supervisors, EndProvider(s) PROVE Rest'
  BY <1>8 DEF EndProvider
<1>9. ASSUME NEW s \in Supervisors, SealReceipt(s) PROVE Rest'
  BY <1>9 DEF SealReceipt
<1>10. ASSUME NEW s \in Supervisors, FailSupervisor(s) PROVE Rest'
  BY <1>10 DEF FailSupervisor
<1>11. ASSUME NEW s \in Supervisors, ProveAbsent(s) PROVE Rest'
  BY <1>11 DEF ProveAbsent, NobodyElse
<1>12. ASSUME NEW s \in Supervisors, SealInterruption(s) PROVE Rest'
  BY <1>12 DEF SealInterruption
<1>13. ASSUME NEW s \in Supervisors, ProviderEnds(s) PROVE Rest'
  BY <1>13 DEF ProviderEnds
<1>14. ASSUME NEW s \in Supervisors, Kill(s) PROVE Rest'
  BY <1>14 DEF Kill
<1>15. ASSUME NEW s \in Supervisors, Terminate(s) PROVE Rest'
  BY <1>15 DEF Terminate
<1>16. CASE RequestStop
  BY <1>16 DEF RequestStop, Checks
<1>24. CASE FindReceipt
  BY <1>24 DEF FindReceipt
<1>17. CASE SeeReceipt
  BY <1>17 DEF SeeReceipt, Believe, Idle
<1>18. CASE StopTimesOut
  BY <1>18 DEF StopTimesOut, Idle
<1>19. CASE VerifyAbsent
  BY <1>19 DEF VerifyAbsent, Believe, Idle, BoundGroups
<1>20. CASE FindNoMarker
  BY <1>20 DEF FindNoMarker, Checks
<1>21. CASE ScanProcesses
  BY <1>21 DEF ScanProcesses, Idle, NoProcessFound
<1>22. CASE DaemonDies
  BY <1>22 DEF DaemonDies, Idle
<1>23. CASE UNCHANGED supervisorVars
  BY <1>23 DEF supervisorVars
<1> QED
  BY <1>1, <1>2, <1>3, <1>4, <1>5, <1>6, <1>7, <1>8, <1>9, <1>10, <1>11, <1>12, <1>13, <1>14, <1>15, <1>16, <1>17, <1>18, <1>19, <1>20, <1>21, <1>22, <1>23, <1>24
     DEF NextSupervisor, SupervisorStep

-----------------------------------------------------------------------------
(* The invariant holds: for every number of supervisors and every order of *)
(* launches, kills, stops and checks.                                      *)
THEOREM SupervisorsInvariant == SpecSupervisor => []SupervisorInvariant
  BY SupervisorInit, InvariantStep, PTL DEF SpecSupervisor

THEOREM SupervisorTypeCorrect == SpecSupervisor => []SupervisorTypeOK
  BY SupervisorsInvariant, PTL DEF SupervisorInvariant

(* One supervisor at most ever starts the provider, for it is the one the  *)
(* ready marker names.                                                     *)
THEOREM OneProvider == SpecSupervisor => []OneProviderEver
<1>1. SupervisorInvariant => OneProviderEver
  <2> SUFFICES ASSUME SupervisorInvariant PROVE OneProviderEver
    OBVIOUS
  <2> DEFINE P == {s \in Supervisors : provider[s] # "none"}
  <2>1. P \subseteq {ready}
    BY DEF SupervisorInvariant, ReadyNames
  <2>2. CASE P = {}
    BY <2>2, FS_EmptySet DEF OneProviderEver
  <2>3. CASE P = {ready}
    BY <2>3, FS_Singleton DEF OneProviderEver
  <2> QED BY <2>1, <2>2, <2>3
<1> QED BY <1>1, SupervisorsInvariant, PTL

(* Once a receipt is sealed nothing runs and nothing will be started.      *)
THEOREM SealIsOver == SpecSupervisor => []SealedIsOver
  BY SupervisorsInvariant, PTL DEF SupervisorInvariant

(* What a believed stop was about runs no provider and starts none.        *)
THEOREM StopFinal == SpecSupervisor => []StopIsFinal
<1>1. SupervisorInvariant => StopIsFinal
  BY DEF SupervisorInvariant, StoppedAreSilent, StopIsFinal, MayPublishReady
<1> QED BY <1>1, SupervisorsInvariant, PTL

(* What is declared never started is gone, so it starts nothing later.     *)
THEOREM NeverStartedFinal == SpecSupervisor => NeverStartedIsFinal
<1>1. SupervisorInvariant /\ [NextSupervisor]_supervisorVars =>
        [\A s \in unstarted : provider[s] = "none" => provider'[s] = "none"]_supervisorVars
  <2> SUFFICES ASSUME SupervisorInvariant, NextSupervisor,
                      NEW s \in unstarted, provider[s] = "none"
               PROVE  provider'[s] = "none"
    BY DEF supervisorVars
  <2>1. s \in Supervisors /\ At(s, "gone") /\ provider \in [Supervisors -> {"none", "running", "ended"}]
    BY DEF SupervisorInvariant, SupervisorTypeOK, UnstartedAreGone
  <2>2. ASSUME NEW t \in Supervisors, StartProvider(t) PROVE provider'[s] = "none"
    BY <2>1, <2>2 DEF StartProvider, At
  <2>3. ASSUME NEW t \in Supervisors,
               EndProvider(t) \/ FailSupervisor(t) \/ ProviderEnds(t)
        PROVE  provider'[s] = "none"
    BY <2>1, <2>3 DEF EndProvider, FailSupervisor, ProviderEnds, At
  <2>4. CASE VerifyAbsent
    BY <2>1, <2>4 DEF VerifyAbsent, BoundGroups, Running
  <2> QED
    BY <2>1, <2>2, <2>3, <2>4
       DEF NextSupervisor, SupervisorStep, Launch, InstallHandlers, PublishReady, GiveWay,
           StartNothing, MarkStarted, SealReceipt, ProveAbsent, SealInterruption, Kill,
           Terminate, FindReceipt, RequestStop, SeeReceipt, StopTimesOut, FindNoMarker,
           ScanProcesses, DaemonDies, files, processes, daemon
<1> QED BY <1>1, SupervisorsInvariant, PTL DEF SpecSupervisor, NeverStartedIsFinal

=============================================================================
