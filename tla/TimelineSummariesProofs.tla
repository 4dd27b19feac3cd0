---------------------- MODULE TimelineSummariesProofs ----------------------
(***************************************************************************)
(* Proofs about TimelineSummaries, for every set of nodes, contents and    *)
(* jobs and every bound: no node is forgotten, one provider runs at a      *)
(* time, and a sentence is never replaced by an older one.                 *)
(***************************************************************************)
EXTENDS TimelineSummaries, TLAPS

-----------------------------------------------------------------------------
(* The invariant                                                           *)

(* claim takes up an active job before it makes another one active.        *)
OneActiveJob == \A j, k \in ActiveJobs : j = k

(* Revision 0 means "none", and nothing is about a later cut than the one  *)
(* observed last.                                                          *)
RevisionsOf(n) ==
  /\ Known(n) => nodes[n].revision # 0
  /\ nodes[n].summaryRevision <= nodes[n].revision
  /\ \A j \in Jobs : jobs[j].request[n].revision <= nodes[n].revision

(* _retire_superseded leaves no failed job about a cut that has passed: it *)
(* could otherwise be claimed again and its nodes be updated for nothing.  *)
FailedIsCurrent ==
  \A j \in Jobs : jobs[j].status = "failed" =>
    \A n \in Asked(j) :
      nodes[n].active /\ nodes[n].revision = jobs[j].request[n].revision

(* What the tables nodes and jobs say together.                            *)
TablesFit ==
  /\ OneActiveJob
  /\ \A n \in Nodes : RevisionsOf(n)
  /\ FailedIsCurrent
  /\ NoNodeForgotten

(* process_once works on the active job, and decides it only when its      *)
(* provider has ended.                                                     *)
WorkerPlaced ==
  /\ ~At("idle") => worker.job \in Jobs
  /\ worker.pc \in {"claimed", "calling", "raised", "failing", "returned"} =>
       worker.job \in ActiveJobs
  /\ worker.pc \in {"failing", "returned"} =>
       provider[worker.job].state # "running"

TimelineInvariant ==
  /\ TimelineTypeOK
  /\ TablesFit
  /\ OneProviderAtATime
  /\ WorkerPlaced

LEMMA TimelineInit == InitTimeline => TimelineInvariant
<1> SUFFICES ASSUME InitTimeline PROVE TimelineInvariant
  OBVIOUS
<1> USE TimelineAssumption DEF InitTimeline, NoRequest, NotAsked, NoProvider, Quiet
<1>1. TimelineTypeOK
  BY DEF TimelineTypeOK, CutType
<1>2. TablesFit
  BY DEF TablesFit, OneActiveJob, RevisionsOf, FailedIsCurrent, NoNodeForgotten,
         ActiveJobs, Known, Live
<1>3. OneProviderAtATime /\ WorkerPlaced
  BY DEF OneProviderAtATime, WorkerPlaced, At, Outcomes
<1> QED BY <1>1, <1>2, <1>3 DEF TimelineInvariant

-----------------------------------------------------------------------------
(* Types                                                                   *)

Contents == Hashes \cup {Gone}
Refs == Jobs \cup {NoSession}
NodeRow ==
  [hash : Contents, revision : Nat, active : BOOLEAN,
   status : {"none", "pending", "updating", "ready", "failed"},
   summary : Contents, summaryRevision : Nat]
JobRow ==
  [status : {"active", "failed", "completed"},
   request : [Nodes -> CutType], native : Refs]
Places ==
  {"idle", "claimed", "calling", "raised", "failing", "returned", "finish"}

(* The types of the tables, and of what is not in them.                    *)
TablesTyped ==
  /\ source \in [Nodes -> Contents]
  /\ nodes \in [Nodes -> NodeRow]
  /\ jobs \in [Jobs -> JobRow]
  /\ native \in Refs

ProcessesTyped ==
  /\ changes \in 0 .. MaxChanges /\ mishaps \in 0 .. MaxMishaps
  /\ waiting \subseteq Jobs
  /\ provider \in [Jobs -> [state : {"absent", "running"} \cup Outcomes,
                            native : Refs]]
  /\ worker \in [pc : Places, job : Jobs \cup {NoJob}, native : Refs]

LEMMA Typed == TimelineTypeOK <=> TablesTyped /\ ProcessesTyped
  BY DEF TimelineTypeOK, TablesTyped, ProcessesTyped, NodeRow, JobRow, Contents,
         Refs, Places

LEMMA RetireTypes ==
  ASSUME NEW N \in [Nodes -> NodeRow], NEW J \in [Jobs -> JobRow],
         RetireSuperseded(N, J)
  PROVE  nodes' \in [Nodes -> NodeRow] /\ jobs' \in [Jobs -> JobRow]
<1>1. NoRequest \in [Nodes -> CutType]
  BY DEF NoRequest, NotAsked, CutType
<1>2. jobs' \in [Jobs -> JobRow]
  BY <1>1 DEF RetireSuperseded, JobRow
<1>3. nodes' \in [Nodes -> NodeRow]
  BY DEF RetireSuperseded, NodeRow
<1> QED BY <1>2, <1>3

LEMMA ObservedTypes ==
  ASSUME TablesTyped, NEW n \in Nodes
  PROVE  Observed(n) \in NodeRow
<1>1. nodes[n] \in NodeRow /\ source[n] \in Contents
  BY DEF TablesTyped
<1>2. [nodes[n] EXCEPT !.active = FALSE] \in NodeRow
  BY <1>1 DEF NodeRow
<1>3. [nodes[n] EXCEPT !.hash = source[n], !.revision = @ + 1,
                       !.active = TRUE, !.status = "pending"] \in NodeRow
  <2>1. nodes[n].revision + 1 \in Nat
    BY <1>1 DEF NodeRow
  <2> QED BY <1>1, <2>1 DEF NodeRow
<1> QED BY <1>1, <1>2, <1>3 DEF Observed

LEMMA CutTypes ==
  ASSUME TablesTyped, NEW n \in Nodes
  PROVE  Cut(n) \in CutType /\ NotAsked \in CutType
  BY DEF TablesTyped, NodeRow, CutType, Cut, NotAsked, Contents

LEMMA PublishedTypes ==
  ASSUME TablesTyped, NEW n \in Nodes, NEW cut \in CutType
  PROVE  Published(n, cut) \in NodeRow
<1>1. nodes[n] \in NodeRow /\ cut.hash \in Contents /\ cut.revision \in Nat
  BY DEF TablesTyped, CutType, Contents
<1>2. PublishedStatus(n, cut) \in {"none", "pending", "updating", "ready", "failed"}
  BY DEF PublishedStatus
<1> HIDE DEF Contents
<1> QED BY <1>1, <1>2 DEF Published, NodeRow

LEMMA SyncTypes ==
  ASSUME TablesTyped, Sync PROVE TablesTyped'
<1> DEFINE N == [n \in Nodes |-> Observed(n)]
<1>1. N \in [Nodes -> NodeRow]
  BY ObservedTypes
<1>2. RetireSuperseded(N, jobs) /\ UNCHANGED <<source, native>>
  BY DEF Sync, sourceVars
<1> QED BY <1>1, <1>2, RetireTypes DEF TablesTyped

LEMMA ClaimTypes ==
  ASSUME TablesTyped, ProcessesTyped, Claim
  PROVE  TablesTyped' /\ ProcessesTyped'
<1> USE DEF TablesTyped, ProcessesTyped, sourceVars, storeVars
<1>0. ASSUME NEW j \in Jobs, Claims(j)
      PROVE  worker' \in [pc : Places, job : Jobs \cup {NoJob}, native : Refs]
  BY <1>0 DEF Claims, Places, Refs
<1>1. ASSUME NEW j \in Jobs, ClaimActive(j) PROVE TablesTyped' /\ ProcessesTyped'
  BY <1>0, <1>1 DEF ClaimActive
<1>2. ASSUME NEW j \in Jobs, ClaimFailed(j) PROVE TablesTyped' /\ ProcessesTyped'
  <2>1. jobs' \in [Jobs -> JobRow]
    BY <1>2 DEF ClaimFailed, JobRow
  <2>3. ASSUME NEW n \in Nodes
        PROVE  [nodes[n] EXCEPT !.status = "updating"] \in NodeRow /\ nodes[n] \in NodeRow
    BY DEF NodeRow
  <2>2. nodes' \in [Nodes -> NodeRow]
    BY <1>2, <2>3 DEF ClaimFailed
  <2> QED BY <1>0, <1>2, <2>1, <2>2 DEF ClaimFailed
<1>3. ASSUME NEW j \in Jobs, NEW batch \in SUBSET Nodes, ClaimPending(j, batch)
      PROVE  TablesTyped' /\ ProcessesTyped'
  <2>1. [n \in Nodes |-> IF n \in batch THEN Cut(n) ELSE NotAsked]
          \in [Nodes -> CutType]
    BY CutTypes
  <2>2. jobs' \in [Jobs -> JobRow]
    <3>1. [status |-> "active", native |-> native,
           request |-> [n \in Nodes |-> IF n \in batch THEN Cut(n) ELSE NotAsked]]
            \in JobRow
      BY <2>1 DEF JobRow
    <3> QED BY <1>3, <3>1 DEF ClaimPending
  <2>5. ASSUME NEW n \in Nodes
        PROVE  [nodes[n] EXCEPT !.status = "updating"] \in NodeRow /\ nodes[n] \in NodeRow
    BY DEF NodeRow
  <2>4. nodes' \in [Nodes -> NodeRow]
    BY <1>3, <2>5 DEF ClaimPending
  <2>3. provider' \in [Jobs -> [state : {"absent", "running"} \cup Outcomes,
                                native : Refs]]
    BY <1>3 DEF ClaimPending, NoProvider, Refs
  <2> QED BY <1>0, <1>3, <2>2, <2>3, <2>4 DEF ClaimPending
<1> QED BY <1>1, <1>2, <1>3 DEF Claim

LEMMA FailedTypes ==
  ASSUME TablesTyped, ProcessesTyped, NEW j \in Jobs
  PROVE  [jobs EXCEPT ![j].status = "failed",
            ![j].native = IF worker.native # NoSession THEN worker.native ELSE @]
           \in [Jobs -> JobRow]
<1> DEFINE x == IF worker.native # NoSession THEN worker.native ELSE jobs[j].native
<1>1. jobs[j] \in JobRow /\ worker.native \in Refs
  BY DEF TablesTyped, ProcessesTyped
<1>2. x \in Refs
  BY <1>1 DEF JobRow
<1> HIDE DEF x
<1>3. [jobs[j] EXCEPT !.status = "failed", !.native = x] \in JobRow
  BY <1>1, <1>2 DEF JobRow
<1>4. [jobs EXCEPT ![j] = [jobs[j] EXCEPT !.status = "failed", !.native = x]]
        \in [Jobs -> JobRow]
  BY <1>3 DEF TablesTyped
<1>5. [jobs EXCEPT ![j].status = "failed",
         ![j].native = IF worker.native # NoSession THEN worker.native ELSE @]
        = [jobs EXCEPT ![j] = [jobs[j] EXCEPT !.status = "failed", !.native = x]]
  BY <1>1 DEF TablesTyped, JobRow, x
<1> QED BY <1>4, <1>5

LEMMA FailTypes ==
  ASSUME TablesTyped, ProcessesTyped, WorkerPlaced, Fail
  PROVE  TablesTyped' /\ ProcessesTyped'
<1> DEFINE j == worker.job
           known == worker.native # NoSession
           N == [n \in Nodes |->
                   IF n \in Asked(j) /\ nodes[n].hash = jobs[j].request[n].hash
                   THEN [nodes[n] EXCEPT !.status = "failed"] ELSE nodes[n]]
           J == [jobs EXCEPT ![j].status = "failed",
                   ![j].native = IF known THEN worker.native ELSE @]
<1> USE DEF TablesTyped, ProcessesTyped
<1>1. j \in Jobs
  BY DEF WorkerPlaced, At, Fail
<1>2. N \in [Nodes -> NodeRow]
  BY DEF NodeRow
<1>3. J \in [Jobs -> JobRow]
  BY <1>1, FailedTypes
<1>4. RetireSuperseded(N, J)
  BY DEF Fail
<1>5. nodes' \in [Nodes -> NodeRow] /\ jobs' \in [Jobs -> JobRow]
  BY <1>2, <1>3, <1>4, RetireTypes
<1>6. native' \in Refs /\ waiting' \subseteq Jobs
  BY <1>1 DEF Fail
<1>7. worker' \in [pc : Places, job : Jobs \cup {NoJob}, native : Refs]
  BY DEF Fail, Goes, Places, Refs
<1> QED BY <1>5, <1>6, <1>7 DEF Fail, sourceVars

LEMMA PublishTypes ==
  ASSUME TablesTyped, ProcessesTyped, WorkerPlaced, Publish
  PROVE  TablesTyped' /\ ProcessesTyped'
<1> USE DEF TablesTyped, ProcessesTyped
<1>1. worker.job \in Jobs /\ NoRequest \in [Nodes -> CutType]
  BY DEF WorkerPlaced, At, Publish, NoRequest, NotAsked, CutType
<1>2. ASSUME NEW n \in Nodes
      PROVE  Published(n, jobs[worker.job].request[n]) \in NodeRow
  <2>1. jobs[worker.job].request[n] \in CutType
    BY <1>1 DEF JobRow
  <2> QED BY <2>1, PublishedTypes
<1>3. nodes' \in [Nodes -> NodeRow]
  BY <1>2 DEF Publish
<1>4. jobs' \in [Jobs -> JobRow] /\ native' \in Refs
  BY <1>1 DEF Publish, JobRow
<1>5. worker' \in [pc : Places, job : Jobs \cup {NoJob}, native : Refs]
  BY DEF Publish, Goes, Places, Refs
<1> QED BY <1>3, <1>4, <1>5 DEF Publish, sourceVars

(* Steps that leave the tables alone.                                      *)
LEMMA TablesStill ==
  ASSUME TablesTyped, TablesFit, UNCHANGED <<source, nodes, jobs, native>>
  PROVE  TablesTyped' /\ TablesFit'
  BY DEF TablesTyped, TablesFit, OneActiveJob, RevisionsOf, FailedIsCurrent,
         NoNodeForgotten, ActiveJobs, Retryable, Known, Live, Asked, Decides, Cut

LEMMA WorkTypes ==
  ASSUME TablesTyped, ProcessesTyped, WorkerPlaced, Work
  PROVE  TablesTyped' /\ ProcessesTyped'
<1> DEFINE Good == TablesTyped' /\ ProcessesTyped'
           Ps == {"absent", "running"} \cup Outcomes
<1>1. ASSUME At("claimed") \/ At("calling") \/ At("raised") \/ At("returned")
      PROVE  worker.job \in Jobs
  BY <1>1 DEF WorkerPlaced, At
<1>2. ASSUME NEW pc \in Places, NEW x \in Refs, Goes(pc, x)
      PROVE  worker' \in [pc : Places, job : Jobs \cup {NoJob}, native : Refs]
  BY <1>2 DEF Goes, ProcessesTyped
<1>3. ASSUME NEW j \in Jobs, Answered(j)
      PROVE  worker' \in [pc : Places, job : Jobs \cup {NoJob}, native : Refs]
  BY <1>2, <1>3 DEF Answered, ProcessesTyped, Places, Refs
<1>4. ASSUME UNCHANGED <<source, nodes, jobs, native>> PROVE TablesTyped'
  BY <1>4 DEF TablesTyped
<1>5. ASSUME Mishap \/ UNCHANGED mishaps PROVE mishaps' \in 0 .. MaxMishaps
  BY <1>5, TimelineAssumption DEF Mishap, ProcessesTyped
<1>6. NoSession \in Refs /\ Quiet \in [pc : Places, job : Jobs \cup {NoJob}, native : Refs]
  BY DEF Refs, Quiet, Places
<1>7. ASSUME Defer, Mishap \/ UNCHANGED mishaps, worker.job \in Jobs PROVE Good
  BY <1>4, <1>5, <1>6, <1>7 DEF Defer, ProcessesTyped, sourceVars
<1> USE DEF sourceVars, storeVars
<1>8. ASSUME Launch PROVE Good
  <2>1. worker' \in [pc : Places, job : Jobs \cup {NoJob}, native : Refs]
    BY <1>2, <1>6, <1>8 DEF Launch, Places
  <2>2. provider' \in [Jobs -> [state : Ps, native : Refs]]
    BY <1>1, <1>8 DEF Launch, ProcessesTyped
  <2> QED BY <1>4, <1>8, <2>1, <2>2 DEF Launch, ProcessesTyped
<1>9. ASSUME LaunchFails PROVE Good
  <2>1. worker' \in [pc : Places, job : Jobs \cup {NoJob}, native : Refs]
    BY <1>2, <1>6, <1>9 DEF LaunchFails, Places
  <2> QED BY <1>4, <1>5, <1>9, <2>1 DEF LaunchFails, ProcessesTyped
<1>10. ASSUME Recover \/ Return PROVE Good
  BY <1>1, <1>3, <1>4, <1>10 DEF Recover, Return, ProcessesTyped
<1>11. ASSUME FindPending PROVE Good
  BY <1>1, <1>7, <1>11 DEF FindPending
<1>12. ASSUME CancelTimedOut PROVE Good
  <2>1. worker' \in [pc : Places, job : Jobs \cup {NoJob}, native : Refs]
    BY <1>2, <1>6, <1>12 DEF CancelTimedOut, Places
  <2>2. provider' \in [Jobs -> [state : Ps, native : Refs]]
    BY <1>1, <1>6, <1>12 DEF CancelTimedOut, ProcessesTyped, Outcomes
  <2> QED BY <1>4, <1>5, <1>12, <2>1, <2>2 DEF CancelTimedOut, ProcessesTyped
<1>13. ASSUME LoseResponse PROVE Good
  <2>1. worker' \in [pc : Places, job : Jobs \cup {NoJob}, native : Refs]
    BY <1>2, <1>6, <1>13 DEF LoseResponse, Places
  <2> QED BY <1>4, <1>5, <1>13, <2>1 DEF LoseResponse, ProcessesTyped
<1>14. ASSUME HandleError PROVE Good
  <2>1. CASE Goes("failing", worker.native) /\ UNCHANGED <<sourceVars, storeVars,
               provider, mishaps>>
    <3>1. worker' \in [pc : Places, job : Jobs \cup {NoJob}, native : Refs]
      BY <1>2, <2>1 DEF Places, ProcessesTyped
    <3> QED BY <1>4, <2>1, <3>1 DEF ProcessesTyped
  <2> QED BY <1>1, <1>7, <1>14, <2>1 DEF HandleError
<1>15. ASSUME Fail PROVE Good
  BY <1>15, FailTypes
<1>16. ASSUME ScanBeforePublication PROVE Good
  BY <1>16, SyncTypes DEF ScanBeforePublication, Sync, ProcessesTyped
<1>17. ASSUME Publish PROVE Good
  BY <1>17, PublishTypes
<1>18. ASSUME PublicationFails PROVE Good
  BY <1>1, <1>7, <1>18 DEF PublicationFails
<1>19. ASSUME Finish PROVE Good
  <2>1. provider' \in [Jobs -> [state : Ps, native : Refs]]
    BY <1>6, <1>19 DEF Finish, ProcessesTyped, NoProvider
  <2> QED BY <1>4, <1>6, <1>19, <2>1 DEF Finish, ProcessesTyped
<1> QED
  BY <1>8, <1>9, <1>10, <1>11, <1>12, <1>13, <1>14, <1>15, <1>16, <1>17, <1>18,
     <1>19 DEF Work

LEMMA TypeStep ==
  ASSUME TimelineTypeOK, WorkerPlaced, NextTimeline
  PROVE  TimelineTypeOK'
<1> DEFINE Good == TablesTyped' /\ ProcessesTyped'
<1> USE Typed DEF sourceVars, storeVars
<1>1. ASSUME NEW n \in Nodes, SourceChanges(n) PROVE Good
  BY <1>1, TimelineAssumption
     DEF SourceChanges, TablesTyped, ProcessesTyped, Contents
<1>2. ASSUME Scan PROVE Good
  BY <1>2, SyncTypes DEF Scan, Sync, ProcessesTyped
<1>3. ASSUME Claim PROVE Good
  BY <1>3, ClaimTypes
<1>4. ASSUME Work PROVE Good
  BY <1>4, WorkTypes
<1>5. ASSUME Restart PROVE Good
  BY <1>5, TimelineAssumption
     DEF Restart, Mishap, Quiet, TablesTyped, ProcessesTyped, Places, Refs
<1>6. ASSUME NEW j \in Jobs, TimePasses(j) PROVE Good
  BY <1>6 DEF TimePasses, TablesTyped, ProcessesTyped
<1>7. ASSUME NEW j \in Jobs, NEW outcome \in Outcomes, ProviderEnds(j, outcome)
      PROVE  Good
  <2>1. Session(j) \in Refs
    BY DEF Session, TablesTyped, JobRow, Refs
  <2>2. provider' \in [Jobs -> [state : {"absent", "running"} \cup Outcomes,
                                native : Refs]]
    BY <1>7, <2>1 DEF ProviderEnds, ProcessesTyped
  <2>3. mishaps' \in 0 .. MaxMishaps
    BY <1>7, TimelineAssumption DEF ProviderEnds, ProcessesTyped, Mishap
  <2> QED BY <1>7, <2>2, <2>3 DEF ProviderEnds, TablesTyped, ProcessesTyped
<1>8. Good
  BY <1>1, <1>2, <1>3, <1>4, <1>5, <1>6, <1>7 DEF NextTimeline
<1> QED BY <1>8 DEF TimelineTypeOK, TablesTyped, ProcessesTyped, NodeRow, JobRow,
              Contents, Refs, Places

-----------------------------------------------------------------------------
(* Nodes and jobs                                                          *)

(* What NoNodeForgotten asks for one node.                                 *)
Remembered(n) ==
  Live(n) =>
    /\ nodes[n].status = "updating" => \E j \in ActiveJobs : Decides(j, n)
    /\ nodes[n].status = "failed" => \E j \in Retryable : Decides(j, n)
    /\ nodes[n].status = "ready" =>
         /\ nodes[n].summary = nodes[n].hash
         /\ nodes[n].summaryRevision = nodes[n].revision

LEMMA NoneForgotten == NoNodeForgotten <=> \A n \in Nodes : Remembered(n)
  BY DEF NoNodeForgotten, Remembered

(* A scan supersedes the failed jobs about a node it finds changed, and    *)
(* frees their other nodes.                                                *)
LEMMA SyncFits ==
  ASSUME TablesTyped, TablesFit, Sync PROVE TablesFit'
<1> DEFINE N == [n \in Nodes |-> Observed(n)]
           old == Superseded(N, jobs)
           freed == {n \in Nodes : \E j \in old : jobs[j].request[n].revision # 0}
<1> USE DEF TablesTyped
<1>1. /\ jobs' = [j \in Jobs |->
             IF j \in old THEN [jobs[j] EXCEPT !.request = NoRequest] ELSE jobs[j]]
      /\ nodes' = [n \in Nodes |->
             IF n \in freed /\ N[n].status = "failed" /\ N[n].active
             THEN [N[n] EXCEPT !.status = "pending"] ELSE N[n]]
  BY DEF Sync, RetireSuperseded
<1>2. ASSUME NEW n \in Nodes
      PROVE  /\ nodes'[n].active = Observed(n).active
             /\ nodes'[n].hash = Observed(n).hash
             /\ nodes'[n].revision = Observed(n).revision
             /\ nodes'[n].summary = Observed(n).summary
             /\ nodes'[n].summaryRevision = Observed(n).summaryRevision
             /\ nodes'[n].status = IF n \in freed /\ Observed(n).status = "failed"
                                      /\ Observed(n).active
                                   THEN "pending" ELSE Observed(n).status
  BY <1>1, ObservedTypes DEF NodeRow
<1>3. ASSUME NEW n \in Nodes
      PROVE  \/ Observed(n) = nodes[n]
             \/ /\ Observed(n).active = FALSE /\ Observed(n).status = nodes[n].status
                /\ Observed(n).revision = nodes[n].revision
                /\ Observed(n).summaryRevision = nodes[n].summaryRevision
             \/ /\ Observed(n).active /\ Observed(n).status = "pending"
                /\ Observed(n).revision = nodes[n].revision + 1
                /\ Observed(n).summaryRevision = nodes[n].summaryRevision
  BY DEF Observed, NodeRow
<1>4. ASSUME NEW j \in Jobs
      PROVE  /\ jobs'[j].status = jobs[j].status
             /\ j \notin old => jobs'[j] = jobs[j]
             /\ j \in old => jobs'[j].request = NoRequest
  BY <1>1 DEF JobRow
<1>5. OneActiveJob'
  BY <1>4 DEF TablesFit, OneActiveJob, ActiveJobs
<1>6. ASSUME NEW n \in Nodes PROVE RevisionsOf(n)'
  <2>1. RevisionsOf(n) /\ nodes[n] \in NodeRow
    BY DEF TablesFit
  <2>2. ASSUME NEW j \in Jobs
        PROVE jobs'[j].request[n].revision <= nodes[n].revision
    <3>1. CASE j \in old
      BY <1>4, <2>1, <3>1 DEF NoRequest, NotAsked, NodeRow
    <3>2. CASE j \notin old
      BY <1>4, <2>1, <3>2 DEF RevisionsOf
    <3> QED BY <3>1, <3>2
  <2>3. /\ nodes'[n].revision \in {nodes[n].revision, nodes[n].revision + 1}
        /\ nodes'[n].summaryRevision = nodes[n].summaryRevision
        /\ nodes'[n].status = "none" \/ nodes[n].status # "none"
             \/ nodes'[n].revision = nodes[n].revision + 1
    <3> DEFINE new == nodes'[n]
               seen == Observed(n)
    <3>1. /\ new.revision = seen.revision
          /\ new.summaryRevision = seen.summaryRevision
          /\ seen.status = "none" => new.status = "none"
      <4>1. seen.status = "none" => new.status = seen.status
        BY <1>2
      <4> QED BY <1>2, <4>1
    <3>2. \/ seen = nodes[n]
          \/ /\ seen.status = nodes[n].status
             /\ seen.revision = nodes[n].revision
             /\ seen.summaryRevision = nodes[n].summaryRevision
          \/ /\ seen.revision = nodes[n].revision + 1
             /\ seen.summaryRevision = nodes[n].summaryRevision
      BY <1>3
    <3> HIDE DEF new, seen
    <3>3. /\ new.revision \in {nodes[n].revision, nodes[n].revision + 1}
          /\ new.summaryRevision = nodes[n].summaryRevision
          /\ \/ new.status = "none" \/ nodes[n].status # "none"
             \/ new.revision = nodes[n].revision + 1
      BY <3>1, <3>2
    <3> QED BY <3>3 DEF new
  <2>4. nodes[n].revision \in Nat /\ nodes[n].summaryRevision \in Nat
    BY <2>1 DEF NodeRow
  <2>5. ASSUME NEW j \in Jobs PROVE jobs'[j].request[n].revision \in Nat
    <3>1. CASE j \in old
      BY <1>4, <3>1 DEF NoRequest, NotAsked
    <3>2. CASE j \notin old
      BY <1>4, <3>2 DEF JobRow, CutType
    <3> QED BY <3>1, <3>2
  <2> QED BY <2>1, <2>2, <2>3, <2>4, <2>5 DEF RevisionsOf, Known
<1>7. FailedIsCurrent'
  <2> SUFFICES ASSUME NEW j \in Jobs, jobs'[j].status = "failed", NEW n \in Nodes,
                      jobs'[j].request[n].revision # 0
               PROVE  nodes'[n].active /\ nodes'[n].revision = jobs'[j].request[n].revision
    BY DEF FailedIsCurrent, Asked
  <2>1. j \notin old /\ jobs'[j] = jobs[j]
    BY <1>4 DEF NoRequest, NotAsked
  <2>2. N[n].active /\ N[n].revision = jobs[j].request[n].revision
    BY <2>1 DEF Superseded
  <2> QED BY <1>2, <2>1, <2>2
<1>8. ASSUME NEW n \in Nodes PROVE Remembered(n)'
  <2> SUFFICES ASSUME nodes'[n].status # "none", nodes'[n].active,
                      nodes'[n].status \in {"updating", "failed", "ready"}
               PROVE  Remembered(n)'
    BY DEF Remembered, Live, Known
  <2>1. Observed(n) = nodes[n] /\ nodes'[n] = nodes[n]
    <3>1. Observed(n) = nodes[n]
      BY <1>2, <1>3
    <3>2. ~(n \in freed /\ N[n].status = "failed" /\ N[n].active)
      BY <1>2
    <3> QED BY <1>1, <3>1, <3>2
  <2>2. Remembered(n) /\ Live(n)
    BY <2>1, NoneForgotten DEF TablesFit, Live, Known
  <2>3. CASE nodes[n].status = "updating"
    <3>1. PICK j \in ActiveJobs : Decides(j, n)
      BY <2>2, <2>3 DEF Remembered
    <3>2. j \notin old /\ j \in Jobs
      BY DEF Superseded, ActiveJobs
    <3>3. j \in ActiveJobs' /\ Decides(j, n)'
      BY <1>4, <2>1, <3>1, <3>2 DEF ActiveJobs, Decides, Asked, Cut
    <3> QED BY <2>1, <2>3, <3>3 DEF Remembered
  <2>4. CASE nodes[n].status = "failed"
    <3>1. PICK j \in Retryable : Decides(j, n)
      BY <2>2, <2>4 DEF Remembered
    <3>2. j \in Jobs /\ jobs[j].request[n].revision # 0
      BY <3>1 DEF Retryable, Decides, Asked
    <3>3. j \notin old
      BY <1>2, <2>1, <2>4, <3>2
    <3>4. j \in Retryable' /\ Decides(j, n)'
      BY <1>4, <2>1, <3>1, <3>2, <3>3 DEF Retryable, Decides, Asked, Cut
    <3> QED BY <2>1, <2>4, <3>4 DEF Remembered
  <2> QED BY <2>1, <2>2, <2>3, <2>4 DEF Remembered
<1> QED BY <1>5, <1>6, <1>7, <1>8, NoneForgotten DEF TablesFit, NoNodeForgotten, Remembered

(* A job that is claimed again has only the nodes it failed with, and they *)
(* have not moved on.                                                      *)
LEMMA ClaimFailedFits ==
  ASSUME TablesTyped, TablesFit, NEW j \in Jobs, ClaimFailed(j)
  PROVE  TablesFit'
<1> USE DEF TablesTyped
<1>1. /\ ActiveJobs = {} /\ j \in Retryable
      /\ jobs[j].status = "failed"
      /\ jobs' = [jobs EXCEPT ![j].status = "active"]
      /\ nodes' = [n \in Nodes |->
           IF /\ n \in Asked(j) /\ nodes[n].active
              /\ nodes[n].hash = jobs[j].request[n].hash
           THEN [nodes[n] EXCEPT !.status = "updating"] ELSE nodes[n]]
  BY DEF ClaimFailed, Retryable
<1>2. ASSUME NEW k \in Jobs
      PROVE  /\ jobs'[k].request = jobs[k].request
             /\ jobs'[k].status = IF k = j THEN "active" ELSE jobs[k].status
  BY <1>1 DEF JobRow
<1>3. ASSUME NEW n \in Nodes
      PROVE  /\ nodes'[n].active = nodes[n].active /\ nodes'[n].hash = nodes[n].hash
             /\ nodes'[n].revision = nodes[n].revision
             /\ nodes'[n].summary = nodes[n].summary
             /\ nodes'[n].summaryRevision = nodes[n].summaryRevision
             /\ nodes'[n].status =
                  IF /\ n \in Asked(j) /\ nodes[n].active
                     /\ nodes[n].hash = jobs[j].request[n].hash
                  THEN "updating" ELSE nodes[n].status
  BY <1>1 DEF NodeRow
<1>4. ASSUME NEW n \in Asked(j)
      PROVE  nodes[n].revision = jobs[j].request[n].revision /\ nodes[n].revision # 0
  BY <1>1 DEF TablesFit, FailedIsCurrent, Asked
<1>5. ActiveJobs' = {j}
  BY <1>1, <1>2 DEF ActiveJobs
<1>6. OneActiveJob'
  BY <1>5 DEF OneActiveJob
<1>7. ASSUME NEW n \in Nodes PROVE RevisionsOf(n)'
  BY <1>2, <1>3, <1>4 DEF TablesFit, RevisionsOf, Known
<1>8. FailedIsCurrent'
  BY <1>2, <1>3 DEF TablesFit, FailedIsCurrent, Asked
<1>9. ASSUME NEW n \in Nodes, NEW k \in Jobs
      PROVE  /\ Asked(k)' = Asked(k)
             /\ Decides(k, n)' <=> Decides(k, n)
  BY <1>2, <1>3 DEF Asked, Decides, Cut
<1>10. ASSUME NEW n \in Nodes, Live(n)' PROVE Remembered(n)'
  <2>1. CASE nodes'[n].status = "updating" /\ n \in Asked(j)
               /\ nodes[n].hash = jobs[j].request[n].hash
    <3>1. Decides(j, n)
      <4>1. jobs[j].request[n] \in CutType
        BY DEF JobRow
      <4> QED BY <1>4, <2>1, <4>1 DEF Decides, Cut, CutType
    <3> QED BY <1>5, <1>9, <2>1, <3>1 DEF Remembered
  <2>2. CASE ~(n \in Asked(j) /\ nodes[n].hash = jobs[j].request[n].hash)
    <3>1. nodes'[n] = nodes[n] /\ Live(n)
      BY <1>1, <1>3, <1>10, <2>2 DEF Live, Known
    <3>2. Remembered(n)
      BY NoneForgotten DEF TablesFit
    <3>3. nodes[n].status # "updating"
      BY <1>1, <3>1, <3>2 DEF Remembered
    <3>4. ASSUME nodes[n].status = "failed"
          PROVE  \E k \in Retryable' : Decides(k, n)'
      <4>1. PICK k \in Retryable : Decides(k, n)
        BY <3>1, <3>2, <3>4 DEF Remembered
      <4>2. k # j
        BY <1>4, <2>2, <4>1 DEF Decides, Cut
      <4> QED BY <1>2, <1>9, <4>1, <4>2 DEF Retryable
    <3> QED BY <3>1, <3>2, <3>3, <3>4 DEF Remembered
  <2> QED BY <1>3, <1>10, <2>1, <2>2 DEF Live
<1> QED BY <1>6, <1>7, <1>8, <1>10 DEF TablesFit, NoNodeForgotten, Remembered

LEMMA ClaimPendingFits ==
  ASSUME TablesTyped, TablesFit, NEW j \in Jobs, NEW batch \in SUBSET Nodes,
         ClaimPending(j, batch)
  PROVE  TablesFit'
<1> DEFINE asked == [n \in Nodes |-> IF n \in batch THEN Cut(n) ELSE NotAsked]
<1> USE DEF TablesTyped
<1>1. /\ ActiveJobs = {} /\ batch \subseteq Pending
      /\ jobs' = [jobs EXCEPT ![j] =
            [status |-> "active", native |-> native, request |-> asked]]
      /\ nodes' = [n \in Nodes |->
            IF n \in batch THEN [nodes[n] EXCEPT !.status = "updating"] ELSE nodes[n]]
  BY DEF ClaimPending
<1>2. j \in Jobs /\ Asked(j) = {}
  <2>1. Unused # {} /\ j = CHOOSE u \in Unused : TRUE
    BY DEF ClaimPending
  <2> QED BY <2>1 DEF Unused
<1>3. ASSUME NEW k \in Jobs
      PROVE  /\ k # j => jobs'[k] = jobs[k]
             /\ jobs'[j].request = asked /\ jobs'[j].status = "active"
  BY <1>1, <1>2
<1>4. ASSUME NEW n \in Nodes
      PROVE  /\ nodes'[n].active = nodes[n].active /\ nodes'[n].hash = nodes[n].hash
             /\ nodes'[n].revision = nodes[n].revision
             /\ nodes'[n].summary = nodes[n].summary
             /\ nodes'[n].summaryRevision = nodes[n].summaryRevision
             /\ nodes'[n].status = IF n \in batch THEN "updating" ELSE nodes[n].status
  BY <1>1 DEF NodeRow
<1>5. ActiveJobs' = {j}
  BY <1>1, <1>2, <1>3 DEF ActiveJobs
<1>6. OneActiveJob'
  BY <1>5 DEF OneActiveJob
<1>7. ASSUME NEW n \in Nodes
      PROVE  asked[n] = IF n \in batch THEN Cut(n) ELSE NotAsked
  OBVIOUS
<1> HIDE DEF asked
<1>8. ASSUME NEW n \in Nodes PROVE RevisionsOf(n)'
  <2>1. RevisionsOf(n) /\ nodes[n].revision \in Nat
    BY DEF TablesFit, NodeRow
  <2>2. ASSUME NEW k \in Jobs PROVE jobs'[k].request[n].revision <= nodes[n].revision
    <3>1. CASE k = j
      <4>1. jobs'[k].request[n] = IF n \in batch THEN Cut(n) ELSE NotAsked
        BY <1>3, <1>7, <3>1
      <4> QED BY <2>1, <4>1 DEF Cut, NotAsked
    <3>2. CASE k # j
      BY <1>3, <2>1, <3>2 DEF RevisionsOf
    <3> QED BY <3>1, <3>2
  <2>3. n \in batch => nodes[n].revision # 0
    BY <1>1, <2>1 DEF Pending, Live, RevisionsOf
  <2> QED BY <1>4, <2>1, <2>2, <2>3 DEF RevisionsOf, Known
<1>9. FailedIsCurrent'
  <2> SUFFICES ASSUME NEW k \in Jobs, jobs'[k].status = "failed", NEW n \in Nodes,
                      jobs'[k].request[n].revision # 0
               PROVE  nodes'[n].active /\ nodes'[n].revision = jobs'[k].request[n].revision
    BY DEF FailedIsCurrent, Asked
  <2>1. k # j /\ jobs'[k] = jobs[k]
    BY <1>3
  <2> QED BY <1>4, <2>1 DEF TablesFit, FailedIsCurrent, Asked
<1>10. ASSUME NEW n \in Nodes, Live(n)' PROVE Remembered(n)'
  <2>1. CASE n \in batch
    <3>1. Live(n) /\ nodes[n].revision # 0
      BY <1>1, <2>1 DEF TablesFit, Pending, Live, RevisionsOf
    <3>2. jobs'[j].request[n] = Cut(n) /\ Cut(n)' = Cut(n) /\ Cut(n).revision # 0
      BY <1>2, <1>3, <1>4, <1>7, <2>1, <3>1 DEF Cut
    <3>3. Decides(j, n)'
      BY <3>2 DEF Decides, Asked
    <3> QED BY <1>4, <1>5, <2>1, <3>3 DEF Remembered
  <2>2. CASE n \notin batch
    <3>1. nodes'[n] = nodes[n] /\ Live(n)
      BY <1>1, <1>4, <1>10, <2>2 DEF Live, Known
    <3>2. Remembered(n)
      BY NoneForgotten DEF TablesFit
    <3>3. nodes[n].status # "updating"
      BY <1>1, <3>1, <3>2 DEF Remembered
    <3>4. ASSUME nodes[n].status = "failed"
          PROVE  \E k \in Retryable' : Decides(k, n)'
      <4>1. PICK k \in Retryable : Decides(k, n)
        BY <3>1, <3>2, <3>4 DEF Remembered
      <4>2. k # j /\ k \in Jobs
        BY <1>2, <4>1 DEF Retryable
      <4> QED BY <1>3, <3>1, <4>1, <4>2 DEF Retryable, Decides, Asked, Cut
    <3> QED BY <3>1, <3>2, <3>3, <3>4 DEF Remembered
  <2> QED BY <2>1, <2>2
<1> QED BY <1>6, <1>8, <1>9, <1>10 DEF TablesFit, NoNodeForgotten, Remembered

(* A summary that arrives is the one the node waits for, or about an older *)
(* cut: then the node stays pending or keeps the younger sentence.         *)
LEMMA PublishFits ==
  ASSUME TablesTyped, ProcessesTyped, TablesFit, WorkerPlaced, Publish
  PROVE  TablesFit'
<1> DEFINE j == worker.job
<1> USE DEF TablesTyped
<1>1. /\ j \in Jobs /\ jobs[j].status = "active" /\ ActiveJobs = {j}
      /\ jobs' = [jobs EXCEPT ![j] =
            [status |-> "completed", request |-> NoRequest, native |-> worker.native]]
      /\ nodes' = [n \in Nodes |->
            IF n \in Asked(j) THEN Published(n, jobs[j].request[n]) ELSE nodes[n]]
  <2>1. j \in ActiveJobs
    BY DEF WorkerPlaced, Publish, At
  <2>2. ActiveJobs = {j}
    BY <2>1 DEF TablesFit, OneActiveJob
  <2> QED BY <2>1, <2>2 DEF Publish, ActiveJobs
<1> HIDE DEF j
<1>2. ASSUME NEW k \in Jobs
      PROVE  /\ k # j => jobs'[k] = jobs[k]
             /\ jobs'[j].request = NoRequest /\ jobs'[j].status = "completed"
  BY <1>1
<1>3. ActiveJobs' = {}
  BY <1>1, <1>2 DEF ActiveJobs
<1>4. ASSUME NEW n \in Nodes
      PROVE  \/ nodes'[n] = nodes[n]
             \/ /\ n \in Asked(j)
                /\ nodes'[n].active = nodes[n].active /\ nodes'[n].hash = nodes[n].hash
                /\ nodes'[n].revision = nodes[n].revision
                /\ nodes'[n].summary = jobs[j].request[n].hash
                /\ nodes'[n].summaryRevision = jobs[j].request[n].revision
                /\ nodes'[n].status = PublishedStatus(n, jobs[j].request[n])
  BY <1>1 DEF NodeRow, Published
<1>5. OneActiveJob'
  BY <1>3 DEF OneActiveJob
<1>6. ASSUME NEW n \in Nodes PROVE RevisionsOf(n)'
  <2>1. RevisionsOf(n) /\ nodes[n].revision \in Nat
    BY DEF TablesFit, NodeRow
  <2>2. ASSUME NEW k \in Jobs PROVE jobs'[k].request[n].revision <= nodes[n].revision
    <3>1. CASE k = j
      BY <1>2, <2>1, <3>1 DEF NoRequest, NotAsked
    <3>2. CASE k # j
      BY <1>2, <2>1, <3>2 DEF RevisionsOf
    <3> QED BY <3>1, <3>2
  <2>3. n \in Asked(j) => nodes[n].revision # 0
    <3>1. jobs[j].request[n].revision \in Nat
      BY <1>1 DEF JobRow, CutType
    <3> QED BY <1>1, <2>1, <3>1 DEF RevisionsOf, Asked
  <2> QED BY <1>1, <1>4, <2>1, <2>2, <2>3 DEF RevisionsOf, Known
<1>7. FailedIsCurrent'
  <2> SUFFICES ASSUME NEW k \in Jobs, jobs'[k].status = "failed", NEW n \in Nodes,
                      jobs'[k].request[n].revision # 0
               PROVE  nodes'[n].active /\ nodes'[n].revision = jobs'[k].request[n].revision
    BY DEF FailedIsCurrent, Asked
  <2>1. k # j /\ jobs'[k] = jobs[k]
    BY <1>2
  <2>2. nodes'[n].active = nodes[n].active /\ nodes'[n].revision = nodes[n].revision
    BY <1>4
  <2> QED BY <2>1, <2>2 DEF TablesFit, FailedIsCurrent, Asked
<1>8. ASSUME NEW n \in Nodes, Live(n)' PROVE Remembered(n)'
  <2>1. Remembered(n) /\ RevisionsOf(n)
    BY NoneForgotten DEF TablesFit
  <2>2. CASE nodes'[n] = nodes[n]
    <3>1. Live(n)
      BY <1>8, <2>2 DEF Live, Known
    <3>2. nodes[n].status # "updating"
      <4>1. SUFFICES ASSUME nodes[n].status = "updating" PROVE FALSE
        OBVIOUS
      <4>2. Decides(j, n)
        BY <1>1, <2>1, <3>1, <4>1 DEF Remembered
      <4>3. nodes'[n] = Published(n, Cut(n))
        BY <1>1, <4>2 DEF Decides
      <4>4. ~(Cut(n).revision < nodes[n].summaryRevision) /\ nodes[n].active
        BY <2>1, <3>1 DEF RevisionsOf, Cut, Live, NodeRow
      <4>5. nodes'[n].status = "ready"
        BY <4>3, <4>4 DEF Published, PublishedStatus, NodeRow
      <4> QED BY <2>2, <4>1, <4>5
    <3>3. ASSUME nodes[n].status = "failed"
          PROVE  \E k \in Retryable' : Decides(k, n)'
      <4>1. PICK k \in Retryable : Decides(k, n)
        BY <2>1, <3>1, <3>3 DEF Remembered
      <4>2. k # j /\ k \in Jobs
        BY <1>1, <4>1 DEF Retryable
      <4> QED BY <1>2, <2>2, <4>1, <4>2 DEF Retryable, Decides, Asked, Cut
    <3> QED BY <2>1, <2>2, <3>1, <3>2, <3>3 DEF Remembered
  <2>3. CASE nodes'[n] # nodes[n]
    <3>1. nodes'[n].status = PublishedStatus(n, jobs[j].request[n])
      BY <1>4, <2>3
    <3>2. CASE jobs[j].request[n] = Cut(n)
      <4>1. /\ nodes'[n].summary = nodes'[n].hash
            /\ nodes'[n].summaryRevision = nodes'[n].revision
        BY <1>4, <2>3, <3>2 DEF Cut
      <4> QED BY <3>1, <3>2, <4>1 DEF Remembered, PublishedStatus
    <3>3. CASE jobs[j].request[n] # Cut(n)
      BY <3>1, <3>3 DEF Remembered, PublishedStatus
    <3> QED BY <3>2, <3>3
  <2> QED BY <2>2, <2>3
<1> QED BY <1>5, <1>6, <1>7, <1>8 DEF TablesFit, NoNodeForgotten, Remembered

(* A failed job keeps its nodes only if none of them has moved on, also if *)
(* a node came back to the content it was asked about.                     *)
LEMMA FailFits ==
  ASSUME TablesTyped, ProcessesTyped, TablesFit, WorkerPlaced, Fail
  PROVE  TablesFit'
<1> DEFINE j == worker.job
           known == worker.native # NoSession
           N == [n \in Nodes |->
                   IF n \in Asked(j) /\ nodes[n].hash = jobs[j].request[n].hash
                   THEN [nodes[n] EXCEPT !.status = "failed"] ELSE nodes[n]]
           J == [jobs EXCEPT ![j].status = "failed",
                   ![j].native = IF known THEN worker.native ELSE @]
           old == Superseded(N, J)
           freed == {n \in Nodes : \E k \in old : J[k].request[n].revision # 0}
<1> USE DEF TablesTyped
<1>1. /\ j \in Jobs /\ jobs[j].status = "active" /\ ActiveJobs = {j}
      /\ jobs' = [k \in Jobs |->
             IF k \in old THEN [J[k] EXCEPT !.request = NoRequest] ELSE J[k]]
      /\ nodes' = [n \in Nodes |->
             IF n \in freed /\ N[n].status = "failed" /\ N[n].active
             THEN [N[n] EXCEPT !.status = "pending"] ELSE N[n]]
  <2>1. j \in ActiveJobs
    BY DEF WorkerPlaced, Fail, At
  <2>2. ActiveJobs = {j}
    BY <2>1 DEF TablesFit, OneActiveJob
  <2>3. RetireSuperseded(N, J)
    BY DEF Fail
  <2> QED BY <2>1, <2>2, <2>3 DEF RetireSuperseded, ActiveJobs
<1>2. ASSUME NEW k \in Jobs
      PROVE  /\ J[k].request = jobs[k].request
             /\ J[k].status = IF k = j THEN "failed" ELSE jobs[k].status
             /\ jobs'[k].status = J[k].status
             /\ k \notin old => jobs'[k].request = jobs[k].request
             /\ k \in old => jobs'[k].request = NoRequest
  <2>1. J[k].request = jobs[k].request
         /\ J[k].status = IF k = j THEN "failed" ELSE jobs[k].status
    BY DEF JobRow
  <2>2. J \in [Jobs -> JobRow]
    BY <1>1, FailedTypes
  <2> HIDE DEF J
  <2> QED BY <1>1, <2>1, <2>2 DEF JobRow
<1>3. ASSUME NEW n \in Nodes
      PROVE  /\ N[n].active = nodes[n].active
             /\ N[n].revision = nodes[n].revision
             /\ N[n].status = IF n \in Asked(j)
                                   /\ nodes[n].hash = jobs[j].request[n].hash
                              THEN "failed" ELSE nodes[n].status
  BY DEF NodeRow
<1>4. ASSUME NEW n \in Nodes
      PROVE  /\ nodes'[n].active = nodes[n].active /\ nodes'[n].hash = nodes[n].hash
             /\ nodes'[n].revision = nodes[n].revision
             /\ nodes'[n].summary = nodes[n].summary
             /\ nodes'[n].summaryRevision = nodes[n].summaryRevision
             /\ nodes'[n].status =
                  IF n \in freed /\ N[n].status = "failed" /\ N[n].active
                  THEN "pending" ELSE N[n].status
  <2>1. /\ N[n] \in NodeRow /\ N[n].hash = nodes[n].hash
        /\ N[n].summary = nodes[n].summary
        /\ N[n].summaryRevision = nodes[n].summaryRevision
    BY DEF NodeRow
  <2>2. nodes'[n] = IF n \in freed /\ N[n].status = "failed" /\ N[n].active
                    THEN [N[n] EXCEPT !.status = "pending"] ELSE N[n]
    BY <1>1
  <2> HIDE DEF N, freed
  <2> QED BY <1>3, <2>1, <2>2 DEF NodeRow
<1>5. ASSUME NEW k \in Jobs
      PROVE  k \in old <=>
               /\ J[k].status = "failed"
               /\ \E n \in Nodes : /\ jobs[k].request[n].revision # 0
                                   /\ \/ ~nodes[n].active
                                      \/ nodes[n].revision # jobs[k].request[n].revision
  <2>1. J[k].request = jobs[k].request
    BY <1>2
  <2>2. \A n \in Nodes : N[n].active = nodes[n].active /\ N[n].revision = nodes[n].revision
    BY <1>3
  <2> HIDE DEF J, N
  <2> QED BY <2>1, <2>2 DEF Superseded
<1>6. ASSUME NEW k \in old, NEW n \in Nodes, jobs[k].request[n].revision # 0
      PROVE  n \in freed
  <2>1. k \in Jobs
    BY DEF Superseded
  <2> QED BY <1>2, <1>6, <2>1
<1>7. old \subseteq Jobs
  BY DEF Superseded
<1> HIDE DEF j, N, J, old, freed
<1>8. OneActiveJob'
  BY <1>1, <1>2 DEF OneActiveJob, ActiveJobs
<1>9. ASSUME NEW n \in Nodes PROVE RevisionsOf(n)'
  <2>1. RevisionsOf(n) /\ nodes[n].revision \in Nat
    BY DEF TablesFit, NodeRow
  <2>2. ASSUME NEW k \in Jobs PROVE jobs'[k].request[n].revision <= nodes[n].revision
    <3>1. CASE k \in old
      BY <1>2, <2>1, <3>1 DEF NoRequest, NotAsked
    <3>2. CASE k \notin old
      BY <1>2, <2>1, <3>2 DEF RevisionsOf
    <3> QED BY <3>1, <3>2
  <2>3. n \in Asked(j) => nodes[n].revision # 0
    <3>1. jobs[j].request[n].revision \in Nat
      BY <1>1 DEF JobRow, CutType
    <3> QED BY <1>1, <2>1, <3>1 DEF RevisionsOf, Asked
  <2>4. nodes'[n].status # "none" => nodes[n].revision # 0
    BY <1>3, <1>4, <2>1, <2>3 DEF RevisionsOf, Known
  <2> QED BY <1>4, <2>1, <2>2, <2>4 DEF RevisionsOf, Known
<1>10. FailedIsCurrent'
  <2> SUFFICES ASSUME NEW k \in Jobs, jobs'[k].status = "failed", NEW n \in Nodes,
                      jobs'[k].request[n].revision # 0
               PROVE  nodes'[n].active /\ nodes'[n].revision = jobs'[k].request[n].revision
    BY DEF FailedIsCurrent, Asked
  <2>1. k \notin old
    BY <1>2 DEF NoRequest, NotAsked
  <2>2. jobs'[k].request = jobs[k].request /\ J[k].status = "failed"
    BY <1>2, <2>1
  <2>3. nodes[n].active /\ nodes[n].revision = jobs[k].request[n].revision
    BY <1>5, <2>1, <2>2
  <2> QED BY <1>4, <2>2, <2>3
(* A failed job that still has a request about the node's cut.             *)
<1>11. ASSUME NEW n \in Nodes, NEW k \in Jobs, Decides(k, n), k \notin old,
              J[k].status = "failed"
       PROVE  k \in Retryable' /\ Decides(k, n)'
  BY <1>2, <1>4, <1>11 DEF Retryable, Decides, Asked, Cut
<1>12. ASSUME NEW n \in Nodes, Live(n)' PROVE Remembered(n)'
  <2>1. Remembered(n)
    BY NoneForgotten DEF TablesFit
  <2>2. nodes[n].active
    BY <1>4, <1>12 DEF Live
  <2>3. nodes'[n].status # "updating"
    <3>1. SUFFICES ASSUME nodes'[n].status = "updating" PROVE FALSE
      OBVIOUS
    <3>2. nodes[n].status = "updating"
           /\ ~(n \in Asked(j) /\ nodes[n].hash = jobs[j].request[n].hash)
      BY <1>3, <1>4, <3>1
    <3>3. Decides(j, n)
      BY <1>1, <2>1, <2>2, <3>2 DEF Remembered, Live, Known
    <3> QED BY <3>2, <3>3 DEF Decides, Cut
  <2>4. ASSUME nodes'[n].status = "failed"
        PROVE  \E k \in Retryable' : Decides(k, n)'
    <3>1. n \notin freed /\ N[n].status = "failed"
      BY <1>3, <1>4, <2>2, <2>4
    <3>2. CASE n \in Asked(j) /\ nodes[n].hash = jobs[j].request[n].hash
      <4>1. j \notin old
        BY <1>6, <3>1, <3>2 DEF Asked
      <4>2. J[j].status = "failed"
        BY <1>1, <1>2
      <4>3. nodes[n].revision = jobs[j].request[n].revision
        BY <1>1, <1>5, <3>2, <4>1, <4>2 DEF Asked
      <4>4. Decides(j, n)
        <5>1. jobs[j].request[n] \in CutType
          BY <1>1 DEF JobRow
        <5> QED BY <3>2, <4>3, <5>1 DEF Decides, Cut, CutType
      <4> QED BY <1>1, <1>11, <4>1, <4>2, <4>4
    <3>3. CASE ~(n \in Asked(j) /\ nodes[n].hash = jobs[j].request[n].hash)
      <4>1. nodes[n].status = "failed"
        BY <1>3, <3>1, <3>3
      <4>2. PICK k \in Retryable : Decides(k, n)
        BY <2>1, <2>2, <4>1 DEF Remembered, Live, Known
      <4>3. k \in Jobs /\ J[k].status = "failed"
        BY <1>2, <4>2 DEF Retryable
      <4>4. k \notin old
        BY <1>6, <3>1, <4>2 DEF Decides, Asked
      <4> QED BY <1>11, <4>2, <4>3, <4>4
    <3> QED BY <3>2, <3>3
  <2>5. ASSUME nodes'[n].status = "ready"
        PROVE  nodes'[n].summary = nodes'[n].hash
               /\ nodes'[n].summaryRevision = nodes'[n].revision
    <3>1. nodes[n].status = "ready"
      BY <1>3, <1>4, <2>5
    <3> QED BY <1>4, <2>1, <2>2, <3>1 DEF Remembered, Live, Known
  <2> QED BY <2>3, <2>4, <2>5 DEF Remembered
<1> QED BY <1>8, <1>9, <1>10, <1>12 DEF TablesFit, NoNodeForgotten, Remembered

LEMMA TablesStep ==
  ASSUME TimelineTypeOK, TablesFit, WorkerPlaced, NextTimeline
  PROVE  TablesFit'
<1>1. TablesTyped /\ ProcessesTyped
  BY Typed
<1>2. ASSUME UNCHANGED <<nodes, jobs>> PROVE TablesFit'
  BY <1>2 DEF TablesFit, OneActiveJob, RevisionsOf, FailedIsCurrent,
         NoNodeForgotten, ActiveJobs, Retryable, Known, Live, Asked, Decides, Cut
<1>3. ASSUME Claim PROVE TablesFit'
  BY <1>1, <1>2, <1>3, ClaimFailedFits, ClaimPendingFits
     DEF Claim, ClaimActive, storeVars
<1>4. ASSUME Work PROVE TablesFit'
  <2>1. CASE ScanBeforePublication
    BY <1>1, <2>1, SyncFits DEF ScanBeforePublication
  <2>2. CASE Fail
    BY <1>1, <2>2, FailFits
  <2>3. CASE Publish
    BY <1>1, <2>3, PublishFits
  <2>4. ASSUME ~ScanBeforePublication, ~Fail, ~Publish
        PROVE  UNCHANGED <<nodes, jobs>>
    BY <1>4, <2>4
       DEF Work, Launch, LaunchFails, Recover, FindPending, CancelTimedOut, Return,
           LoseResponse, HandleError, PublicationFails, Finish, Defer, storeVars
  <2> QED BY <1>2, <2>1, <2>2, <2>3, <2>4
<1>5. CASE Scan
  BY <1>1, <1>5, SyncFits DEF Scan
<1>6. ASSUME ~Scan, ~Claim, ~Work PROVE UNCHANGED <<nodes, jobs>>
  BY <1>6 DEF NextTimeline, SourceChanges, Restart, TimePasses, ProviderEnds, storeVars
<1> QED BY <1>2, <1>3, <1>4, <1>5, <1>6

-----------------------------------------------------------------------------
(* The worker and the provider                                             *)

(* Which job is active is changed by claim, fail and publish only.         *)
PlacesFit == OneProviderAtATime /\ WorkerPlaced

LEMMA WorkFits ==
  ASSUME TimelineTypeOK, TablesFit, PlacesFit, Work
  PROVE  PlacesFit'
<1>1. TablesTyped /\ ProcessesTyped
  BY Typed
<1>2. ASSUME At("claimed") \/ At("calling") \/ At("raised") \/ At("failing") \/ At("returned")
      PROVE  worker.job \in Jobs /\ ActiveJobs = {worker.job}
  BY <1>2 DEF PlacesFit, WorkerPlaced, TablesFit, OneActiveJob, ActiveJobs, At
<1>3. ASSUME NEW pc \in Places, NEW x \in Refs, Goes(pc, x)
      PROVE  worker'.pc = pc /\ worker'.job = worker.job
  BY <1>1, <1>3 DEF Goes, ProcessesTyped
<1>4. Quiet.pc = "idle"
  BY DEF Quiet
<1>5. ASSUME UNCHANGED <<jobs, provider>> PROVE OneProviderAtATime'
  BY <1>5 DEF PlacesFit, OneProviderAtATime, ActiveJobs
<1>6. ASSUME UNCHANGED <<jobs, provider>>, worker'.pc = "idle" PROVE PlacesFit'
  BY <1>5, <1>6 DEF PlacesFit, WorkerPlaced, At
<1>7. ASSUME Defer PROVE PlacesFit'
  BY <1>4, <1>6, <1>7 DEF Defer
(* The worker goes on with the job it has.                                 *)
<1>8. ASSUME worker'.job = worker.job, worker.job \in Jobs, UNCHANGED jobs,
             ActiveJobs = {worker.job}, OneProviderAtATime',
             worker'.pc \in {"failing", "returned"} =>
               provider'[worker.job].state # "running"
      PROVE  PlacesFit'
  BY <1>8 DEF PlacesFit, WorkerPlaced, At, ActiveJobs
<1>9. NoSession \in Refs /\ worker.native \in Refs
  BY <1>1 DEF Refs, ProcessesTyped
<1>10. CASE Launch
  <2>1. worker'.pc = "calling" /\ worker'.job = worker.job
    BY <1>3, <1>9, <1>10 DEF Launch, Places
  <2>2. OneProviderAtATime'
    BY <1>1, <1>2, <1>10
       DEF Launch, PlacesFit, OneProviderAtATime, ActiveJobs, storeVars, ProcessesTyped
  <2> QED BY <1>2, <1>8, <1>10, <2>1, <2>2 DEF Launch, storeVars
<1>11. CASE LaunchFails \/ LoseResponse
  <2>1. worker'.pc = "raised" /\ worker'.job = worker.job
    BY <1>3, <1>9, <1>11 DEF LaunchFails, LoseResponse, Places
  <2> QED BY <1>2, <1>5, <1>8, <1>11, <2>1 DEF LaunchFails, LoseResponse, storeVars
<1>12. CASE Recover \/ Return
  <2>1. worker.job \in Jobs /\ Answered(worker.job) /\ UNCHANGED <<jobs, provider>>
    BY <1>2, <1>12 DEF Recover, Return, storeVars
  <2>2. /\ worker'.job = worker.job /\ worker'.pc \in {"returned", "raised"}
        /\ worker'.pc = "returned" => provider[worker.job].state = "valid"
    BY <1>1, <1>3, <1>9, <2>1 DEF Answered, Places, ProcessesTyped
  <2> QED BY <1>2, <1>5, <1>8, <1>12, <2>1, <2>2 DEF Recover, Return
<1>13. CASE FindPending \/ PublicationFails
  BY <1>7, <1>13 DEF FindPending, PublicationFails
<1>14. CASE CancelTimedOut
  <2>1. worker'.pc = "failing" /\ worker'.job = worker.job
    BY <1>3, <1>9, <1>14 DEF CancelTimedOut, Places
  <2>2. /\ provider'[worker.job].state = "broken" /\ UNCHANGED jobs
        /\ \A j \in Jobs : j # worker.job => provider'[j] = provider[j]
    BY <1>1, <1>2, <1>14 DEF CancelTimedOut, ProcessesTyped, storeVars
  <2>3. OneProviderAtATime'
    BY <2>2 DEF PlacesFit, OneProviderAtATime, ActiveJobs
  <2> QED BY <1>2, <1>8, <1>14, <2>1, <2>2, <2>3 DEF CancelTimedOut
<1>15. CASE HandleError
  <2>1. CASE ProvenStopped(worker.job) /\ Goes("failing", worker.native)
               /\ UNCHANGED <<sourceVars, storeVars, provider, mishaps>>
    <3>1. worker'.pc = "failing" /\ worker'.job = worker.job
      BY <1>3, <1>9, <2>1 DEF Places
    <3> QED BY <1>2, <1>5, <1>8, <1>15, <2>1, <3>1
            DEF HandleError, ProvenStopped, storeVars
  <2> QED BY <1>7, <1>15, <2>1 DEF HandleError
<1>16. CASE ScanBeforePublication
  <2>1. /\ \A j \in Jobs : jobs'[j].status = jobs[j].status
        /\ UNCHANGED <<worker, provider>>
    BY <1>1, <1>16
       DEF ScanBeforePublication, Sync, RetireSuperseded, TablesTyped, JobRow
  <2> QED BY <2>1 DEF PlacesFit, OneProviderAtATime, WorkerPlaced, ActiveJobs, At
<1>17. CASE Fail \/ Publish
  <2>1. worker'.pc = "finish" /\ worker'.job = worker.job /\ UNCHANGED provider
    BY <1>3, <1>9, <1>17 DEF Fail, Publish, Places
  <2>2. \A j \in Jobs : provider[j].state # "running"
    BY <1>2, <1>17 DEF Fail, Publish, PlacesFit, OneProviderAtATime, WorkerPlaced, At
  <2> QED BY <1>2, <1>17, <2>1, <2>2
          DEF Fail, Publish, PlacesFit, OneProviderAtATime, WorkerPlaced, At
<1>18. CASE Finish
  <2>1. /\ worker'.pc = "idle" /\ UNCHANGED jobs
        /\ \A j \in Jobs : provider'[j].state = "running" => provider[j].state = "running"
    BY <1>1, <1>4, <1>18 DEF Finish, storeVars, ProcessesTyped, NoProvider
  <2> QED BY <2>1 DEF PlacesFit, OneProviderAtATime, WorkerPlaced, ActiveJobs, At
<1> QED
  BY <1>10, <1>11, <1>12, <1>13, <1>14, <1>15, <1>16, <1>17, <1>18 DEF Work

LEMMA PlacesStep ==
  ASSUME TimelineTypeOK, TablesFit, PlacesFit, NextTimeline
  PROVE  PlacesFit'
<1>1. TablesTyped /\ ProcessesTyped
  BY Typed
<1>2. ASSUME UNCHANGED <<jobs, provider>>,
             worker'.pc = "idle" \/ UNCHANGED worker
      PROVE  PlacesFit'
  BY <1>2 DEF PlacesFit, OneProviderAtATime, WorkerPlaced, ActiveJobs, At
<1>3. CASE Scan
  <2>1. /\ \A j \in Jobs : jobs'[j].status = jobs[j].status
        /\ UNCHANGED <<worker, provider>>
    BY <1>1, <1>3 DEF Scan, Sync, RetireSuperseded, TablesTyped, JobRow
  <2> QED BY <2>1 DEF PlacesFit, OneProviderAtATime, WorkerPlaced, ActiveJobs, At
<1>4. ASSUME NEW j \in Jobs, ClaimActive(j) PROVE PlacesFit'
  BY <1>4 DEF ClaimActive, Claims, storeVars, PlacesFit, OneProviderAtATime,
              WorkerPlaced, ActiveJobs, At
<1>5. ASSUME NEW j \in Jobs, ActiveJobs = {}, Claims(j),
             jobs'[j].status = "active",
             \A k \in Jobs : provider'[k].state = "running" =>
                               provider[k].state = "running"
      PROVE  PlacesFit'
  BY <1>5 DEF Claims, PlacesFit, OneProviderAtATime, WorkerPlaced, ActiveJobs, At
<1>6. ASSUME NEW j \in Jobs, ClaimFailed(j) PROVE PlacesFit'
  BY <1>1, <1>5, <1>6 DEF ClaimFailed, TablesTyped, JobRow
<1>7. ASSUME NEW j \in Jobs, NEW batch \in SUBSET Nodes, ClaimPending(j, batch)
      PROVE  PlacesFit'
  <2>1. jobs'[j].status = "active"
    BY <1>1, <1>7 DEF ClaimPending, TablesTyped
  <2>2. \A k \in Jobs : provider'[k].state = "running" => provider[k].state = "running"
    BY <1>1, <1>7 DEF ClaimPending, ProcessesTyped, NoProvider
  <2> QED BY <1>5, <1>7, <2>1, <2>2 DEF ClaimPending
<1>8. CASE Work
  BY <1>8, WorkFits
<1>9. ASSUME NEW j \in Jobs, NEW outcome \in Outcomes, ProviderEnds(j, outcome)
      PROVE  PlacesFit'
  <2>1. /\ provider'[j].state # "running" /\ UNCHANGED <<jobs, worker>>
        /\ \A k \in Jobs : k # j => provider'[k] = provider[k]
    BY <1>1, <1>9 DEF ProviderEnds, ProcessesTyped, storeVars, Outcomes
  <2> QED BY <2>1 DEF PlacesFit, OneProviderAtATime, WorkerPlaced, ActiveJobs, At
<1>10. CASE Restart
  BY <1>2, <1>10 DEF Restart, Quiet, storeVars
<1>11. ASSUME NEW n \in Nodes, SourceChanges(n) PROVE PlacesFit'
  BY <1>2, <1>11 DEF SourceChanges, storeVars
<1>12. ASSUME NEW j \in Jobs, TimePasses(j) PROVE PlacesFit'
  BY <1>2, <1>12 DEF TimePasses
<1> QED
  BY <1>3, <1>4, <1>6, <1>7, <1>8, <1>9, <1>10, <1>11, <1>12 DEF NextTimeline, Claim

-----------------------------------------------------------------------------
(* Theorems                                                                *)

(* No step of the worker, the clock, the provider or the sources breaks    *)
(* the invariant.                                                          *)
LEMMA TimelineStep ==
  TimelineInvariant /\ [NextTimeline]_timelineVars => TimelineInvariant'
<1> SUFFICES ASSUME TimelineInvariant, [NextTimeline]_timelineVars
             PROVE  TimelineInvariant'
  OBVIOUS
<1>1. CASE NextTimeline
  BY <1>1, TypeStep, TablesStep, PlacesStep DEF TimelineInvariant, PlacesFit
<1>2. CASE UNCHANGED timelineVars
  BY <1>2 DEF timelineVars, TimelineInvariant, TimelineTypeOK, TablesFit, OneActiveJob,
              RevisionsOf, FailedIsCurrent, NoNodeForgotten, OneProviderAtATime,
              WorkerPlaced, ActiveJobs, Retryable, Known, Live, Asked, Decides, Cut, At
<1> QED BY <1>1, <1>2

(* The tables of the recorder, the place of its worker and the providers   *)
(* fit together in every state.                                            *)
THEOREM SummariesFit == SpecTimeline => []TimelineInvariant
  BY TimelineInit, TimelineStep, PTL DEF SpecTimeline

(* Every column and every place keeps its type.                            *)
THEOREM TimelineTypeCorrect == SpecTimeline => []TimelineTypeOK
  BY SummariesFit, PTL DEF TimelineInvariant

(* Whatever fails or is observed meanwhile, a node that is being updated   *)
(* or has failed is in a job about its last cut, and a ready one shows it. *)
THEOREM EveryNodeRemembered == SpecTimeline => []NoNodeForgotten
  BY SummariesFit, PTL DEF TimelineInvariant, TablesFit

(* process_once never starts a provider beside another one, whatever ended *)
(* or outlived the daemon.                                                 *)
THEOREM NoOverlap == SpecTimeline => []OneProviderAtATime
  BY SummariesFit, PTL DEF TimelineInvariant

LEMMA SummariesMoveOn ==
  TimelineInvariant /\ [NextTimeline]_timelineVars =>
    [\A n \in Nodes :
       nodes'[n].summaryRevision >= nodes[n].summaryRevision]_timelineVars
<1> SUFFICES ASSUME TimelineInvariant, NextTimeline, NEW n \in Nodes
             PROVE  nodes'[n].summaryRevision >= nodes[n].summaryRevision
  OBVIOUS
<1>1. TablesTyped /\ ProcessesTyped /\ nodes[n].summaryRevision \in Nat
  BY Typed DEF TimelineInvariant, TablesTyped, NodeRow
<1>2. CASE Scan \/ ScanBeforePublication
  <2>1. Sync
    BY <1>2 DEF Scan, ScanBeforePublication
  <2>2. Observed(n) \in NodeRow /\ Observed(n).summaryRevision = nodes[n].summaryRevision
    BY <1>1, ObservedTypes DEF Observed, TablesTyped, NodeRow
  <2>3. nodes'[n].summaryRevision = Observed(n).summaryRevision
    BY <2>1, <2>2 DEF Sync, RetireSuperseded, NodeRow
  <2> QED BY <1>1, <2>2, <2>3
<1>3. ASSUME NEW j \in Jobs, ClaimFailed(j)
             \/ \E batch \in SUBSET Nodes : ClaimPending(j, batch)
      PROVE  nodes'[n].summaryRevision = nodes[n].summaryRevision
  BY <1>1, <1>3 DEF ClaimFailed, ClaimPending, TablesTyped, NodeRow
<1>4. CASE Fail
  <2> DEFINE N == [m \in Nodes |->
               IF m \in Asked(worker.job)
                    /\ nodes[m].hash = jobs[worker.job].request[m].hash
               THEN [nodes[m] EXCEPT !.status = "failed"] ELSE nodes[m]]
  <2>1. N[n] \in NodeRow /\ N[n].summaryRevision = nodes[n].summaryRevision
    BY <1>1 DEF TablesTyped, NodeRow
  <2>2. nodes'[n] = N[n] \/ nodes'[n] = [N[n] EXCEPT !.status = "pending"]
    BY <1>4 DEF Fail, RetireSuperseded
  <2> HIDE DEF N
  <2> QED BY <1>1, <2>1, <2>2 DEF NodeRow
<1>5. CASE Publish
  <2>1. worker.job \in Jobs /\ jobs[worker.job].request[n] \in CutType
    BY <1>1, <1>5 DEF TimelineInvariant, WorkerPlaced, At, Publish, TablesTyped, JobRow
  <2>2. nodes'[n] = nodes[n] \/ nodes'[n] = Published(n, jobs[worker.job].request[n])
    BY <1>5 DEF Publish
  <2>3. Published(n, jobs[worker.job].request[n]).summaryRevision
          >= nodes[n].summaryRevision
    BY <1>1, <2>1 DEF Published, TablesTyped, NodeRow, CutType
  <2> QED BY <1>1, <2>2, <2>3
<1>6. CASE UNCHANGED nodes
  BY <1>1, <1>6
<1>7. \/ UNCHANGED nodes \/ Scan \/ ScanBeforePublication \/ Fail \/ Publish
      \/ \E j \in Jobs : ClaimFailed(j) \/ \E batch \in SUBSET Nodes : ClaimPending(j, batch)
  BY DEF NextTimeline, SourceChanges, Restart, TimePasses, ProviderEnds, storeVars,
         Work, Launch, LaunchFails, Recover, FindPending, CancelTimedOut, Return,
         LoseResponse, HandleError, PublicationFails, Finish, Defer, Claim, ClaimActive
<1> QED BY <1>1, <1>2, <1>3, <1>4, <1>5, <1>6, <1>7

(* publish never replaces a sentence by one about an older cut, however    *)
(* late it arrives.                                                        *)
THEOREM SentencesMoveOn == SpecTimeline => SummaryNeverOlder
  BY SummariesFit, SummariesMoveOn, PTL DEF SpecTimeline, SummaryNeverOlder

=============================================================================
