-------------------------- MODULE TimelineSummaries --------------------------
(***************************************************************************)
(* The recorder's reading notes for the timeline of one Quest: the worker  *)
(* observes the sources of every node, claims batches of changed nodes as  *)
(* durable jobs, has an external provider summarize them, and publishes.   *)
(* Sources go on changing meanwhile, providers fail or outlive the daemon, *)
(* and the daemon may die between any two transactions.                    *)
(*                                                                         *)
(* retry_at is a time in the future or the past: `waiting` has the jobs    *)
(* for which it lies ahead.  A finished or superseded job keeps no request *)
(* ('{}'), is never looked at again, and its name is used for a new one.   *)
(***************************************************************************)
EXTENDS FiniteSets, Naturals

CONSTANTS
  Nodes,        \* the nodes of the timeline
  Hashes,       \* the contents a node's sources can have
  Gone,         \* a node that is not in the observed cut
  Jobs,         \* the names of summary jobs
  NoJob,
  NoSession,    \* no native session of the provider
  MaxChanges,   \* bound on the changes of the sources
  MaxMishaps    \* bound on the failures and restarts

ASSUME TimelineAssumption ==
  /\ Gone \notin Hashes
  /\ NoJob \notin Jobs /\ NoSession \notin Jobs
  /\ MaxChanges \in Nat /\ MaxMishaps \in Nat

VARIABLES
  source,       \* what the sources of each node hold now
  changes,      \* how often they have changed
  nodes,        \* table nodes
  jobs,         \* table jobs
  waiting,      \* jobs whose retry_at lies in the future
  native,       \* quests.native_session_ref
  provider,     \* the durable directory of each job and its process
  worker,       \* TimelineSummaryService.process_once
  mishaps       \* how often something has failed

sourceVars == <<source, changes>>
storeVars == <<nodes, jobs, waiting, native>>
timelineVars == <<source, changes, nodes, jobs, waiting, native, provider,
                  worker, mishaps>>

-----------------------------------------------------------------------------
(* A batch has, for each node, the cut it is to summarize; revision 0 says *)
(* that the node is not in it.  A session is named by the job that         *)
(* started it.                                                             *)

NotAsked == [hash |-> Gone, revision |-> 0]
NoRequest == [n \in Nodes |-> NotAsked]
Asked(j) == {n \in Nodes : jobs[j].request[n].revision # 0}
Cut(n) == [hash |-> nodes[n].hash, revision |-> nodes[n].revision]

Known(n) == nodes[n].status # "none"
Live(n) == Known(n) /\ nodes[n].active

ActiveJobs == {j \in Jobs : jobs[j].status = "active"}
Retryable == {j \in Jobs : jobs[j].status = "failed" /\ Asked(j) # {}}
Unused == {j \in Jobs : jobs[j].status # "active" /\ Asked(j) = {}}

Quiet == [pc |-> "idle", job |-> NoJob, native |-> NoSession]
NoProvider == [state |-> "absent", native |-> NoSession]

At(pc) == worker.pc = pc
Goes(pc, session) == worker' = [worker EXCEPT !.pc = pc, !.native = session]

InitTimeline ==
  /\ source \in [Nodes -> Hashes]
  /\ changes = 0
  /\ nodes = [n \in Nodes |->
       [hash |-> Gone, revision |-> 0, active |-> FALSE, status |-> "none",
        summary |-> Gone, summaryRevision |-> 0]]
  /\ jobs = [j \in Jobs |->
       [status |-> "completed", request |-> NoRequest, native |-> NoSession]]
  /\ waiting = {}
  /\ native = NoSession
  /\ provider = [j \in Jobs |-> NoProvider]
  /\ worker = Quiet
  /\ mishaps = 0

-----------------------------------------------------------------------------
(* Sources                                                                 *)

SourceChanges(n) ==
  /\ changes < MaxChanges
  /\ \E h \in (Hashes \cup {Gone}) \ {source[n]} :
       source' = [source EXCEPT ![n] = h]
  /\ changes' = changes + 1
  /\ UNCHANGED <<storeVars, provider, worker, mishaps>>

(* _retire_superseded, on tables that another statement of the same        *)
(* transaction has changed: a failed job of which one node has moved on    *)
(* loses its request, and what is left of its nodes is pending again.      *)
Superseded(N, J) ==
  {j \in Jobs :
     /\ J[j].status = "failed"
     /\ \E n \in Nodes :
          /\ J[j].request[n].revision # 0
          /\ ~N[n].active \/ N[n].revision # J[j].request[n].revision}

(* Mutant: the other nodes of a superseded job are left failed.            *)
RetireJobsOnly(N, J) ==
  /\ jobs' = [j \in Jobs |->
       IF j \in Superseded(N, J) THEN [J[j] EXCEPT !.request = NoRequest] ELSE J[j]]
  /\ nodes' = N

RetireSuperseded(N, J) ==
  LET old == Superseded(N, J)
      freed == {n \in Nodes : \E j \in old : J[j].request[n].revision # 0}
  IN
  /\ jobs' = [j \in Jobs |->
                IF j \in old THEN [J[j] EXCEPT !.request = NoRequest] ELSE J[j]]
  /\ nodes' = [n \in Nodes |->
                 IF n \in freed /\ N[n].status = "failed" /\ N[n].active
                 THEN [N[n] EXCEPT !.status = "pending"] ELSE N[n]]

(* Mutant: the row of a changed node is replaced, its sentence lost.       *)
ObservedAsNew(n) ==
  IF source[n] = Gone THEN [nodes[n] EXCEPT !.active = FALSE]
  ELSE IF Live(n) /\ nodes[n].hash = source[n] THEN nodes[n]
  ELSE [hash |-> source[n], revision |-> nodes[n].revision + 1, active |-> TRUE,
        status |-> "pending", summary |-> Gone, summaryRevision |-> 0]

(* The row of a node after an observation.                                 *)
Observed(n) ==
  IF source[n] = Gone THEN [nodes[n] EXCEPT !.active = FALSE]
  ELSE IF Live(n) /\ nodes[n].hash = source[n] THEN nodes[n]
  ELSE [nodes[n] EXCEPT !.hash = source[n], !.revision = @ + 1,
                        !.active = TRUE, !.status = "pending"]

(* sync: the scan of a Quest replaces the observed cut.                    *)
Sync ==
  LET N == [n \in Nodes |-> Observed(n)] IN
  /\ N # nodes
  /\ RetireSuperseded(N, jobs)
  /\ UNCHANGED <<sourceVars, waiting, native, mishaps, provider, worker>>

(* A scan at the start of a round, and the one before a publication.       *)
Scan == At("idle") /\ Sync
ScanBeforePublication == At("returned") /\ Sync

-----------------------------------------------------------------------------
(* claim                                                                   *)

Claims(j) == worker' = [pc |-> "claimed", job |-> j, native |-> NoSession]

(* An active job is claimed again until it is decided.                     *)
ClaimActive(j) ==
  /\ At("idle")
  /\ j \in ActiveJobs \ waiting
  /\ Claims(j)
  /\ UNCHANGED <<sourceVars, storeVars, provider, mishaps>>

(* A failed job is claimed with the basis it had.                          *)
ClaimFailed(j) ==
  /\ At("idle")
  /\ ActiveJobs = {}
  /\ j \in Retryable \ waiting
  /\ jobs' = [jobs EXCEPT ![j].status = "active"]
  /\ nodes' = [n \in Nodes |->
       IF /\ n \in Asked(j) /\ nodes[n].active
          /\ nodes[n].hash = jobs[j].request[n].hash
       THEN [nodes[n] EXCEPT !.status = "updating"] ELSE nodes[n]]
  /\ Claims(j)
  /\ UNCHANGED <<sourceVars, waiting, native, mishaps, provider>>

Pending == {n \in Nodes : Live(n) /\ nodes[n].status = "pending"}

(* A new job for some of the pending nodes, as many as the batch holds.    *)
ClaimPending(j, batch) ==
  /\ At("idle")
  /\ ActiveJobs = {} /\ Retryable \subseteq waiting
  /\ batch # {} /\ batch \subseteq Pending
  /\ Unused # {} /\ j = CHOOSE u \in Unused : TRUE
  /\ jobs' = [jobs EXCEPT ![j] =
       [status |-> "active", native |-> native,
        request |-> [n \in Nodes |-> IF n \in batch THEN Cut(n) ELSE NotAsked]]]
  /\ nodes' = [n \in Nodes |->
       IF n \in batch THEN [nodes[n] EXCEPT !.status = "updating"] ELSE nodes[n]]
  /\ waiting' = waiting \ {j}
  /\ provider' = [provider EXCEPT ![j] = NoProvider]
  /\ Claims(j)
  /\ UNCHANGED <<sourceVars, native, mishaps>>

(* The clock reaches retry_at.                                             *)
TimePasses(j) ==
  /\ j \in waiting
  /\ waiting' = waiting \ {j}
  /\ UNCHANGED <<sourceVars, nodes, jobs, native, mishaps, provider, worker>>

(* defer: the job stays active and is looked at later.                     *)
Defer ==
  /\ waiting' = waiting \cup {worker.job}
  /\ worker' = Quiet
  /\ UNCHANGED <<sourceVars, nodes, jobs, native, provider>>

-----------------------------------------------------------------------------
(* The provider: a supervised process that outlives the daemon.  It ends   *)
(* with a valid answer, with an invalid one whose session is known, or     *)
(* broken.                                                                 *)

Outcomes == {"valid", "invalid", "broken"}
Session(j) == IF jobs[j].native = NoSession THEN j ELSE jobs[j].native

Mishap == mishaps < MaxMishaps /\ mishaps' = mishaps + 1

ProviderEnds(j, outcome) ==
  /\ provider[j].state = "running"
  /\ provider' = [provider EXCEPT ![j] = [state |-> outcome, native |-> Session(j)]]
  /\ IF outcome = "valid" THEN UNCHANGED mishaps ELSE Mishap
  /\ UNCHANGED <<sourceVars, storeVars, worker>>

(* What the provider adapter returns or raises for an ended process.       *)
Answered(j) ==
  \/ provider[j].state = "valid" /\ Goes("returned", provider[j].native)
  \/ provider[j].state = "invalid" /\ Goes("raised", provider[j].native)
  \/ provider[j].state = "broken" /\ Goes("raised", NoSession)

-----------------------------------------------------------------------------
(* process_once, after the claim                                           *)

(* reconcile_job finds nothing: summarize launches the provider ...        *)
Launch ==
  /\ At("claimed") /\ provider[worker.job].state = "absent"
  /\ provider' = [provider EXCEPT ![worker.job].state = "running"]
  /\ Goes("calling", NoSession)
  /\ UNCHANGED <<sourceVars, storeVars, mishaps>>

(* ... or raises before it does.                                           *)
LaunchFails ==
  /\ At("claimed") /\ provider[worker.job].state = "absent"
  /\ Goes("raised", NoSession)
  /\ Mishap
  /\ UNCHANGED <<sourceVars, storeVars, provider>>

(* reconcile_job finds a terminal job: recover_summaries reads it.         *)
Recover ==
  /\ At("claimed")
  /\ Answered(worker.job)
  /\ UNCHANGED <<sourceVars, storeVars, provider, mishaps>>

FindPending ==
  /\ At("claimed") /\ provider[worker.job].state = "running"
  /\ Defer /\ UNCHANGED mishaps

(* Past the timeout a pending job is cancelled and, when the cancellation  *)
(* is confirmed, fails.                                                    *)
CancelTimedOut ==
  LET j == worker.job IN
  /\ At("claimed") /\ provider[j].state = "running"
  /\ provider' = [provider EXCEPT ![j] = [state |-> "broken", native |-> NoSession]]
  /\ Goes("failing", NoSession)
  /\ Mishap
  /\ UNCHANGED <<sourceVars, storeVars>>

(* summarize returns or raises ...                                         *)
Return ==
  /\ At("calling")
  /\ Answered(worker.job)
  /\ UNCHANGED <<sourceVars, storeVars, provider, mishaps>>

(* ... or its response is lost.                                            *)
LoseResponse ==
  /\ At("calling")
  /\ Goes("raised", NoSession)
  /\ Mishap
  /\ UNCHANGED <<sourceVars, storeVars, provider>>

(* Mutant: an exception means that the provider is gone.                   *)
BelievedStopped(j) == TRUE

(* An exception is no proof that the provider has stopped.                 *)
ProvenStopped(j) == provider[j].state # "running"

HandleError ==
  /\ At("raised")
  /\ \/ ~ProvenStopped(worker.job) /\ Defer /\ UNCHANGED mishaps
     \/ /\ ProvenStopped(worker.job)
        /\ Goes("failing", worker.native)
        /\ UNCHANGED <<sourceVars, storeVars, provider, mishaps>>

(* fail                                                                    *)
Fail ==
  LET j == worker.job
      known == worker.native # NoSession
      N == [n \in Nodes |->
              IF n \in Asked(j) /\ nodes[n].hash = jobs[j].request[n].hash
              THEN [nodes[n] EXCEPT !.status = "failed"] ELSE nodes[n]]
      J == [jobs EXCEPT ![j].status = "failed",
              ![j].native = IF known THEN worker.native ELSE @]
  IN
  /\ At("failing")
  /\ native' = IF known THEN worker.native ELSE native
  /\ waiting' = waiting \cup {j}
  /\ RetireSuperseded(N, J)
  /\ Goes("finish", NoSession)
  /\ UNCHANGED <<sourceVars, provider, mishaps>>

(* Mutants: the job's status is stored; a late first draft counts as ready. *)
JobStatus(n, cut) == IF cut = Cut(n) THEN "completed" ELSE "pending"
LateIsReady(n, cut) == "ready"

PublishedStatus(n, cut) == IF cut = Cut(n) THEN "ready" ELSE "pending"

(* The row of a node after publish.                                        *)
Published(n, cut) ==
  IF ~nodes[n].active \/ cut.revision < nodes[n].summaryRevision THEN nodes[n]
  ELSE [nodes[n] EXCEPT
          !.summary = cut.hash, !.summaryRevision = cut.revision,
          !.status = PublishedStatus(n, cut)]

Publish ==
  LET j == worker.job IN
  /\ At("returned")
  /\ nodes' = [n \in Nodes |->
       IF n \in Asked(j) THEN Published(n, jobs[j].request[n]) ELSE nodes[n]]
  /\ jobs' = [jobs EXCEPT ![j] =
       [status |-> "completed", request |-> NoRequest, native |-> worker.native]]
  /\ native' = worker.native
  /\ Goes("finish", NoSession)
  /\ UNCHANGED <<sourceVars, waiting, mishaps, provider>>

PublicationFails == At("returned") /\ Defer /\ Mishap

(* finish_job removes the directory of the job.                            *)
Finish ==
  /\ At("finish")
  /\ provider' = [provider EXCEPT ![worker.job] = NoProvider]
  /\ worker' = Quiet
  /\ UNCHANGED <<sourceVars, storeVars, mishaps>>

(* The daemon stops or dies; the provider may go on.                       *)
Restart ==
  /\ ~At("idle")
  /\ worker' = Quiet
  /\ Mishap
  /\ UNCHANGED <<sourceVars, storeVars, provider>>

-----------------------------------------------------------------------------
Claim ==
  \E j \in Jobs :
    \/ ClaimActive(j) \/ ClaimFailed(j)
    \/ \E batch \in SUBSET Nodes : ClaimPending(j, batch)

Work ==
  \/ Launch \/ LaunchFails \/ Recover \/ FindPending \/ CancelTimedOut
  \/ Return \/ LoseResponse \/ HandleError \/ Fail
  \/ ScanBeforePublication \/ Publish \/ PublicationFails \/ Finish

NextTimeline ==
  \/ \E n \in Nodes : SourceChanges(n)
  \/ Scan \/ Claim \/ Work \/ Restart
  \/ \E j \in Jobs : TimePasses(j)
  \/ \E j \in Jobs, outcome \in Outcomes : ProviderEnds(j, outcome)

SpecTimeline == InitTimeline /\ [][NextTimeline]_timelineVars

(* The background worker comes round again and again, the clock goes on,   *)
(* and a provider ends, by itself or at its time limit.  What fails, fails *)
(* at most MaxMishaps times.                                               *)
TimelineFairness ==
  /\ WF_timelineVars(Scan \/ Claim \/ Work)
  /\ WF_timelineVars(\E j \in Jobs : TimePasses(j))
  /\ WF_timelineVars(\E j \in Jobs, outcome \in Outcomes : ProviderEnds(j, outcome))

FairTimeline == SpecTimeline /\ TimelineFairness

-----------------------------------------------------------------------------
(* Types                                                                   *)

CutType == [hash : Hashes \cup {Gone}, revision : Nat]

TimelineTypeOK ==
  /\ source \in [Nodes -> Hashes \cup {Gone}]
  /\ changes \in 0 .. MaxChanges /\ mishaps \in 0 .. MaxMishaps
  /\ nodes \in [Nodes ->
       [hash : Hashes \cup {Gone}, revision : Nat, active : BOOLEAN,
        status : {"none", "pending", "updating", "ready", "failed"},
        summary : Hashes \cup {Gone}, summaryRevision : Nat]]
  /\ jobs \in [Jobs -> [status : {"active", "failed", "completed"},
                        request : [Nodes -> CutType],
                        native : Jobs \cup {NoSession}]]
  /\ waiting \subseteq Jobs
  /\ native \in Jobs \cup {NoSession}
  /\ provider \in [Jobs -> [state : {"absent", "running"} \cup Outcomes,
                            native : Jobs \cup {NoSession}]]
  /\ worker \in [pc : {"idle", "claimed", "calling", "raised", "failing",
                       "returned", "finish"},
                 job : Jobs \cup {NoJob}, native : Jobs \cup {NoSession}]

-----------------------------------------------------------------------------
(* Properties                                                              *)

Decides(j, n) == n \in Asked(j) /\ jobs[j].request[n] = Cut(n)

(* No node is forgotten: one that is being updated is in the active job,   *)
(* one that failed is in a failed job that will be retried with the same   *)
(* cut, and one that is ready shows the cut observed last.                 *)
NoNodeForgotten ==
  \A n \in Nodes : Live(n) =>
    CASE nodes[n].status = "updating" -> \E j \in ActiveJobs : Decides(j, n)
      [] nodes[n].status = "failed" -> \E j \in Retryable : Decides(j, n)
      [] nodes[n].status = "ready" ->
           /\ nodes[n].summary = nodes[n].hash
           /\ nodes[n].summaryRevision = nodes[n].revision
      [] OTHER -> TRUE

(* "retry could overlap the same native Session" (process_once): at most   *)
(* one provider runs, and for the job that is active.                      *)
OneProviderAtATime ==
  \A j \in Jobs : provider[j].state = "running" => ActiveJobs = {j}

(* A sentence is never replaced by one about an older cut.                 *)
SummaryNeverOlder ==
  [][\A n \in Nodes :
       nodes'[n].summaryRevision >= nodes[n].summaryRevision]_timelineVars

(* Once the sources rest, every node comes to show what they say.          *)
EventuallyRead ==
  <>[](\A n \in Nodes :
         IF source[n] = Gone THEN ~Live(n)
         ELSE Live(n) /\ nodes[n].status = "ready" /\ nodes[n].summary = source[n])

=============================================================================
