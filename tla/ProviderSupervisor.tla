------------------------- MODULE ProviderSupervisor -------------------------
(***************************************************************************)
(* One durable provider operation on POSIX: the daemon launches detached   *)
(* supervisors for it, at first and again when it retries or has been      *)
(* restarted; a supervisor holds the file lock of the operation, starts    *)
(* the provider, and seals an exit receipt.  The daemon may ask for a stop *)
(* or conclude that nothing was started, from the files and from /proc.    *)
(*                                                                         *)
(* A marker (ready, started) is published once, names its supervisor and   *)
(* is never replaced.  A supervisor can be killed at any point; its lock   *)
(* goes with it, its provider stays.  "The provider" is its process group. *)
(***************************************************************************)
EXTENDS FiniteSets, Naturals

CONSTANTS
  Supervisors,  \* the supervisor processes launched for the operation
  NoOne

ASSUME SupervisorAssumption == NoOne \notin Supervisors

VARIABLES
  sup,          \* where each supervisor is
  lock,         \* supervisor.lock: its holder
  ready,        \* supervisor-ready.json: the supervisor it names
  started,      \* provider-started.json: the supervisor it names
  sealed,       \* supervisor-exit.json exists
  stopFile,     \* supervisor-stop.json exists
  signalled,    \* supervisors that received SIGTERM
  provider,     \* the provider each supervisor has started
  stopper,      \* the check the daemon is in, and the supervisors it is about
  stopped,      \* supervisors covered by a stop that was believed
  unstarted     \* supervisors covered by "never started"

files == <<ready, started, sealed, stopFile>>
processes == <<sup, lock, signalled, provider>>
daemon == <<stopper, stopped, unstarted>>
supervisorVars == <<sup, lock, ready, started, sealed, stopFile, signalled,
                    provider, stopper, stopped, unstarted>>

-----------------------------------------------------------------------------
At(s, pc) == sup[s] = pc
Goes(s, pc) == sup' = [sup EXCEPT ![s] = pc]
Alive(s) == sup[s] \notin {"new", "gone"}
Launched == {s \in Supervisors : sup[s] # "new"}
Running == {s \in Supervisors : provider[s] = "running"}

(* Mutant: the loop that watches the provider does not look for a stop.    *)
AskedBeforeStart(s) == At(s, "ready") /\ (s \in signalled \/ stopFile)

StopAsked(s) == s \in signalled \/ stopFile

(* A supervisor ends; the kernel releases its lock.                        *)
Exits(s) ==
  /\ Goes(s, "gone")
  /\ lock' = IF lock = s THEN NoOne ELSE lock

InitSupervisor ==
  /\ sup = [s \in Supervisors |-> "new"]
  /\ lock = NoOne
  /\ ready = NoOne /\ started = NoOne
  /\ sealed = FALSE /\ stopFile = FALSE
  /\ signalled = {}
  /\ provider = [s \in Supervisors |-> "none"]
  /\ stopper = [pc |-> "idle", over |-> {}]
  /\ stopped = {} /\ unstarted = {}

-----------------------------------------------------------------------------
(* supervise                                                               *)

(* run_durable_job                                                         *)
Launch(s) ==
  /\ At(s, "new")
  /\ Goes(s, "starting")
  /\ UNCHANGED <<lock, signalled, provider, files, daemon>>

InstallHandlers(s) ==
  /\ At(s, "starting")
  /\ Goes(s, "queued")
  /\ UNCHANGED <<lock, signalled, provider, files, daemon>>

(* Mutant: a later supervisor replaces the ready marker.                   *)
ReplacesReady == ~sealed /\ started = NoOne

(* Under the lock: a receipt ends it, a started marker leaves only the     *)
(* recovery, and the ready marker of another supervisor cannot be replaced.*)
MayPublishReady == ~sealed /\ started = NoOne /\ ready = NoOne

PublishReady(s) ==
  /\ At(s, "queued") /\ lock = NoOne
  /\ MayPublishReady
  /\ lock' = s
  /\ ready' = s
  /\ Goes(s, "ready")
  /\ UNCHANGED <<signalled, provider, started, sealed, stopFile, daemon>>

GiveWay(s) ==
  /\ At(s, "queued") /\ lock = NoOne
  /\ ~MayPublishReady
  /\ Goes(s, IF ~sealed /\ started # NoOne THEN "unknown" ELSE "gone")
  /\ UNCHANGED <<lock, signalled, provider, files, daemon>>

(* Popen of the provider ...                                               *)
StartProvider(s) ==
  /\ At(s, "ready") /\ ~StopAsked(s)
  /\ provider' = [provider EXCEPT ![s] = "running"]
  /\ Goes(s, "spawned")
  /\ UNCHANGED <<lock, signalled, files, daemon>>

(* ... which is not made after a stop, or fails.                           *)
StartNothing(s) ==
  /\ At(s, "ready")
  /\ Goes(s, "closing")
  /\ UNCHANGED <<lock, signalled, provider, files, daemon>>

MarkStarted(s) ==
  /\ At(s, "spawned")
  /\ started' = s
  /\ Goes(s, "watching")
  /\ UNCHANGED <<lock, signalled, provider, ready, sealed, stopFile, daemon>>

(* The loop leaves when the provider has ended, or terminates it after a   *)
(* stop, at the time limit or at an output limit; what is left of the      *)
(* process group is terminated as well.                                    *)
EndProvider(s) ==
  /\ At(s, "watching")
  /\ provider' = [provider EXCEPT ![s] = "ended"]
  /\ Goes(s, "closing")
  /\ UNCHANGED <<lock, signalled, files, daemon>>

SealReceipt(s) ==
  /\ At(s, "closing")
  /\ sealed' = TRUE
  /\ Exits(s)
  /\ UNCHANGED <<signalled, provider, ready, started, stopFile, daemon>>

(* An error: finish_capture terminates the provider, and no receipt is     *)
(* sealed.  When it cannot, that is as if the supervisor were killed.      *)
FailSupervisor(s) ==
  /\ sup[s] \in {"ready", "spawned", "watching", "closing"}
  /\ provider' = [provider EXCEPT ![s] = IF @ = "running" THEN "ended" ELSE @]
  /\ Exits(s)
  /\ UNCHANGED <<signalled, files, daemon>>

-----------------------------------------------------------------------------
(* Mutant: orphaned providers are not looked for.                          *)
NoSupervisorElse(s) == \A t \in Supervisors \ {s} : ~Alive(t)

(* _seal_absent_provider_interruption: a supervisor that finds the started *)
(* marker of a lost one seals its operation as interrupted, once neither   *)
(* another supervisor nor a provider is alive.                             *)
NobodyElse(s) ==
  Running = {} /\ \A t \in Supervisors \ {s} : ~Alive(t)

ProveAbsent(s) ==
  /\ At(s, "unknown") /\ lock = NoOne
  /\ IF ~sealed /\ NobodyElse(s)
     THEN lock' = s /\ Goes(s, "sealing")
     ELSE Goes(s, "gone") /\ UNCHANGED lock
  /\ UNCHANGED <<signalled, provider, files, daemon>>

SealInterruption(s) ==
  /\ At(s, "sealing")
  /\ sealed' = TRUE
  /\ Exits(s)
  /\ UNCHANGED <<signalled, provider, ready, started, stopFile, daemon>>

-----------------------------------------------------------------------------
(* What happens to processes                                               *)

ProviderEnds(s) ==
  /\ provider[s] = "running"
  /\ provider' = [provider EXCEPT ![s] = "ended"]
  /\ UNCHANGED <<sup, lock, signalled, files, daemon>>

Kill(s) ==
  /\ Alive(s)
  /\ Exits(s)
  /\ UNCHANGED <<signalled, provider, files, daemon>>

(* process.terminate(): the readiness deadline of run_durable_job, a       *)
(* cancelled job, the stop of the daemon.                                  *)
Terminate(s) ==
  /\ Alive(s) /\ s \notin signalled
  /\ IF At(s, "starting")
     THEN Exits(s) /\ UNCHANGED signalled
     ELSE signalled' = signalled \cup {s} /\ UNCHANGED <<sup, lock>>
  /\ UNCHANGED <<provider, files, daemon>>

-----------------------------------------------------------------------------
(* The daemon stops the operation                                          *)

Idle == [pc |-> "idle", over |-> {}]
Checks(pc) == stopper' = [pc |-> pc, over |-> Launched]

(* request_supervisor_stop believes a receipt that is there already.       *)
FindReceipt ==
  /\ stopper.pc = "idle" /\ sealed
  /\ stopped' = stopped \cup Launched
  /\ UNCHANGED <<processes, files, stopper, unstarted>>

(* It files the stop and signals otherwise; a receipt that is sealed after *)
(* it looked makes no difference, as nobody heeds the stop any more.       *)
RequestStop ==
  /\ stopper.pc = "idle"
  /\ ready # NoOne /\ ~sealed
  /\ Checks("waiting")
  /\ stopFile' = (stopFile \/ Alive(ready))
  /\ signalled' = IF Alive(ready) THEN signalled \cup {ready} ELSE signalled
  /\ UNCHANGED <<sup, lock, provider, ready, started, sealed,
                 stopped, unstarted>>

Believe ==
  /\ stopped' = stopped \cup stopper.over
  /\ stopper' = Idle

(* The receipt shows up while it waits ...                                 *)
SeeReceipt ==
  /\ stopper.pc = "waiting" /\ sealed
  /\ Believe
  /\ UNCHANGED <<processes, files, unstarted>>

(* ... or, after two seconds, the supervisor still runs, or is gone ...    *)
StopTimesOut ==
  /\ stopper.pc = "waiting" /\ ~sealed
  /\ stopper' = IF ~Alive(ready) THEN [stopper EXCEPT !.pc = "verify"] ELSE Idle
  /\ UNCHANGED <<processes, files, stopped, unstarted>>

(* Mutant: only the group in the started marker is terminated.             *)
MarkedGroups == Running \cap {started}

(* The groups that carry the operation in their environment.               *)
BoundGroups == Running

(* ... and _terminate_or_verify_bound_provider_absent terminates every     *)
(* such group, or gives up.                                                *)
VerifyAbsent ==
  /\ stopper.pc = "verify"
  /\ \/ /\ provider' = [s \in Supervisors |->
                          IF s \in BoundGroups THEN "ended" ELSE provider[s]]
        /\ Believe
     \/ BoundGroups # {} /\ stopper' = Idle /\ UNCHANGED <<provider, stopped>>
  /\ UNCHANGED <<sup, lock, signalled, files, unstarted>>

(* supervisor_request_never_started looks for the markers first ...        *)
FindNoMarker ==
  /\ stopper.pc = "idle"
  /\ ready = NoOne /\ started = NoOne /\ ~sealed
  /\ Checks("scan")
  /\ UNCHANGED <<processes, files, stopped, unstarted>>

(* Mutant: that the markers are missing is taken for a proof.              *)
NoProcessExpected == TRUE

NoProcessFound == \A s \in Supervisors : ~Alive(s)

(* ... and then for a live process with the request in its command line.   *)
ScanProcesses ==
  /\ stopper.pc = "scan"
  /\ unstarted' = IF NoProcessFound THEN unstarted \cup stopper.over ELSE unstarted
  /\ stopper' = Idle
  /\ UNCHANGED <<processes, files, stopped>>

(* The daemon dies in the middle of a check.                               *)
DaemonDies ==
  /\ stopper.pc # "idle"
  /\ stopper' = Idle
  /\ UNCHANGED <<processes, files, stopped, unstarted>>

-----------------------------------------------------------------------------
SupervisorStep(s) ==
  \/ InstallHandlers(s) \/ PublishReady(s) \/ GiveWay(s)
  \/ StartProvider(s) \/ StartNothing(s) \/ MarkStarted(s)
  \/ EndProvider(s) /\ (StopAsked(s) \/ provider[s] = "ended")
  \/ SealReceipt(s)
  \/ ProveAbsent(s) \/ SealInterruption(s)

NextSupervisor ==
  \/ \E s \in Supervisors :
       \/ Launch(s) \/ SupervisorStep(s) \/ EndProvider(s) \/ FailSupervisor(s)
       \/ ProviderEnds(s) \/ Kill(s) \/ Terminate(s)
  \/ FindReceipt \/ RequestStop \/ SeeReceipt \/ StopTimesOut \/ VerifyAbsent
  \/ FindNoMarker \/ ScanProcesses \/ DaemonDies

SpecSupervisor == InitSupervisor /\ [][NextSupervisor]_supervisorVars

(* A supervisor that is not killed goes on: it polls its provider and the  *)
(* stop channel, and waits for the lock again and again.                   *)
FairSupervisor ==
  /\ SpecSupervisor
  /\ \A s \in Supervisors : SF_supervisorVars(SupervisorStep(s))

-----------------------------------------------------------------------------
(* Types                                                                   *)

SupervisorTypeOK ==
  /\ sup \in [Supervisors -> {"new", "starting", "queued", "ready", "spawned",
       "watching", "closing", "unknown", "sealing", "gone"}]
  /\ {lock, ready, started} \subseteq Supervisors \cup {NoOne}
  /\ sealed \in BOOLEAN /\ stopFile \in BOOLEAN
  /\ signalled \subseteq Supervisors
  /\ provider \in [Supervisors -> {"none", "running", "ended"}]
  /\ stopper \in [pc : {"idle", "waiting", "verify", "scan"},
                  over : SUBSET Supervisors]
  /\ stopped \subseteq Supervisors /\ unstarted \subseteq Supervisors

-----------------------------------------------------------------------------
(* Properties                                                              *)

(* However many supervisors are launched for the operation, one of them at *)
(* most starts the provider: an external effect is never repeated.         *)
OneProviderEver ==
  Cardinality({s \in Supervisors : provider[s] # "none"}) <= 1

(* A sealed receipt is the end: no provider runs, and no supervisor is in  *)
(* a place from which it would start one.                                  *)
Silent(s) == provider[s] # "running" /\ ~At(s, "ready")

SealedIsOver == sealed => \A s \in Supervisors : Silent(s)

(* request_supervisor_stop "Request[s] a verified detached supervisor to   *)
(* reach a signed terminal boundary": when it returns true, the            *)
(* supervisors launched before the request run no provider and will start  *)
(* none.                                                                   *)
StopIsFinal ==
  \A s \in stopped :
    Silent(s) /\ (At(s, "queued") \/ At(s, "starting") => ~MayPublishReady)

(* supervisor_request_never_started is for a daemon that died within the   *)
(* launch window: no supervisor that "never started" covers may start its  *)
(* provider after the answer.  The answer can be wrong about the past: one *)
(* that published between the look at the markers and the scan may have    *)
(* run its provider to the end, or been killed over it, before the scan.   *)
NeverStartedIsFinal ==
  [][\A s \in unstarted : provider[s] = "none" => provider'[s] = "none"]_supervisorVars

(* A stop, once filed, ends the operation: a receipt is sealed, or every   *)
(* supervisor is gone.                                                     *)
StopReachesBoundary ==
  stopFile ~> (sealed \/ \A s \in Supervisors : ~Alive(s))

=============================================================================
