----------------------------- MODULE NativeLane -----------------------------
(***************************************************************************)
(* The native lane: the daemon's slot processes run one job each under a   *)
(* permit of the shared ledger (velnor-runner: permit_guard.rs, the        *)
(* handlers of runner.rs), while the controller (node/controller.rs)       *)
(* recovers the jobs of dead slots from their durable in-flight markers    *)
(* and each daemon pass reconciles the ledger with those markers.          *)
(*                                                                         *)
(* A ledger call, a marker write, a service call and a Docker operation    *)
(* are one step each; a process may die between any two of them.           *)
(*                                                                         *)
(* Left out: storage and file errors of the calls that are not best effort *)
(* (their callers retain the permit, as after a lost response), the        *)
(* quarantine of a 200 without identity, the slot journal, and the         *)
(* process-local registry of cleanup claims, which here can never decide   *)
(* an admission: a slot with a marker takes no message.                    *)
(***************************************************************************)
EXTENDS PermitLedger

CONSTANT Slots      \* runner slots of the daemon

\* Any job may be delivered to the native lane; permit_guard.rs asks the ledger
\* for these two states.
ASSUME NativeLaneAssumption ==
    /\ \A h \in Holders : "native" \in LanesOf[h]
    /\ {"acquiring", "running"} \subseteq GrantStates

VARIABLES
    slot,       \* the slot's process, and how far its handler is with a job
    worker,     \* the detached teardown thread of the slot's process
    marker,     \* the slot's in-flight-job.json
    containers, \* job containers on the Docker host, by holder and slot
    service,    \* what the run service says of each job (external)
    daemon,     \* the daemon process and the progress of its current pass
    recovery    \* the one marker the controller is recovering

laneVars == <<slot, worker, marker, containers, service, daemon, recovery>>
nativeVars == <<ledgerVars, laneVars>>

Pcs == {"idle", "offered", "admitting", "departing", "owned", "sent", "acquired",
        "recorded", "running", "joining", "unacked", "concluding", "clearing",
        "dropping"}

SlotProcess == [pid : Pids, pc : Pcs, holder : Holders \cup {Null},
                token : Token \cup {Null}, gen : Nat]

Worker == [holder : Holders, token : Token, acked : BOOLEAN,
           step : {"tearing", "finalizing", "clearing"}]

Marker == [holder : Holders, token : Token]

Daemon == [pid : Pids, phase : {"starting", "reading", "read", "up"},
           seen : SUBSET Marker]

Recovery == [slot : Slots, holder : Holders, token : Token,
             step : {"claimed", "torn", "completed", "cleaning", "released"}]

\* What is absent is none of these.
ASSUME AbsentAssumption ==
    /\ Null \notin SlotProcess
    /\ Null \notin Worker
    /\ Null \notin Marker
    /\ Null \notin Daemon
    /\ Null \notin Recovery

IdleProcess(p) == [pid |-> p, pc |-> "idle", holder |-> Null, token |-> Null, gen |-> 0]

At(s, pc) == slot[s] # Null /\ slot[s].pc = pc

Goto(s, pc) == slot' = [slot EXCEPT ![s].pc = pc]

\* The handler returns to its caller; the process stays.
Return(s) == slot' = [slot EXCEPT ![s] = IdleProcess(slot[s].pid)]

\* The guard goes out of scope, or is marked uncertain, after the acquire may
\* have been sent: it first reads the generation it will write under.
DropRetaining(s) == slot' = [slot EXCEPT ![s].pc = "dropping", ![s].gen = generation]

\* clear_in_flight_job_if_same_attempt_locked
ClearIfSameAttempt(s, h, t) ==
    marker' = [marker EXCEPT ![s] = IF @ = [holder |-> h, token |-> t] THEN Null ELSE @]

Up == daemon # Null /\ daemon.phase = "up"

-----------------------------------------------------------------------------
(* Admission of a delivered request *)

\* handle_v2_message up to the fences.  A slot whose marker survived an error
\* cannot be reconfigured, so it polls no more.
ReceiveMessage(s, h) ==
    /\ At(s, "idle")
    /\ marker[s] = Null
    /\ service[h] # "gone"
    /\ ObserveDemand(h, "native", now, now)
    /\ slot' = [slot EXCEPT ![s].pc = "offered", ![s].holder = h]
    /\ UNCHANGED <<worker, marker, containers, service, daemon, recovery>>

\* A capacity fence is up: the observed demand stays in the queue.
AdmissionBlocked(s) ==
    /\ At(s, "offered")
    /\ Return(s)
    /\ UNCHANGED <<ledgerVars, worker, marker, containers, service, daemon, recovery>>

\* NativePermitGuard::acquire observes the demand once more, then reads the
\* generation it acquires under.
EnterGuard(s) ==
    /\ At(s, "offered")
    /\ ObserveDemand(slot[s].holder, "native", now, now)
    /\ slot' = [slot EXCEPT ![s].pc = "admitting", ![s].gen = generation]
    /\ UNCHANGED <<worker, marker, containers, service, daemon, recovery>>

\* A stale generation is read again before the deadline.
GuardRereads(s) ==
    /\ At(s, "admitting")
    /\ slot[s].gen # generation
    /\ slot' = [slot EXCEPT ![s].gen = generation]
    /\ UNCHANGED <<ledgerVars, worker, marker, containers, service, daemon, recovery>>

\* Acquired, or Adopted after AlreadyHeld
GuardAcquires(s) ==
    LET h == slot[s].holder
        p == slot[s].pid
    IN  /\ At(s, "admitting")
        /\ \/ AcquireAttempt(h, "native", "acquiring", slot[s].gen, p)
           \/ AdoptForRedelivery(h, "native", "acquiring", slot[s].gen, p)
        /\ slot' = [slot EXCEPT ![s].pc = "owned", ![s].token = minted', ![s].gen = 0]
        /\ UNCHANGED <<worker, marker, containers, service, daemon, recovery>>

\* LiveHolder, Full, Closed, and StaleGeneration or Deferred past the deadline
GuardDeparts(s) ==
    LET h == slot[s].holder
        g == slot[s].gen
    IN  /\ At(s, "admitting")
        /\ \/ g # generation /\ UNCHANGED ledgerVars
           \/ Held(h) /\ ~Adoptable(h, "native", slot[s].pid) /\ UNCHANGED ledgerVars
           \/ ~Held(h) /\ Closed(h) /\ UNCHANGED ledgerVars
           \/ AcquireFull(h, "native", g)
           \/ AcquireDeferred(h, "native", g)
        /\ Goto(s, "departing")
        /\ UNCHANGED <<worker, marker, containers, service, daemon, recovery>>

\* park_departed
GuardParks(s) ==
    LET h == slot[s].holder
    IN  /\ At(s, "departing")
        /\ IF demands[h].state = "eligible" THEN ParkDemand(h) ELSE UNCHANGED ledgerVars
        /\ Return(s)
        /\ UNCHANGED <<worker, marker, containers, service, daemon, recovery>>

-----------------------------------------------------------------------------
(* The acquire request *)

RecordIntent(s) ==
    /\ At(s, "owned")
    /\ Goto(s, "sent")
    /\ UNCHANGED <<ledgerVars, worker, marker, containers, service, daemon, recovery>>

\* begin_run_service_acquisition fails and the guard drops before the send.
IntentFails(s) ==
    /\ At(s, "owned")
    /\ ReleaseOwned(slot[s].holder, slot[s].token, "eligible")
    /\ Return(s)
    /\ UNCHANGED <<worker, marker, containers, service, daemon, recovery>>

ServiceAssigns(s) ==
    LET h == slot[s].holder
    IN  /\ At(s, "sent")
        /\ service[h] # "gone"
        /\ service' = [service EXCEPT ![h] = "assigned"]
        /\ Goto(s, "acquired")
        /\ UNCHANGED <<ledgerVars, worker, marker, containers, daemon, recovery>>

\* A lost response, a 409 or a 422: the service may or may not have assigned.
ResponseUnclear(s) ==
    LET h == slot[s].holder
    IN  /\ At(s, "sent")
        /\ \/ UNCHANGED service
           \/ service[h] = "queued" /\ service' = [service EXCEPT ![h] = "assigned"]
        /\ DropRetaining(s)
        /\ UNCHANGED <<ledgerVars, worker, marker, containers, daemon, recovery>>

\* A typed 404: release_cancelled
ServiceSaysGone(s) ==
    LET h == slot[s].holder
    IN  /\ At(s, "sent")
        /\ service[h] = "gone"
        /\ ReleaseNativeOwned(h, slot[s].token, "cancelled")
        /\ Return(s)
        /\ UNCHANGED <<worker, marker, containers, service, daemon, recovery>>

MayRetain(h, g, t) == g = generation /\ Owns(h, t) /\ permits[h].state # "cleaning"

\* The write of retain_uncertain_best_effort; a failure is only a warning.
RetainBestEffort(s) ==
    LET h == slot[s].holder
        g == slot[s].gen
        t == slot[s].token
    IN  /\ At(s, "dropping")
        /\ IF MayRetain(h, g, t) THEN RetainUncertain(h, g, t) ELSE UNCHANGED ledgerVars
        /\ Return(s)
        /\ UNCHANGED <<worker, marker, containers, service, daemon, recovery>>

-----------------------------------------------------------------------------
(* The job *)

\* settle_acquired_response_admission: the marker needs the current token.
PersistMarker(s) ==
    LET h == slot[s].holder
        t == slot[s].token
    IN  /\ At(s, "acquired")
        /\ Owns(h, t)
        /\ marker' = [marker EXCEPT ![s] = [holder |-> h, token |-> t]]
        /\ Goto(s, "recorded")
        /\ UNCHANGED <<ledgerVars, worker, containers, service, daemon, recovery>>

\* The persist fails, or a fence came up after the response.
AcquiredNotStarted(s) ==
    /\ At(s, "acquired") \/ At(s, "recorded")
    /\ DropRetaining(s)
    /\ UNCHANGED <<ledgerVars, worker, marker, containers, service, daemon, recovery>>

\* A job that cannot be materialised is completed as failed at once.
FailBeforeStart(s) ==
    /\ At(s, "recorded")
    /\ service' = [service EXCEPT ![slot[s].holder] = "gone"]
    /\ Goto(s, "concluding")
    /\ UNCHANGED <<ledgerVars, worker, marker, containers, daemon, recovery>>

\* transition_running and transition_cleaning: best effort, by token
Spell(s, state) ==
    \/ TransitionOwned(slot[s].holder, state, generation, slot[s].token, slot[s].pid)
    \/ UNCHANGED ledgerVars

StartJob(s) ==
    /\ At(s, "recorded")
    /\ Spell(s, "running")
    /\ Goto(s, "running")
    /\ UNCHANGED <<worker, marker, containers, service, daemon, recovery>>

CreateContainers(s) ==
    /\ At(s, "running")
    /\ <<slot[s].holder, s>> \notin containers
    /\ containers' = containers \cup {<<slot[s].holder, s>>}
    /\ UNCHANGED <<ledgerVars, slot, worker, marker, service, daemon, recovery>>

HasTeardown(s) == <<slot[s].holder, s>> \in containers

StartTeardown(s, acked) ==
    worker' = [worker EXCEPT ![s] =
        [holder |-> slot[s].holder, token |-> slot[s].token, acked |-> acked,
         step |-> "tearing"]]

\* The run service acknowledges the completion.
CompletionAcked(s) ==
    /\ At(s, "running")
    /\ service' = [service EXCEPT ![slot[s].holder] = "gone"]
    /\ \/ /\ HasTeardown(s)
          /\ Spell(s, "cleaning")
          /\ StartTeardown(s, TRUE)
          /\ Goto(s, "joining")
       \/ /\ ~HasTeardown(s)
          /\ Goto(s, "concluding")
          /\ UNCHANGED <<ledgerVars, worker>>
    /\ UNCHANGED <<marker, containers, daemon, recovery>>

\* The completion is rejected, or its acknowledgement lost.
CompletionUnacked(s) ==
    /\ At(s, "running")
    /\ \/ UNCHANGED service
       \/ service' = [service EXCEPT ![slot[s].holder] = "gone"]
    /\ \/ /\ HasTeardown(s)
          /\ Spell(s, "cleaning")
          /\ StartTeardown(s, FALSE)
          /\ Goto(s, "unacked")
       \/ /\ ~HasTeardown(s)
          /\ DropRetaining(s)
          /\ UNCHANGED <<ledgerVars, worker>>
    /\ UNCHANGED <<marker, containers, daemon, recovery>>

\* clear_in_flight_job_for_attempt: release the permit ...
ReleaseForMarker(s) ==
    /\ At(s, "concluding")
    /\ ReleaseNativeOwned(slot[s].holder, slot[s].token, "terminal")
    /\ Goto(s, "clearing")
    /\ UNCHANGED <<worker, marker, containers, service, daemon, recovery>>

\* ... then remove the marker.
ClearMarker(s) ==
    /\ At(s, "clearing")
    /\ ClearIfSameAttempt(s, slot[s].holder, slot[s].token)
    /\ Return(s)
    /\ UNCHANGED <<ledgerVars, worker, containers, service, daemon, recovery>>

\* The teardown thread was joined in time.
Join(s) ==
    /\ worker[s] = Null
    /\ \/ At(s, "joining") /\ Return(s)
       \/ At(s, "unacked") /\ DropRetaining(s)
    /\ UNCHANGED <<ledgerVars, worker, marker, containers, service, daemon, recovery>>

\* The join times out; the thread keeps retrying.
JoinTimesOut(s) ==
    /\ worker[s] # Null
    /\ At(s, "joining") \/ At(s, "unacked")
    /\ DropRetaining(s)
    /\ UNCHANGED <<ledgerVars, worker, marker, containers, service, daemon, recovery>>

-----------------------------------------------------------------------------
(* The teardown thread: spawn_owned_teardown_worker *)

WorkerAt(s, step) == worker[s] # Null /\ worker[s].step = step

\* mutant: teardown done, the thread removes the marker and keeps the permit
WorkerForgetsPermit(s) ==
    /\ WorkerAt(s, "tearing")
    /\ containers' = containers \ {<<worker[s].holder, s>>}
    /\ worker' = [worker EXCEPT ![s].step = "clearing"]
    /\ UNCHANGED <<ledgerVars, slot, marker, service, daemon, recovery>>

\* mutant: a failed teardown counts as done
WorkerSkipsTeardown(s) ==
    /\ WorkerAt(s, "tearing")
    /\ worker' = [worker EXCEPT ![s].step = "finalizing"]
    /\ UNCHANGED <<ledgerVars, slot, marker, containers, service, daemon, recovery>>

WorkerTearsDown(s) ==
    /\ WorkerAt(s, "tearing")
    /\ containers' = containers \ {<<worker[s].holder, s>>}
    /\ worker' = [worker EXCEPT ![s].step = "finalizing"]
    /\ UNCHANGED <<ledgerVars, slot, marker, service, daemon, recovery>>

\* Acknowledged: the permit goes, then the marker.  Otherwise both stay.
WorkerFinalizes(s) ==
    LET h == worker[s].holder
        t == worker[s].token
    IN  /\ WorkerAt(s, "finalizing")
        /\ \/ /\ worker[s].acked
              /\ ReleaseNativeOwned(h, t, "terminal")
              /\ worker' = [worker EXCEPT ![s].step = "clearing"]
           \/ /\ ~worker[s].acked
              /\ RetainUncertainAfterCleanup(h, t, slot[s].pid)
              /\ worker' = [worker EXCEPT ![s] = Null]
        /\ UNCHANGED <<slot, marker, containers, service, daemon, recovery>>

WorkerClearsMarker(s) ==
    /\ WorkerAt(s, "clearing")
    /\ ClearIfSameAttempt(s, worker[s].holder, worker[s].token)
    /\ worker' = [worker EXCEPT ![s] = Null]
    /\ UNCHANGED <<ledgerVars, slot, containers, service, daemon, recovery>>

-----------------------------------------------------------------------------
(* Slot processes *)

\* spawn_ready_waiters: a slot without process and without unfinished job
SpawnSlot(s, p) ==
    /\ Up
    /\ slot[s] = Null
    /\ marker[s] = Null
    /\ StartProcess(p)
    /\ slot' = [slot EXCEPT ![s] = IdleProcess(p)]
    /\ UNCHANGED <<worker, marker, containers, service, daemon, recovery>>

\* The process dies, its threads with it; marker and containers remain.
CrashSlot(s) ==
    /\ slot[s] # Null
    /\ CrashProcess(slot[s].pid)
    /\ slot' = [slot EXCEPT ![s] = Null]
    /\ worker' = [worker EXCEPT ![s] = Null]
    /\ UNCHANGED <<marker, containers, service, daemon, recovery>>

\* The job ends without this host: cancelled, or its lease expired.
ServiceDropsJob(h) ==
    /\ service[h] # "gone"
    /\ service' = [service EXCEPT ![h] = "gone"]
    /\ UNCHANGED <<ledgerVars, slot, worker, marker, containers, daemon, recovery>>

-----------------------------------------------------------------------------
(* The daemon: each supervised pass runs init_host_permit_ledger first *)

StartDaemon(p) ==
    /\ daemon = Null
    /\ StartProcess(p)
    /\ daemon' = [pid |-> p, phase |-> "starting", seen |-> {}]
    /\ UNCHANGED <<slot, worker, marker, containers, service, recovery>>

CrashDaemon ==
    /\ daemon # Null
    /\ CrashProcess(daemon.pid)
    /\ daemon' = Null
    /\ recovery' = Null
    /\ UNCHANGED <<slot, worker, marker, containers, service>>

DaemonAt(phase) == daemon # Null /\ daemon.phase = phase

\* apply_max_jobs: the host's N, unless an earlier daemon configured it
ConfigureCapacity ==
    /\ DaemonAt("starting")
    /\ \E n \in Capacities : SetMaxJobsIfUnset(n)
    /\ UNCHANGED laneVars

BeginPass ==
    /\ DaemonAt("starting")
    /\ maxJobs # Null
    /\ BeginEpoch
    /\ daemon' = [daemon EXCEPT !.phase = "reading"]
    /\ UNCHANGED <<slot, worker, marker, containers, service, recovery>>

\* mutant: a slot directory without a marker is read as one
ReadSlots ==
    /\ DaemonAt("reading")
    /\ daemon' = [daemon EXCEPT !.phase = "read", !.seen = {marker[s] : s \in Slots}]
    /\ UNCHANGED <<ledgerVars, slot, worker, marker, containers, service, recovery>>

ReadMarkers ==
    /\ DaemonAt("reading")
    /\ daemon' = [daemon EXCEPT !.phase = "read",
                                !.seen = {marker[s] : s \in Slots} \ {Null}]
    /\ UNCHANGED <<ledgerVars, slot, worker, marker, containers, service, recovery>>

\* The reconciliation refuses a marker whose exact token holds no permit.
Attests(seen) == \A m \in seen : Owns(m.holder, m.token)

ReconcilePass ==
    /\ DaemonAt("read")
    /\ Attests(daemon.seen)
    /\ Reconcile([h \in {m.holder : m \in daemon.seen} |-> "alive"])
    /\ daemon' = [daemon EXCEPT !.phase = "up", !.seen = {}]
    /\ UNCHANGED <<slot, worker, marker, containers, service, recovery>>

\* The refusal fails the pass, as does an error of the controller; the same
\* process then begins a new one.
PassFails ==
    /\ \/ DaemonAt("read") /\ ~Attests(daemon.seen)
       \/ Up
    /\ daemon' = [daemon EXCEPT !.phase = "starting", !.seen = {}]
    /\ recovery' = Null
    /\ UNCHANGED <<ledgerVars, slot, worker, marker, containers, service>>

-----------------------------------------------------------------------------
(* Recovery of a dead slot's marker, under the marker's lock *)

RecoveryAt(step) == recovery # Null /\ recovery.step = step

RecoverStep(step) == recovery' = [recovery EXCEPT !.step = step]

\* mutant: the fence lets a stale attempt through
FencesNothing(h, t) ==
    \/ ClaimRecordedTerminalCleanup(h, "native", t, daemon.pid)
    \/ UNCHANGED ledgerVars

\* mutant: a row under an earlier cleanup claim is not claimed again
FencesOnce(h, t) ==
    /\ Held(h) => permits[h].state # "cleaning"
    /\ \/ ClaimRecordedTerminalCleanup(h, "native", t, daemon.pid)
       \/ ~Held(h) /\ Known(h) /\ demands[h].state = "terminal" /\ UNCHANGED ledgerVars

\* fence_recorded_attempt_for_terminal_recovery: any outcome but StaleAttempt.
\* A terminal demand without permit needs no write.
Fences(h, t) ==
    \/ ClaimRecordedTerminalCleanup(h, "native", t, daemon.pid)
    \/ ~Held(h) /\ Known(h) /\ demands[h].state = "terminal" /\ UNCHANGED ledgerVars

\* capture_recorded_owner_death_proof: a live process is a barrier.
BeginRecovery(s) ==
    /\ Up
    /\ recovery = Null
    /\ marker[s] # Null
    /\ slot[s] = Null
    /\ Fences(marker[s].holder, marker[s].token)
    /\ recovery' = [slot |-> s, holder |-> marker[s].holder, token |-> marker[s].token,
                    step |-> "claimed"]
    /\ UNCHANGED <<slot, worker, marker, containers, service, daemon>>

\* Every container with the job's label, whichever slot created it
RecoveryTearsDown ==
    /\ RecoveryAt("claimed")
    /\ containers' = {c \in containers : c[1] # recovery.holder}
    /\ RecoverStep("torn")
    /\ UNCHANGED <<ledgerVars, slot, worker, marker, service, daemon>>

\* rollback_recorded_cleanup_claim_to_uncertain; the error may end the pass.
RecoveryTeardownFails ==
    LET h == recovery.holder
        t == recovery.token
    IN  /\ RecoveryAt("claimed")
        /\ IF Owns(h, t)
           THEN RetainUncertainAfterCleanup(h, t, daemon.pid)
           ELSE UNCHANGED ledgerVars
        /\ recovery' = Null
        /\ UNCHANGED <<slot, worker, marker, containers, service, daemon>>

\* The job is completed as failed, or its completion replayed.
RecoveryCompletes ==
    /\ RecoveryAt("torn")
    /\ service' = [service EXCEPT ![recovery.holder] = "gone"]
    /\ RecoverStep("completed")
    /\ UNCHANGED <<ledgerVars, slot, worker, marker, containers, daemon>>

\* The remote call fails or exceeds its budget: retried in a later cycle.
RecoveryDefers ==
    /\ RecoveryAt("torn")
    /\ recovery' = Null
    /\ UNCHANGED <<ledgerVars, slot, worker, marker, containers, service, daemon>>

\* claim_recorded_permit_for_cleanup: DemandClosed waits for a later pass.
RecoveryClaims ==
    /\ RecoveryAt("completed")
    /\ Held(recovery.holder) \/ Closed(recovery.holder)
    /\ Fences(recovery.holder, recovery.token)
    /\ RecoverStep("cleaning")
    /\ UNCHANGED <<slot, worker, marker, containers, service, daemon>>

\* release_recorded_native_permit_for_cleanup
RecoveryReleases ==
    LET h == recovery.holder
        t == recovery.token
    IN  /\ RecoveryAt("cleaning")
        /\ \/ ReleaseNativeOwned(h, t, "terminal")
           \/ /\ ~Owns(h, t)
              /\ <<h, t>> \notin cleanupReleases
              /\ NativeReleaseOutcome(h, t, "terminal") = "already_absent"
              /\ UNCHANGED ledgerVars
        /\ RecoverStep("released")
        /\ UNCHANGED <<slot, worker, marker, containers, service, daemon>>

RecoveryClearsMarker ==
    /\ RecoveryAt("released")
    /\ ClearIfSameAttempt(recovery.slot, recovery.holder, recovery.token)
    /\ recovery' = Null
    /\ UNCHANGED <<ledgerVars, slot, worker, containers, service, daemon>>

-----------------------------------------------------------------------------
(* Specification *)

NativeInit ==
    /\ LedgerInit
    /\ slot = [s \in Slots |-> Null]
    /\ worker = [s \in Slots |-> Null]
    /\ marker = [s \in Slots |-> Null]
    /\ containers = {}
    /\ service = [h \in Holders |-> "queued"]
    /\ daemon = Null
    /\ recovery = Null

\* A step of slot s's handler
HandlerStep(s) ==
    \/ \E h \in Holders : ReceiveMessage(s, h)
    \/ AdmissionBlocked(s) \/ EnterGuard(s) \/ GuardRereads(s) \/ GuardAcquires(s)
    \/ GuardDeparts(s) \/ GuardParks(s) \/ RecordIntent(s) \/ IntentFails(s) \/ ServiceAssigns(s)
    \/ ResponseUnclear(s) \/ ServiceSaysGone(s) \/ RetainBestEffort(s)
    \/ PersistMarker(s) \/ AcquiredNotStarted(s) \/ FailBeforeStart(s) \/ StartJob(s)
    \/ CreateContainers(s) \/ CompletionAcked(s) \/ CompletionUnacked(s)
    \/ ReleaseForMarker(s) \/ ClearMarker(s) \/ Join(s) \/ JoinTimesOut(s)

\* A step of slot s's teardown thread
WorkerStep(s) == WorkerTearsDown(s) \/ WorkerFinalizes(s) \/ WorkerClearsMarker(s)

DaemonStep ==
    \/ \E p \in Pids : StartDaemon(p)
    \/ CrashDaemon \/ ConfigureCapacity \/ BeginPass \/ ReadMarkers
    \/ ReconcilePass \/ PassFails

\* A step of the controller's recovery once it has begun
RecoveryStep ==
    \/ RecoveryTearsDown \/ RecoveryTeardownFails \/ RecoveryCompletes \/ RecoveryDefers
    \/ RecoveryClaims \/ RecoveryReleases \/ RecoveryClearsMarker

NativeNext ==
    \/ \E s \in Slots :
          \/ HandlerStep(s)
          \/ WorkerStep(s)
          \/ \E p \in Pids : SpawnSlot(s, p)
          \/ CrashSlot(s)
          \/ BeginRecovery(s)
    \/ \E h \in Holders : ServiceDropsJob(h)
    \/ DaemonStep
    \/ RecoveryStep

NativeSpec == NativeInit /\ [][NativeNext]_nativeVars

\* Each cycle of a running controller visits every marker and takes every step
\* open to it.  Docker and the run service may fail any number of calls, but
\* not all of them for ever.
RecoveryFairness ==
    /\ \A s \in Slots : SF_nativeVars(BeginRecovery(s))
    /\ SF_nativeVars(RecoveryTearsDown)
    /\ SF_nativeVars(RecoveryCompletes)
    /\ WF_nativeVars(RecoveryClaims)
    /\ WF_nativeVars(RecoveryReleases)
    /\ WF_nativeVars(RecoveryClearsMarker)

FairNativeSpec == NativeSpec /\ RecoveryFairness

-----------------------------------------------------------------------------
(* Properties *)

\* Type invariant of the lane's own state.
NativeTypeOK ==
    /\ slot \in [Slots -> SlotProcess \cup {Null}]
    /\ worker \in [Slots -> Worker \cup {Null}]
    /\ marker \in [Slots -> Marker \cup {Null}]
    /\ containers \in SUBSET (Holders \X Slots)
    /\ service \in [Holders -> {"queued", "assigned", "gone"}]
    /\ daemon \in Daemon \cup {Null}
    /\ recovery \in Recovery \cup {Null}

\* Whoever executes a job, or tears it down in its own process, owns the job's
\* permit under its own attempt token: no redelivery, daemon pass or recovery
\* takes it away meanwhile, so no job is executed by two slots at once.
ExecutorOwnsPermit ==
    \A s \in Slots :
        /\ At(s, "recorded") \/ At(s, "running") => Owns(slot[s].holder, slot[s].token)
        /\ WorkerAt(s, "tearing") \/ WorkerAt(s, "finalizing")
              => Owns(worker[s].holder, worker[s].token)

\* Every container on the host is on record: the marker of the slot that
\* created it names its job, so that a crash at any point leaves the evidence
\* recovery needs (startup_live_job_container_names relies on it).
ContainersAreRecorded ==
    \A h \in Holders, s \in Slots :
        <<h, s>> \in containers => marker[s] # Null /\ marker[s].holder = h

\* Recovery of a dead slot removes containers by job, not by slot: it never
\* takes those of a job that a live slot is running by now.
RecoverySparesTheLive ==
    [][\A s \in Slots :
          (/\ At(s, "running")
           /\ <<slot[s].holder, s>> \in containers
           /\ slot'[s] = slot[s])
              => <<slot[s].holder, s>> \in containers']_nativeVars

\* A marker only ever disappears with its work: the job's permit is no longer
\* held under the marker's token and no container of that slot is left.
MarkerOutlivesItsWork ==
    [][\A s \in Slots :
          (marker[s] # Null /\ marker'[s] = Null)
              => /\ ~Owns(marker[s].holder, marker[s].token)
                 /\ <<marker[s].holder, s>> \notin containers]_nativeVars

\* Whoever executes a job, or tears it down in its own process
Executing(s) ==
    At(s, "recorded") \/ At(s, "running") \/ WorkerAt(s, "tearing") \/ WorkerAt(s, "finalizing")

\* Jobs are never executed beyond the host's N, whichever epoch admitted them.
WithinCapacity == maxJobs # Null => Cardinality({s \in Slots : Executing(s)}) <= maxJobs

\* A job whose slot died with its permit is finished by the controller as long
\* as its pass lasts, whatever number of teardowns and remote calls fail: the
\* marker goes, unless a redelivery has taken the permit over.
RecoveryEnds ==
    \A s \in Slots, h \in Holders, t \in 1..MaxToken :
        (Up /\ slot[s] = Null /\ marker[s] = [holder |-> h, token |-> t] /\ Owns(h, t))
            ~> (marker[s] = Null \/ ~Up \/ (Held(h) /\ ~Owns(h, t)))

\* permit_guard.rs:3 "One top-level native job holds one ledger permit from
\* acquisition-commit until terminal work and owned cleanup are confirmed":
\* while a job has containers on the host its permit is held.
CapacityIsReal == \A h \in Holders, s \in Slots : <<h, s>> \in containers => Held(h)

\* controller.rs:3201 "crash in that gap remains retryable": with every slot
\* process dead, the markers they left do not stop the daemon from starting.
StartupSurvivesCrashGap ==
    (DaemonAt("read") /\ \A s \in Slots : slot[s] = Null) => Attests(daemon.seen)

=============================================================================
