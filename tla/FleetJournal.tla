---------------------------- MODULE FleetJournal ----------------------------
(***************************************************************************)
(* The durable fleet journal (velnor-control, journal.rs): one SQLite file *)
(* that the controller, the guardian and every slot process of a service   *)
(* write.  A write is one immediate transaction: the event goes through    *)
(* `reduce`, is appended to the log, and the resulting slots, jobs and     *)
(* outbox rows are stored in tables.  The processes read the tables; to    *)
(* rebuild them after a crash, load_state replays the whole log through    *)
(* `reduce` and compares the result with the tables.                       *)
(*                                                                         *)
(* Here every event arrives at any time with any arguments: what the       *)
(* reducer promises, it promises to callers with stale knowledge, in any   *)
(* order.  For each event there is what it accepts (Can...), the state it  *)
(* returns (...ed), and the transaction.                                   *)
(*                                                                         *)
(* Left out: pids, heartbeats and the canary; the package and capacity     *)
(* declarations, which decide nothing here; the legacy import; endpoint    *)
(* URLs; side-effect commands, which their callers do not execute; the     *)
(* launch leases.  There is one pressure episode, of one file system, and  *)
(* clock samples and fingerprints are what they decide: the choice among   *)
(* the pressure actions.                                                   *)
(***************************************************************************)
EXTENDS Naturals, FiniteSets

CONSTANTS
    Slots,
    JobIds,         \* run-service job ids and the provisional ids of requests
    Conclusions,
    Payloads,       \* checksums of completion payloads
    Nothing,        \* no row, no conclusion
    Terminal,       \* a completion row that is acked or abandoned
    MaxGeneration,  \* bound: slot generations
    MaxAttempts,    \* MAX_COMPLETION_ATTEMPTS
    MaxProbes       \* MAX_ACQUISITION_PROBES

ASSUME FleetConstants ==
    /\ MaxGeneration \in Nat \ {0} /\ MaxAttempts \in Nat \ {0} /\ MaxProbes \in Nat
    /\ Nothing \notin Conclusions
    /\ Nothing # Terminal

VARIABLES
    fleet,      \* the materialized tables
    replay,     \* what replaying the log from its baseline gives
    intact,     \* no event of the log is rejected when it is replayed
    barred,     \* a drain or a cordon is in the meta table
    pressure,   \* the disk-pressure episode: none, low (draining or not) or terminal
    struck      \* slot generations with a terminal-pressure fence in the log

fleetVars == <<fleet, replay, intact, barred, pressure, struck>>

Generations == 1 .. MaxGeneration
SlotPhases == {"absent", "provisioning", "registered", "ready", "assigned", "fenced"}
JobPhases == {"assigned", "running", "completing"}

\* session and executor name the generation that proved them, 0 if unproven.
SlotRecord ==
    [gen : Generations, phase : SlotPhases, permit : BOOLEAN, routing : BOOLEAN,
     session : 0 .. MaxGeneration, executor : 0 .. MaxGeneration, registered : BOOLEAN]

JobRecord ==
    [slot : Slots, gen : Generations, phase : JobPhases, plan : BOOLEAN,
     provisional : BOOLEAN, conclusion : Conclusions \cup {Nothing}, probes : 0 .. MaxProbes]

OutboxRecord ==
    [slot : Slots, gen : Generations, payload : Payloads, sent : BOOLEAN,
     attempts : 0 .. MaxAttempts, permanent : BOOLEAN]

\* The absence of a row, and a terminal row, are not rows.
ASSUME RowMarkers ==
    /\ Nothing \notin JobRecord
    /\ Nothing \notin OutboxRecord /\ Terminal \notin OutboxRecord

FleetState ==
    [slots : [Slots -> SlotRecord], jobs : [JobIds -> JobRecord \cup {Nothing}],
     outbox : [JobIds -> OutboxRecord \cup {Nothing, Terminal}], routing : BOOLEAN]

NewSlot == [gen |-> 1, phase |-> "absent", permit |-> FALSE, routing |-> FALSE,
            session |-> 0, executor |-> 0, registered |-> FALSE]

EmptyFleet == [slots |-> [s \in Slots |-> NewSlot], jobs |-> [j \in JobIds |-> Nothing],
               outbox |-> [j \in JobIds |-> Nothing], routing |-> FALSE]

FleetInit ==
    /\ fleet = EmptyFleet /\ replay = EmptyFleet /\ intact = TRUE
    /\ barred = FALSE /\ pressure = "none" /\ struck = {}

-----------------------------------------------------------------------------
(* What the reducer asks of a state *)

HasJob(st, j) == st.jobs[j] # Nothing

\* OutboxRecord::is_pending: nothing reads more of a terminal row than that.
Pending(row) == row \notin {Nothing, Terminal}

\* slot_has_active_job: every job phase occupies its slot.
Occupied(st, s) == \E j \in JobIds : HasJob(st, j) /\ st.jobs[j].slot = s

\* outbox_owner_is_proven
OwnerProven(st, j) ==
    LET row == st.outbox[j]
    IN  /\ st.slots[row.slot].gen = row.gen
        /\ HasJob(st, j)
        /\ st.jobs[j].slot = row.slot
        /\ st.jobs[j].gen = row.gen
        /\ ~st.jobs[j].provisional

\* pending_outbox_blocks_admission: an unproven owner bars every slot.
OutboxBlocks(st, s, g) ==
    \E j \in JobIds :
        /\ Pending(st.outbox[j])
        /\ \/ st.outbox[j].slot = s /\ st.outbox[j].gen = g
           \/ ~OwnerProven(st, j)

Blocked(st, s, g) == Occupied(st, s) \/ OutboxBlocks(st, s, g)

ReadyProof(slot) == slot.permit /\ slot.routing /\ slot.session # 0 /\ slot.executor # 0

\* The job's row is at generation g, and so is its slot.
JobCurrent(st, j, g) ==
    HasJob(st, j) /\ st.jobs[j].gen = g /\ st.slots[st.jobs[j].slot].gen = g

ProvisionalRow(st, j, g) == HasJob(st, j) /\ st.jobs[j].gen = g /\ st.jobs[j].provisional

PendingRow(st, j, g) ==
    Pending(st.outbox[j]) /\ st.outbox[j].gen = g /\ OwnerProven(st, j)

\* Mutant: a slot that loses its job is reopened whatever its phase.
PhaseReopened(slot, g) ==
    IF slot.gen # g THEN slot.phase
    ELSE IF ReadyProof(slot) /\ slot.registered THEN "ready"
    ELSE IF slot.registered THEN "registered"
    ELSE "provisioning"

\* The phase of a slot that loses its job; a fence outlives the job.
PhaseWithout(slot, g) ==
    IF slot.gen # g \/ slot.phase = "fenced" THEN slot.phase
    ELSE IF ReadyProof(slot) /\ slot.registered THEN "ready"
    ELSE IF slot.registered THEN "registered"
    ELSE "provisioning"

\* restore_slot_after_job_removal
WithoutJob(st, j) ==
    LET job == st.jobs[j]
    IN  [st EXCEPT !.jobs[j] = Nothing,
                   !.slots[job.slot].phase = PhaseWithout(st.slots[job.slot], job.gen)]

\* persist_state stores no terminal outbox row.
Persisted(st) ==
    [st EXCEPT !.outbox = [j \in JobIds |-> IF Pending(@[j]) THEN @[j] ELSE Nothing]]

\* apply_many: log the accepted event and store its outcome.  `again` says
\* whether load_state's replay, which knows neither drain nor pressure, accepts
\* the event too; a replay ends with an error at the first event it rejects.
Commit(next, again, renext) ==
    /\ fleet' = Persisted(next)
    /\ intact' = (intact /\ again)
    /\ replay' = IF intact /\ again THEN renext ELSE EmptyFleet

-----------------------------------------------------------------------------
(* Slot events *)

Routed(st, v) ==
    [st EXCEPT !.routing = v, !.slots = [s \in Slots |-> [@[s] EXCEPT !.routing = v]]]

Routing(v) ==
    /\ Commit(Routed(fleet, v), TRUE, Routed(replay, v))
    /\ UNCHANGED <<barred, pressure, struck>>

CanReserve(st, b, s, g) ==
    /\ g >= st.slots[s].gen
    /\ ~Blocked(st, s, g)
    /\ ~b
    /\ ~(g = st.slots[s].gen /\ st.slots[s].phase = "fenced")

\* Mutant: a newer generation inherits the proofs of its predecessor.
SlotInherited(st, slot, g) ==
    [slot EXCEPT !.gen = g, !.permit = TRUE, !.routing = st.routing,
                 !.phase = IF g > slot.gen \/ @ = "absent" THEN "provisioning" ELSE @]

\* A newer generation starts without the proofs of its predecessor.
SlotReserved(st, slot, g) ==
    IF g > slot.gen
      THEN [NewSlot EXCEPT !.gen = g, !.phase = "provisioning", !.permit = TRUE,
                           !.routing = st.routing]
      ELSE [slot EXCEPT !.permit = TRUE, !.routing = st.routing,
                        !.phase = IF @ = "absent" THEN "provisioning" ELSE @]

Reserved(st, s, g) == [st EXCEPT !.slots[s] = SlotReserved(st, @, g)]

\* Mutant: disk pressure does not stop new permits.
PermitReservedAnyway(s, g) ==
    /\ CanReserve(fleet, barred, s, g)
    /\ Commit(Reserved(fleet, s, g), CanReserve(replay, FALSE, s, g), Reserved(replay, s, g))
    /\ UNCHANGED <<barred, pressure, struck>>

PermitReserved(s, g) ==
    /\ CanReserve(fleet, barred, s, g)
    /\ pressure = "none"
    /\ Commit(Reserved(fleet, s, g), CanReserve(replay, FALSE, s, g), Reserved(replay, s, g))
    /\ UNCHANGED <<barred, pressure, struck>>

CanProve(st, s, g) == g = st.slots[s].gen /\ st.slots[s].phase # "fenced"

ExecutorProven(s, g) ==
    /\ CanProve(fleet, s, g)
    /\ Commit([fleet EXCEPT !.slots[s].executor = g], CanProve(replay, s, g),
              [replay EXCEPT !.slots[s].executor = g])
    /\ UNCHANGED <<barred, pressure, struck>>

SessionLive(s, g) ==
    /\ CanProve(fleet, s, g)
    /\ Commit([fleet EXCEPT !.slots[s].session = g], CanProve(replay, s, g),
              [replay EXCEPT !.slots[s].session = g])
    /\ UNCHANGED <<barred, pressure, struck>>

\* RegistrationIntended only checks; Registered is the state change.
CanRegister(st, b, s, g) == CanProve(st, s, g) /\ ~Blocked(st, s, g) /\ ~b

WasRegistered(st, s) == [st EXCEPT !.slots[s].registered = TRUE, !.slots[s].phase = "registered"]

Registered(s, g) ==
    /\ CanRegister(fleet, barred, s, g)
    /\ Commit(WasRegistered(fleet, s), CanRegister(replay, FALSE, s, g), WasRegistered(replay, s))
    /\ UNCHANGED <<barred, pressure, struck>>

CanLoseRegistration(st, s, g) == CanProve(st, s, g) /\ st.slots[s].registered

Unregistered(st, s, g) ==
    [st EXCEPT !.slots[s].registered = FALSE, !.slots[s].permit = FALSE, !.slots[s].session = 0,
               !.slots[s].phase = IF Blocked(st, s, g) THEN "fenced" ELSE "provisioning"]

RegistrationLost(s, g) ==
    /\ CanLoseRegistration(fleet, s, g)
    /\ Commit(Unregistered(fleet, s, g), CanLoseRegistration(replay, s, g),
              Unregistered(replay, s, g))
    /\ UNCHANGED <<barred, pressure, struck>>

CanBeReady(st, b, s, g) ==
    CanRegister(st, b, s, g) /\ ReadyProof(st.slots[s]) /\ st.slots[s].registered

ReadyAttempt(s, g) ==
    /\ CanBeReady(fleet, barred, s, g)
    /\ Commit([fleet EXCEPT !.slots[s].phase = "ready"], CanBeReady(replay, FALSE, s, g),
              [replay EXCEPT !.slots[s].phase = "ready"])
    /\ UNCHANGED <<barred, pressure, struck>>

CanGoStale(st, s, g) == g = st.slots[s].gen /\ ~Occupied(st, s)

SlotFenced(st, s) == [st EXCEPT !.slots[s].phase = "fenced"]

SlotStale(s, g) ==
    /\ CanGoStale(fleet, s, g)
    /\ Commit(SlotFenced(fleet, s), CanGoStale(replay, s, g), SlotFenced(replay, s))
    /\ UNCHANGED <<barred, pressure, struck>>

-----------------------------------------------------------------------------
(* Acquisition events *)

CanIntend(st, b, s, j, g) ==
    g = st.slots[s].gen /\ st.slots[s].phase = "ready" /\ ~b /\ ~HasJob(st, j)

Intended(st, s, j, g) ==
    [st EXCEPT !.slots[s].phase = "assigned",
               !.jobs[j] = [slot |-> s, gen |-> g, phase |-> "assigned", plan |-> FALSE,
                            provisional |-> TRUE, conclusion |-> Nothing, probes |-> 0]]

JobAcquisitionIntended(s, j, g) ==
    /\ CanIntend(fleet, barred, s, j, g)
    /\ pressure = "none"
    /\ Commit(Intended(fleet, s, j, g), CanIntend(replay, FALSE, s, j, g),
              Intended(replay, s, j, g))
    /\ UNCHANGED <<barred, pressure, struck>>

CanResolve(st, i, j, g) == ProvisionalRow(st, i, g) /\ (i = j \/ ~HasJob(st, j))

\* The row moves to the identity that the acquire reply named.
Resolved(st, i, j) ==
    [st EXCEPT !.jobs = [[@ EXCEPT ![i] = Nothing] EXCEPT ![j] =
                            [st.jobs[i] EXCEPT !.plan = TRUE]]]

JobAcquisitionResolved(i, j, g) ==
    /\ CanResolve(fleet, i, j, g)
    /\ Commit(Resolved(fleet, i, j), CanResolve(replay, i, j, g), Resolved(replay, i, j))
    /\ UNCHANGED <<barred, pressure, struck>>

AcquisitionProbeFailed(j, g) ==
    /\ ProvisionalRow(fleet, j, g)
    /\ fleet.jobs[j].probes < MaxProbes
    /\ Commit([fleet EXCEPT !.jobs[j].probes = @ + 1], ProvisionalRow(replay, j, g),
              [replay EXCEPT !.jobs[j].probes = @ + 1])
    /\ UNCHANGED <<barred, pressure, struck>>

JobAcquisitionLost(j, g) ==
    /\ ProvisionalRow(fleet, j, g)
    /\ Commit(WithoutJob(fleet, j), ProvisionalRow(replay, j, g), WithoutJob(replay, j))
    /\ UNCHANGED <<barred, pressure, struck>>

\* Mutant: another job of the slot is not looked for.
CanOwnBeside(st, j, s, g, h) ==
    /\ ~(HasJob(st, j) /\ st.jobs[j].gen > g)
    /\ st.slots[s].gen = g
    /\ \/ st.slots[s].phase = "assigned"
       \/ /\ st.slots[s].phase = "fenced" /\ h
          /\ ProvisionalRow(st, j, g) /\ st.jobs[j].slot = s /\ st.jobs[j].plan

\* The terminal-pressure handoff (h) may promote a resolved row on a fenced slot.
CanOwn(st, j, s, g, h) ==
    /\ ~(HasJob(st, j) /\ st.jobs[j].gen > g)
    /\ st.slots[s].gen = g
    /\ \/ st.slots[s].phase = "assigned"
       \/ /\ st.slots[s].phase = "fenced" /\ h
          /\ ProvisionalRow(st, j, g) /\ st.jobs[j].slot = s /\ st.jobs[j].plan
    /\ \A k \in JobIds \ {j} : HasJob(st, k) => st.jobs[k].slot # s

OwnedRow(st, j, s, g) ==
    [st EXCEPT !.jobs[j] = [slot |-> s, gen |-> g, phase |-> "assigned",
                            plan |-> HasJob(st, j) /\ st.jobs[j].plan, provisional |-> FALSE,
                            conclusion |-> Nothing, probes |-> 0]]

\* validate_acquisition_recovery_fence guards the handoff.
JobOwned(j, s, g, h) ==
    /\ CanOwn(fleet, j, s, g, h)
    /\ h => /\ fleet.slots[s].phase = "fenced" /\ <<s, g>> \in struck
            /\ ProvisionalRow(fleet, j, g) /\ fleet.jobs[j].phase = "assigned"
    /\ Commit(OwnedRow(fleet, j, s, g), CanOwn(replay, j, s, g, h), OwnedRow(replay, j, s, g))
    /\ UNCHANGED <<barred, pressure, struck>>

-----------------------------------------------------------------------------
(* Job and completion events *)

JobStarted(j, g) ==
    /\ JobCurrent(fleet, j, g)
    /\ Commit([fleet EXCEPT !.jobs[j].phase = "running"], JobCurrent(replay, j, g),
              [replay EXCEPT !.jobs[j].phase = "running"])
    /\ UNCHANGED <<barred, pressure, struck>>

\* A terminal result is written once.
CanConclude(st, j, g, c) == JobCurrent(st, j, g) /\ st.jobs[j].conclusion \in {Nothing, c}

Concluded(st, j, c) == [st EXCEPT !.jobs[j].conclusion = c, !.jobs[j].phase = "completing"]

JobTerminalResult(j, g, c) ==
    /\ CanConclude(fleet, j, g, c)
    /\ Commit(Concluded(fleet, j, c), CanConclude(replay, j, g, c), Concluded(replay, j, c))
    /\ UNCHANGED <<barred, pressure, struck>>

\* A second intent must repeat the first one, while it is pending.
CanIntendCompletion(st, j, g, p) ==
    /\ JobCurrent(st, j, g)
    /\ ~st.jobs[j].provisional
    /\ st.outbox[j] # Nothing => PendingRow(st, j, g) /\ st.outbox[j].payload = p

CompletionRow(st, j, g, p) ==
    [slot |-> st.jobs[j].slot, gen |-> g, payload |-> p, sent |-> FALSE, attempts |-> 0,
     permanent |-> FALSE]

\* Mutant: a repeated intent replaces the row, and with it the send claim.
WithNewIntent(st, j, g, p) ==
    [st EXCEPT !.jobs[j].phase = "completing", !.outbox[j] = CompletionRow(st, j, g, p)]

WithIntent(st, j, g, p) ==
    [st EXCEPT !.jobs[j].phase = "completing",
               !.outbox[j] = IF @ = Nothing THEN CompletionRow(st, j, g, p) ELSE @]

CompletionIntended(j, g, p) ==
    /\ CanIntendCompletion(fleet, j, g, p)
    /\ Commit(WithIntent(fleet, j, g, p), CanIntendCompletion(replay, j, g, p),
              WithIntent(replay, j, g, p))
    /\ UNCHANGED <<barred, pressure, struck>>

CanClaimSend(st, j, g) == PendingRow(st, j, g) /\ ~st.outbox[j].sent

CompletionSendStarted(j, g) ==
    /\ CanClaimSend(fleet, j, g)
    /\ Commit([fleet EXCEPT !.outbox[j].sent = TRUE], CanClaimSend(replay, j, g),
              [replay EXCEPT !.outbox[j].sent = TRUE])
    /\ UNCHANGED <<barred, pressure, struck>>

CanSettle(st, j, g) == PendingRow(st, j, g) /\ st.outbox[j].sent

\* Mutant: a settled completion leaves its job behind.
SettledBeside(st, j) == [st EXCEPT !.outbox[j] = Terminal]

Settled(st, j) == WithoutJob([st EXCEPT !.outbox[j] = Terminal], j)

\* RemoteAcked, and RemoteObservedTerminal
RemoteAcked(j, g) ==
    /\ CanSettle(fleet, j, g)
    /\ Commit(Settled(fleet, j), CanSettle(replay, j, g), Settled(replay, j))
    /\ UNCHANGED <<barred, pressure, struck>>

Charged(st, j, p) ==
    [st EXCEPT !.outbox[j].attempts = @ + 1, !.outbox[j].permanent = @ \/ p]

CompletionAttemptFailed(j, g, p) ==
    /\ CanSettle(fleet, j, g)
    /\ fleet.outbox[j].attempts < MaxAttempts
    /\ Commit(Charged(fleet, j, p), CanSettle(replay, j, g), Charged(replay, j, p))
    /\ UNCHANGED <<barred, pressure, struck>>

\* budget_exhausted, where l says that the row's deadline has passed
CanAbandon(st, l, j, g) ==
    PendingRow(st, j, g) /\ (st.outbox[j].permanent \/ st.outbox[j].attempts >= MaxAttempts \/ l)

\* The deadline passes at some moment (l).  A replay stamps each row with a new
\* one, six hours ahead.
CompletionUnresolvable(j, g, l) ==
    /\ CanAbandon(fleet, l, j, g)
    /\ Commit(Settled(fleet, j), CanAbandon(replay, FALSE, j, g), Settled(replay, j))
    /\ UNCHANGED <<barred, pressure, struck>>

CanLosePayload(st, j, g, p) ==
    PendingRow(st, j, g) /\ st.outbox[j].payload = p /\ st.jobs[j].phase = "completing"

CompletionPayloadLost(j, g, p) ==
    /\ CanLosePayload(fleet, j, g, p)
    /\ Commit(Settled(fleet, j), CanLosePayload(replay, j, g, p), Settled(replay, j))
    /\ UNCHANGED <<barred, pressure, struck>>

\* Mutant: a lost worker takes the job with it, pending completion or not.
CanForgetAnyway(st, j, g) == JobCurrent(st, j, g)

\* With a pending row the event is accepted and changes nothing.
CanForget(st, j, g) == JobCurrent(st, j, g) /\ ~(Pending(st.outbox[j]) /\ st.outbox[j].gen = g)

JobWorkerLost(j, g) ==
    /\ CanForget(fleet, j, g)
    /\ Commit(WithoutJob(fleet, j), CanForget(replay, j, g), WithoutJob(replay, j))
    /\ UNCHANGED <<barred, pressure, struck>>

-----------------------------------------------------------------------------
(* Overlays: drain and cordon, and the disk-pressure episode *)

SetAdmission(b) ==
    /\ barred' = b
    /\ UNCHANGED <<fleet, replay, intact, pressure, struck>>

\* A measured or unmeasurable low volume opens an episode.
PressureObserved ==
    /\ pressure = "none"
    /\ pressure' = "low"
    /\ UNCHANGED <<fleet, replay, intact, barred, struck>>

AllFenced(st) == [st EXCEPT !.slots = [s \in Slots |-> [@[s] EXCEPT !.phase = "fenced"]]]

Unfenced == {s \in Slots : fleet.slots[s].phase # "fenced"}

\* Mutant: the fences are stored and not logged.
FenceSlotsUnlogged ==
    /\ struck' = struck \cup {<<s, fleet.slots[s].gen>> : s \in Unfenced}
    /\ fleet' = AllFenced(fleet)
    /\ UNCHANGED <<replay, intact, barred>>

\* persist_pressure_terminal_slot_fences: one fence event for every slot that is
\* not fenced yet; running jobs keep their rows.
FenceSlots ==
    /\ struck' = struck \cup {<<s, fleet.slots[s].gen>> : s \in Unfenced}
    /\ Commit(AllFenced(fleet), TRUE, AllFenced(replay))
    /\ UNCHANGED barred

\* An observation of a worker or of the controller latches the episode and fences
\* the slots in one transaction.  A deadline ends a low episode; a clock behind
\* the high-water mark or another volume opens a terminal one at once; and an
\* observation of a terminal episode stores the fences that are missing.
PressureTerminal ==
    /\ pressure' = "terminal"
    /\ FenceSlots

PressureSafe(st) == \A s \in Slots : st.slots[s].phase = "fenced" /\ ~Occupied(st, s)

\* A healthy measurement ends a low episode, and a terminal one once it is safe.
PressureCleared ==
    /\ pressure # "none"
    /\ pressure = "terminal" => PressureSafe(fleet)
    /\ pressure' = "none"
    /\ UNCHANGED <<fleet, replay, intact, barred, struck>>

\* The same call with a time before the last observation, which a worker may have
\* made since the controller read its clock, latches the episode and fences no
\* slot: the next observation does.
PressureClearedLate ==
    /\ pressure = "low"
    /\ pressure' = "terminal"
    /\ UNCHANGED <<fleet, replay, intact, barred, struck>>

\* A volume that is no longer configured: latch, fence, and end the episode in
\* the same transaction when no slot has a job.
PressureRetired ==
    /\ pressure # "none"
    /\ pressure' = IF PressureSafe(AllFenced(fleet)) THEN "none" ELSE "terminal"
    /\ FenceSlots

\* Another volume under the path of a terminal episode, which may be low itself.
PressureRebound ==
    /\ pressure = "terminal"
    /\ PressureSafe(fleet)
    /\ pressure' \in {"none", "low"}
    /\ UNCHANGED <<fleet, replay, intact, barred, struck>>

-----------------------------------------------------------------------------
SlotEvent ==
    \/ \E v \in BOOLEAN : Routing(v)
    \/ \E s \in Slots, g \in Generations :
        \/ PermitReserved(s, g) \/ ExecutorProven(s, g) \/ SessionLive(s, g)
        \/ Registered(s, g) \/ RegistrationLost(s, g) \/ ReadyAttempt(s, g) \/ SlotStale(s, g)

JobEvent ==
    \E j \in JobIds, g \in Generations :
        \/ \E s \in Slots : JobAcquisitionIntended(s, j, g)
        \/ \E i \in JobIds : JobAcquisitionResolved(i, j, g)
        \/ AcquisitionProbeFailed(j, g) \/ JobAcquisitionLost(j, g)
        \/ \E s \in Slots, h \in BOOLEAN : JobOwned(j, s, g, h)
        \/ JobStarted(j, g) \/ JobWorkerLost(j, g)
        \/ \E c \in Conclusions : JobTerminalResult(j, g, c)

CompletionEvent ==
    \E j \in JobIds, g \in Generations :
        \/ \E p \in Payloads : CompletionIntended(j, g, p) \/ CompletionPayloadLost(j, g, p)
        \/ CompletionSendStarted(j, g) \/ RemoteAcked(j, g)
        \/ \E p \in BOOLEAN : CompletionAttemptFailed(j, g, p) \/ CompletionUnresolvable(j, g, p)

Overlay ==
    \/ \E b \in BOOLEAN : SetAdmission(b)
    \/ PressureObserved \/ PressureTerminal \/ PressureCleared \/ PressureClearedLate
    \/ PressureRetired \/ PressureRebound

FleetNext == SlotEvent \/ JobEvent \/ CompletionEvent \/ Overlay

FleetSpec == FleetInit /\ [][FleetNext]_fleetVars

-----------------------------------------------------------------------------
(* Properties *)

FleetTypeOK ==
    /\ fleet \in FleetState /\ replay \in FleetState
    /\ intact \in BOOLEAN /\ barred \in BOOLEAN
    /\ pressure \in {"none", "low", "terminal"}
    /\ struck \subseteq Slots \X Generations

\* A slot has at most one job, of the slot's own generation, and its phase tells
\* so: assigned slots have one, and only assigned and fenced slots do.
SlotsMatchJobs ==
    /\ \A j \in JobIds : HasJob(fleet, j) =>
        LET job == fleet.jobs[j]
            slot == fleet.slots[job.slot]
        IN  /\ job.gen = slot.gen
            /\ slot.phase \in {"assigned", "fenced"}
            /\ \A k \in JobIds : HasJob(fleet, k) /\ fleet.jobs[k].slot = job.slot => k = j
    /\ \A s \in Slots : fleet.slots[s].phase = "assigned" => Occupied(fleet, s)

\* A pending completion has an owned job of its slot and generation until it is
\* settled: no order of events turns it into the barrier that an unproven owner
\* raises against every slot, and no event deletes the job under it.
OwnersStayProven == \A j \in JobIds : Pending(fleet.outbox[j]) => OwnerProven(fleet, j)

\* A ready slot has a permit, a registration, and a session and an executor of
\* this very generation; it has no job and owes no completion.
ReadyIsProvenNow ==
    \A s \in Slots : LET slot == fleet.slots[s] IN slot.phase = "ready" =>
        /\ slot.permit /\ slot.registered
        /\ slot.session = slot.gen /\ slot.executor = slot.gen
        /\ ~Blocked(fleet, s, slot.gen)

\* While every logged event is accepted again, a replay of the log gives what
\* the tables hold, up to terminal completions: load_state's comparison succeeds.
ReplayMatchesTables == intact => fleet = Persisted(replay)

\* A pending completion keeps its owner, its payload and its send claim, and its
\* failure budget only shrinks, so that one result is sent and the retries end.
SendClaimSticks ==
    [][\A j \in JobIds : Pending(fleet.outbox[j]) /\ Pending(fleet'.outbox[j]) =>
        LET old == fleet.outbox[j]
            new == fleet'.outbox[j]
        IN  /\ <<new.slot, new.gen, new.payload>> = <<old.slot, old.gen, old.payload>>
            /\ old.sent => new.sent
            /\ old.attempts <= new.attempts
            /\ old.permanent => new.permanent]_fleetVars

\* A fenced generation never works again: its slot stays fenced until a newer
\* generation takes it, which happens only once its job is gone.
FencedForGood ==
    [][\A s \in Slots :
        LET old == fleet.slots[s]
            new == fleet'.slots[s]
        IN  /\ new.gen >= old.gen
            /\ new.gen # old.gen => ~Occupied(fleet, s)
            /\ old.phase = "fenced" /\ new.gen = old.gen => new.phase = "fenced"]_fleetVars

\* While a disk-pressure episode is open no work enters the fleet: no slot takes
\* a new generation, no slot without a job gets one, and no fence is lifted,
\* whatever permits, acquisitions and proofs are on their way.  A terminal episode
\* ends only when every slot is fenced and the last job is gone, also when it was
\* latched by the health check that fences nothing.
PressureAdmitsNothing ==
    [][/\ pressure # "none" => \A s \in Slots :
            /\ fleet'.slots[s].gen = fleet.slots[s].gen
            /\ Occupied(fleet', s) => Occupied(fleet, s)
            /\ fleet.slots[s].phase = "fenced" => fleet'.slots[s].phase = "fenced"
       /\ pressure = "terminal" /\ pressure' # "terminal" => PressureSafe(fleet')]_fleetVars

=============================================================================
