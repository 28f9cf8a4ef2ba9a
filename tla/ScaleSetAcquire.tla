-------------------------- MODULE ScaleSetAcquire --------------------------
(***************************************************************************)
(* How the Scale Set lane takes a job                                      *)
(* (crates/velnor-runner/src/scaleset): an offer becomes a demand row, the *)
(* row is granted, a permit is reserved in the host ledger, the acquire    *)
(* call is sent to the service and its answer is applied.  The ledger is   *)
(* one database and the lane's stores another, so no step commits to both: *)
(* every step of this module is one commit, or the network call, and the   *)
(* daemon may die between any two.  Journal rows (acquires, releases,      *)
(* rotations) and the acquire batches tell the next daemon what was under  *)
(* way; its recovery and the listener's startup are modelled in full for   *)
(* requests that have no worker yet.                                       *)
(*                                                                         *)
(* Scope: one scale set, one daemon at a time, which ends only by dying;   *)
(* no other lane.  Left out: worker provisioning and everything after it,  *)
(* cancellation, the trust gate, failing storage, and the clock, which     *)
(* stands still (an overdue batch may be due at any time).  A pass that    *)
(* fails is retried by the same process: the listener polls again, the     *)
(* daemon begins another epoch.  The ledger starts without rows of an      *)
(* older release.                                                          *)
(***************************************************************************)
EXTENDS PermitLedger, Sequences

ASSUME ScaleSetAssumption ==
    /\ Holders # {} /\ \A h \in Holders : "scaleset" \in LanesOf[h]
    /\ {"reserved", "acquiring"} \subseteq GrantStates
    /\ LegacyHolders = {}

VARIABLES
    request,    \* scaleset_demand, by holder
    acquires,   \* scaleset_attempt_acquires
    releases,   \* scaleset_attempt_releases with their batch
    rotations,  \* scaleset_attempt_rotations with their prior pid
    batches,    \* scaleset_acquire_batches, in the order of their insertion
    assigned,   \* requests the service assigned to this scale set (external)
    adapter,    \* the running daemon's place in its pass, Null when none runs
    spent       \* pids that have been used: ids are not reused here

stores == <<request, acquires, releases, rotations, batches>>
scaleVars == <<ledgerVars, stores, assigned, adapter, spent>>

-----------------------------------------------------------------------------
(* Rows *)

\* PERMIT_STATES and holds_permit, as far as this module goes
ActiveStates == {"granted", "acquire_intent", "acquired", "uncertain"}

Active(h) == request[h] # Null /\ request[h].state \in ActiveStates

RequestRow ==
    [state : ActiveStates \cup {"eligible"}, token : Token \cup {Null}, gen : Nat,
     seq : Nat]

\* The lane's own order: first_seen_at and sequence of its row, not the ledger's
Ahead(h, k) == request[h].seq < request[k].seq

AcquireRow == [prev : Token \cup {Null}, target : Token]

\* batch 0: a release that settles no batch
ReleaseRow == [token : Token, batch : Nat]

RotationRow == [old : Token, new : Token, pid : Pids]

BatchStates == {"intended", "resolved", "uncertain"}

Phases == {"configure", "epoch", "attest", "claim", "releases", "acquisitions",
           "rotations", "startup", "polling", "stage", "reserve", "reserved",
           "refused", "record", "unstage", "intend", "send", "lost", "answered",
           "missing", "resend", "reanswered"}

Adapter ==
    [pid : Pids, pc : Phases, todo : SUBSET Holders, taken : SUBSET Holders, batch : Nat,
     answer : SUBSET Holders]

\* NULL is no row of the stores, and no daemon.
ASSUME StoresAssumption ==
    /\ Null \notin RequestRow
    /\ Null \notin AcquireRow
    /\ Null \notin ReleaseRow
    /\ Null \notin RotationRow
    /\ Null \notin Adapter

Open(b) == batches[b].state # "resolved"

Members(b) == DOMAIN batches[b].tokens

\* acquire_batch_contains_attempt reads the batches in the order of the index
\* on their state, and only the first that names the request counts.
ReadBefore(b, c) ==
    LET rank == [intended |-> 1, resolved |-> 2, uncertain |-> 3]
    IN  \/ rank[batches[b].state] < rank[batches[c].state]
        \/ batches[b].state = batches[c].state /\ b <= c

Naming(h) == {b \in DOMAIN batches : h \in Members(b)}

\* "another" makes the caller fail.
BatchEvidence(h, t) ==
    IF Naming(h) = {} THEN "none"
    ELSE LET first == CHOOSE b \in Naming(h) : \A c \in Naming(h) : ReadBefore(b, c)
         IN  IF batches[first].tokens[h] = t THEN "exact" ELSE "another"

At(pc) == adapter # Null /\ adapter.pc = pc

Goto(pc) == adapter' = [adapter EXCEPT !.pc = pc]

Idle(p, pc) ==
    [pid |-> p, pc |-> pc, todo |-> {}, taken |-> {}, batch |-> 0, answer |-> {}]

\* The pass ends, well or not, and the listener polls again.
Poll == adapter' = Idle(adapter.pid, "polling")

NoReleases == \A h \in Holders : releases[h] = Null

-----------------------------------------------------------------------------
(* Death and the daemon's start *)

StartDaemon(p) ==
    /\ adapter = Null
    /\ p \notin spent
    /\ StartProcess(p)
    /\ adapter' = Idle(p, "configure")
    /\ spent' = spent \cup {p}
    /\ UNCHANGED <<stores, assigned>>

DaemonDies ==
    /\ adapter # Null
    /\ CrashProcess(adapter.pid)
    /\ adapter' = Null
    /\ UNCHANGED <<stores, assigned, spent>>

\* init_host_permit_ledger: the operator's N, the new epoch, one reconcile
ConfigureLedger ==
    /\ At("configure")
    /\ \E n \in Capacities : SetMaxJobs(n)
    /\ Goto("epoch")
    /\ UNCHANGED <<stores, assigned, spent>>

OpenEpoch ==
    /\ At("epoch")
    /\ BeginEpoch
    /\ Goto("attest")
    /\ UNCHANGED <<stores, assigned, spent>>

Staged(h) == acquires[h] # Null \/ releases[h] # Null \/ rotations[h] # Null

\* attest_demand_holders: active rows that carry a token, less the staged ones
Attested == {h \in Holders : Active(h) /\ request[h].token # Null /\ ~Staged(h)}

Observation(h) ==
    CASE rotations[h] # Null -> "rotation"
      [] releases[h] # Null -> "release"
      [] acquires[h] # Null -> "acquisition"
      [] OTHER -> "alive"

Observed ==
    [h \in Attested \cup {k \in Holders : Staged(k)} |-> Observation(h)]

\* What the transaction asks of the token an observation names
TokenAccepted(h) ==
    CASE Observation(h) = "alive" -> Owns(h, request[h].token)
      [] Observation(h) = "rotation" ->
           \/ Owns(h, rotations[h].old)
           \/ /\ Owns(h, rotations[h].new)
              /\ permits[h].rotation # Null
              /\ permits[h].rotation.token = rotations[h].old
      [] Observation(h) = "release" ->
           IF Held(h) THEN Owns(h, releases[h].token)
           ELSE Known(h) /\ demands[h].state = "eligible"
      [] OTHER -> Held(h) => Owns(h, acquires[h].target)

AttestationAccepted == \A h \in DOMAIN Observed : TokenAccepted(h)

\* One wrong observation fails the transaction, and the pass with it.
AttestLedger ==
    /\ At("attest")
    /\ IF AttestationAccepted
       THEN Reconcile(Observed) /\ Goto("claim")
       ELSE Goto("configure") /\ UNCHANGED ledgerVars
    /\ UNCHANGED <<stores, assigned, spent>>

\* ensure_recovery_claim: a retry in the same process keeps its claim
EnsureRecoveryClaim ==
    /\ At("claim")
    /\ IF recoveryClaim # Null /\ recoveryClaim.pid = adapter.pid
       THEN UNCHANGED ledgerVars
       ELSE ClaimScaleSetRecovery(adapter.pid)
    /\ Goto("releases")
    /\ UNCHANGED <<stores, assigned, spent>>

-----------------------------------------------------------------------------
(* Staged releases: stage, ledger, projection *)

ReleasePhases == {"releases", "acquisitions", "polling", "missing", "reanswered"}

\* require_dead_prior_owner; this process's own pid is alive
PriorOwnerDead(h) == permits[h].pid \notin alive

\* release_staged.  Startup recovery first proves the owner dead.
ReleasePermit(h) ==
    /\ adapter # Null
    /\ adapter.pc \in ReleasePhases
    /\ releases[h] # Null
    /\ Held(h)
    /\ adapter.pc = "releases" => PriorOwnerDead(h)
    /\ \A k \in Holders : releases[k] # Null => Held(k)
    /\ ReleaseScaleSetStaged(h, releases[h].token, "eligible")
    /\ UNCHANGED <<stores, assigned, adapter, spent>>

\* No other staged release belongs to h's batch.
LastOfBatch(h) ==
    \A k \in Holders \ {h} :
        releases[k] # Null => releases[k].batch # releases[h].batch

\* finish_attempt_release.  The row keeps the token of the attempt it gave up.
FinishRelease(h) ==
    /\ adapter # Null
    /\ adapter.pc \in ReleasePhases
    /\ releases[h] # Null
    /\ ~Held(h)
    /\ demands[h].state = "eligible"
    /\ request[h].token = releases[h].token
    /\ request' = [request EXCEPT ![h] =
           IF @.state = "eligible" THEN @
           ELSE [@ EXCEPT !.state = "eligible", !.gen = generation]]
    /\ LET b == releases[h].batch
       IN  /\ b # 0 => batches[b].tokens[h] = releases[h].token
           /\ batches' = IF b # 0 /\ LastOfBatch(h)
                         THEN [batches EXCEPT ![b].state = "resolved"]
                         ELSE batches
    /\ releases' = [releases EXCEPT ![h] = Null]
    /\ UNCHANGED <<ledgerVars, acquires, rotations, assigned, adapter, spent>>

ReleasesRecovered ==
    /\ At("releases")
    /\ NoReleases
    /\ Goto("acquisitions")
    /\ UNCHANGED <<ledgerVars, stores, assigned, spent>>

-----------------------------------------------------------------------------
(* Recovery of staged acquires and of the attempts a dead daemon owned *)

AcquireIsSound(h) ==
    LET evidence == BatchEvidence(h, acquires[h].target)
    IN  /\ request[h].state = "granted"
        /\ request[h].token \in {acquires[h].prev, acquires[h].target}
        /\ evidence # "another"
        /\ IF Held(h)
           THEN /\ permits[h].state = "reserved"
                /\ Owns(h, acquires[h].target)
                /\ PriorOwnerDead(h)
           ELSE evidence = "none" /\ request[h].token = acquires[h].prev

\* A committed permit with no batch was never sent: back to the queue.
MustRelease(h) == Held(h) /\ BatchEvidence(h, acquires[h].target) = "none"

\* mutant: the row keeps the token it had before the reserve
UnprojectedToken(h) == request[h].token

\* The row takes the token of a permit the ledger committed.
RecoveredToken(h) == IF Held(h) THEN acquires[h].target ELSE request[h].token

\* recover_staged_attempt_acquisitions: clear the stage of an insert that did
\* not commit; hand a batched attempt to the batch; release any other one.
RecoverAcquire(h) ==
    /\ At("acquisitions")
    /\ NoReleases
    /\ acquires[h] # Null
    /\ AcquireIsSound(h)
    /\ request' = [request EXCEPT ![h].token = RecoveredToken(h)]
    /\ releases' = [releases EXCEPT ![h] =
           IF MustRelease(h) THEN [token |-> acquires[h].target, batch |-> 0] ELSE Null]
    /\ acquires' = [acquires EXCEPT ![h] = Null]
    /\ UNCHANGED <<ledgerVars, rotations, batches, assigned, adapter, spent>>

AcquiresRecovered ==
    /\ At("acquisitions")
    /\ NoReleases
    /\ \A h \in Holders : acquires[h] = Null
    /\ Goto("rotations")
    /\ UNCHANGED <<ledgerVars, stores, assigned, spent>>

\* resume_staged_rotation_if_proven: the ledger half committed under this claim
RotationDone(h) ==
    /\ Owns(h, rotations[h].new)
    /\ permits[h].rotation =
           [claim |-> recoveryClaim.token, pid |-> rotations[h].pid,
            token |-> rotations[h].old]

PendingRotations == {h \in Holders : rotations[h] # Null /\ ~RotationDone(h)}

\* rotate_staged_attempt, its stage
StageRotation(h) ==
    /\ At("rotations")
    /\ PendingRotations = {}
    /\ rotations[h] = Null
    /\ Active(h)
    /\ Owns(h, request[h].token)
    /\ PriorOwnerDead(h)
    /\ MintToken
    /\ rotations' = [rotations EXCEPT ![h] =
           [old |-> request[h].token, new |-> minted + 1, pid |-> permits[h].pid]]
    /\ UNCHANGED <<request, acquires, releases, batches, assigned, adapter, spent>>

\* rotate_staged_attempt, its ledger half
RotateAttempt(h) ==
    /\ At("rotations")
    /\ h \in PendingRotations
    /\ Held(h)
    /\ PriorOwnerDead(h)
    /\ RotateScaleSetAttempt(h, permits[h].state, generation, rotations[h].pid,
                             rotations[h].old, rotations[h].new,
                             recoveryClaim.token, adapter.pid)
    /\ UNCHANGED <<stores, assigned, adapter, spent>>

\* An active row after the scan: without a permit it is only granted; with one
\* it is being rotated, or already this process's own.
Rebound(h) ==
    IF ~Held(h) THEN request[h].state = "granted"
    ELSE IF rotations[h] # Null THEN RotationDone(h)
    ELSE permits[h].pid = adapter.pid /\ Owns(h, request[h].token)

\* An active row the scan can neither leave nor rotate
Unrecoverable(h) ==
    IF ~Held(h) THEN request[h].state # "granted"
    ELSE rotations[h] = Null /\ ~Owns(h, request[h].token)

ProjectedToken(h) == IF rotations[h] # Null THEN rotations[h].new ELSE request[h].token

\* The members of open batches still own their permits, or gave them up.
BatchMembersAgree ==
    \A b \in DOMAIN batches :
        Open(b) => \A h \in Members(b) :
            /\ IF Held(h) THEN Owns(h, ProjectedToken(h)) ELSE ~Active(h)
            /\ \/ batches[b].tokens[h] = ProjectedToken(h)
               \/ rotations[h] # Null /\ batches[b].tokens[h] = rotations[h].old

ScanEnded ==
    /\ PendingRotations = {}
    /\ \A h \in Holders : Active(h) => Rebound(h)

\* finish_staged_attempt_rotations: demand rows and open batches take the new
\* tokens in one commit
FinishRotations ==
    /\ At("rotations")
    /\ ScanEnded
    /\ BatchMembersAgree
    /\ request' = [h \in Holders |->
           IF rotations[h] # Null THEN [request[h] EXCEPT !.token = rotations[h].new]
           ELSE request[h]]
    /\ batches' = [b \in DOMAIN batches |->
           IF Open(b)
           THEN [batches[b] EXCEPT !.tokens = [h \in Members(b) |-> ProjectedToken(h)]]
           ELSE batches[b]]
    /\ rotations' = [h \in Holders |-> Null]
    /\ Goto("startup")
    /\ UNCHANGED <<ledgerVars, acquires, releases, assigned, spent>>

\* A check that fails ends the pass; the daemon starts over.
RecoveryFails ==
    /\ \/ /\ At("acquisitions")
          /\ NoReleases
          /\ \E h \in Holders : acquires[h] # Null /\ ~AcquireIsSound(h)
       \/ /\ At("rotations")
          /\ \/ \E h \in Holders : Active(h) /\ Unrecoverable(h)
             \/ ScanEnded /\ ~BatchMembersAgree
    /\ Goto("configure")
    /\ UNCHANGED <<ledgerVars, stores, assigned, spent>>

-----------------------------------------------------------------------------
(* The listener's startup, before its first poll.  A check that fails leaves *)
(* it where it is, to be tried again at the next poll.                       *)

MembersValid(b) ==
    \A h \in Members(b) :
        /\ batches[b].tokens[h] = request[h].token
        /\ IF Held(h) THEN Owns(h, request[h].token) ELSE ~Active(h)

OpenMembersValid == \A b \in DOMAIN batches : Open(b) => MembersValid(b)

\* The scan of the open batches has come to b.
ScanAt(b) ==
    /\ \A c \in 1..b : Open(c) => MembersValid(c)
    /\ \A c \in 1..(b - 1) : batches[c].state # "intended"

\* An intended batch may have been sent: it becomes uncertain, and then, row
\* by row, so do its members.  An intent without a batch needs no step: the
\* batch is recorded before the intent and never deleted.
OrphanBatch(b) ==
    /\ At("startup")
    /\ adapter.todo = {}
    /\ ScanAt(b)
    /\ batches[b].state = "intended"
    /\ batches' = [batches EXCEPT ![b].state = "uncertain"]
    /\ adapter' = [adapter EXCEPT !.todo = Members(b)]
    /\ UNCHANGED <<ledgerVars, request, acquires, releases, rotations, assigned, spent>>

OrphanMember(h) ==
    /\ At("startup")
    /\ h \in adapter.todo
    /\ request' = [request EXCEPT ![h] =
           IF @.state \in {"granted", "acquire_intent"}
           THEN [@ EXCEPT !.state = "uncertain", !.gen = generation]
           ELSE @]
    /\ adapter' = [adapter EXCEPT !.todo = @ \ {h}]
    /\ UNCHANGED <<ledgerVars, acquires, releases, rotations, batches, assigned, spent>>

StaleGrants ==
    {h \in Holders : /\ request[h] # Null
                     /\ request[h].state \in {"granted", "acquire_intent"}
                     /\ request[h].gen # generation}

\* mutant: the stale grants are reset before the open batches are looked at
ResetBeforeBatches ==
    /\ adapter.todo = {}
    /\ \A h \in StaleGrants : request[h].state = "granted" => ~Held(h)

\* Past the batches.  A stale grant that holds a permit stops the startup:
\* recovery has just moved the row to this live process.
BatchesOrphaned ==
    /\ adapter.todo = {}
    /\ OpenMembersValid
    /\ \A b \in DOMAIN batches : batches[b].state # "intended"
    /\ \A h \in StaleGrants : request[h].state = "granted" => ~Held(h)

\* reset_stale_grants, one row at a time
ResetStaleGrant(h) ==
    /\ At("startup")
    /\ BatchesOrphaned
    /\ h \in StaleGrants
    /\ request' = [request EXCEPT ![h].state = "eligible", ![h].gen = generation]
    /\ UNCHANGED <<ledgerVars, acquires, releases, rotations, batches, assigned,
                   adapter, spent>>

\* Every active row has its permit, or is only granted; every doubt a batch.
\* (The adoption of an empty ledger finds the daemon's reconciliation done.)
FinishStartup ==
    /\ At("startup")
    /\ BatchesOrphaned
    /\ StaleGrants = {}
    /\ \A h \in Holders :
           Active(h) => IF Held(h) THEN Owns(h, request[h].token)
                        ELSE request[h].state = "granted"
    /\ \A h \in Holders :
           (Active(h) /\ request[h].state = "uncertain") => Naming(h) # {}
    /\ Poll
    /\ UNCHANGED <<ledgerVars, stores, assigned, spent>>

-----------------------------------------------------------------------------
(* A poll: offers and grants *)

Submitted == {h \in Holders : request[h] # Null}

\* submit_offer; a redelivered offer changes nothing
SubmitOffer(h) ==
    /\ At("polling")
    /\ NoReleases
    /\ h \notin Submitted
    /\ request' = [request EXCEPT ![h] =
           [state |-> "eligible", token |-> Null, gen |-> generation,
            seq |-> Cardinality(Submitted) + 1]]
    /\ UNCHANGED <<ledgerVars, acquires, releases, rotations, batches, assigned,
                   adapter, spent>>

\* observe_global_demand: the offer's ledger half, and again before a grant and
\* before an acquire.  A row is also granted before its ledger half is written.
ObserveGlobalDemand(h) ==
    /\ At("polling")
    /\ NoReleases
    /\ h \in Submitted
    /\ request[h].state \in {"eligible", "granted"}
    /\ ObserveDemand(h, "scaleset", now, now)
    /\ UNCHANGED <<stores, assigned, adapter, spent>>

\* grant_oldest, one row; a token an earlier attempt left behind stays
GrantOldest(h) ==
    /\ At("polling")
    /\ NoReleases
    /\ request[h] # Null
    /\ request[h].state = "eligible"
    /\ request' = [request EXCEPT ![h].state = "granted", ![h].gen = generation]
    /\ UNCHANGED <<ledgerVars, acquires, releases, rotations, batches, assigned,
                   adapter, spent>>

-----------------------------------------------------------------------------
(* acquire_pass *)

Granted == {h \in Holders : request[h] # Null /\ request[h].state = "granted"}

\* oldest_granted, as many as the headroom of the service's statistics allows
Candidates ==
    {S \in SUBSET Granted \ {{}} :
        \A h \in S, k \in Granted \ S : Ahead(h, k)}

BeginAcquirePass ==
    /\ At("polling")
    /\ NoReleases
    /\ \A h \in Holders : request[h] # Null => request[h].state # "eligible"
    /\ \E S \in Candidates :
          /\ \A h \in S : Known(h)
          /\ adapter' = [Idle(adapter.pid, "stage") EXCEPT !.todo = S]
    /\ UNCHANGED <<ledgerVars, stores, assigned, spent>>

\* The candidate of this round
IsNext(h) ==
    /\ h \in adapter.todo
    /\ \A k \in adapter.todo \ {h} : Ahead(h, k)

\* Nothing more to reserve: go on with what was taken, if anything.
AfterReserving ==
    adapter' = IF adapter.taken = {} THEN Idle(adapter.pid, "polling")
               ELSE [adapter EXCEPT !.pc = "record", !.todo = {}]

\* stage_attempt_acquire; a stage left behind by a failed pass is another's
StageAcquire(h) ==
    /\ At("stage")
    /\ IsNext(h)
    /\ IF Staged(h)
       THEN Poll /\ UNCHANGED <<ledgerVars, acquires>>
       ELSE /\ MintToken
            /\ acquires' = [acquires EXCEPT ![h] =
                   [prev |-> request[h].token, target |-> minted + 1]]
            /\ Goto("reserve")
    /\ UNCHANGED <<request, releases, rotations, batches, assigned, spent>>

\* reserve_for_offer_with_token: reserved; no permit free, or another offer's
\* turn; or already held, which fails the pass and leaves the stage
Reserve(h) ==
    /\ At("reserve")
    /\ IsNext(h)
    /\ IF Held(h) THEN Poll /\ UNCHANGED ledgerVars
       ELSE \/ /\ \/ AcquireFull(h, "scaleset", generation)
                  \/ AcquireDeferred(h, "scaleset", generation)
               /\ Goto("refused")
            \/ /\ AcquireStagedAttempt(h, "reserved", generation, adapter.pid,
                                       acquires[h].target)
               /\ Goto("reserved")
    /\ UNCHANGED <<stores, assigned, spent>>

\* finish_attempt_acquire(true): the row takes the token, the stage stays
ProjectToken(h) ==
    /\ At("reserved")
    /\ IsNext(h)
    /\ request' = [request EXCEPT ![h].token = acquires[h].target]
    /\ adapter' = [adapter EXCEPT !.pc = IF adapter.todo = {h} THEN "record" ELSE "stage",
                                  !.todo = @ \ {h}, !.taken = @ \cup {h}]
    /\ UNCHANGED <<ledgerVars, acquires, releases, rotations, batches, assigned, spent>>

\* finish_attempt_acquire(false) fails when an earlier batch names the request.
DropStage(h) ==
    /\ At("refused")
    /\ IsNext(h)
    /\ IF BatchEvidence(h, acquires[h].target) = "none"
       THEN acquires' = [acquires EXCEPT ![h] = Null] /\ AfterReserving
       ELSE Poll /\ UNCHANGED acquires
    /\ UNCHANGED <<ledgerVars, request, releases, rotations, batches, assigned, spent>>

\* mutant: the batch names the token the candidate was read with
CandidateToken(h) == acquires[h].prev

ReservedToken(h) == request[h].token

RecordIntended ==
    /\ At("record")
    /\ batches' = Append(batches,
           [tokens |-> [h \in adapter.taken |-> ReservedToken(h)], state |-> "intended"])
    /\ adapter' = [adapter EXCEPT !.pc = "unstage", !.batch = Len(batches) + 1,
                                  !.todo = adapter.taken]
    /\ UNCHANGED <<ledgerVars, request, acquires, releases, rotations, assigned, spent>>

\* The last of the round's rows moves the pass on to its next loop.
NextOf(h, next) ==
    adapter' = IF adapter.todo = {h}
               THEN [adapter EXCEPT !.pc = next, !.todo = adapter.taken]
               ELSE [adapter EXCEPT !.todo = @ \ {h}]

\* finish_attempt_acquire_batch
UnstageAcquire(h) ==
    /\ At("unstage")
    /\ h \in adapter.todo
    /\ IF BatchEvidence(h, acquires[h].target) = "exact"
       THEN acquires' = [acquires EXCEPT ![h] = Null] /\ NextOf(h, "intend")
       ELSE Poll /\ UNCHANGED acquires
    /\ UNCHANGED <<ledgerVars, request, releases, rotations, batches, assigned, spent>>

SetIntent(h) ==
    /\ At("intend")
    /\ h \in adapter.todo
    /\ request' = [request EXCEPT ![h].state = "acquire_intent", ![h].gen = generation]
    /\ NextOf(h, "send")
    /\ UNCHANGED <<ledgerVars, acquires, releases, rotations, batches, assigned, spent>>

\* acquirejobs, at the service (external): some of the requests are assigned,
\* those that already were included, and the caller learns which, or nothing.
Call(answered, lost) ==
    \E S \in SUBSET adapter.taken :
        /\ adapter.taken \cap assigned \subseteq S
        /\ assigned' = assigned \cup S
        /\ \/ adapter' = [adapter EXCEPT !.pc = answered, !.answer = S, !.todo = {}]
           \/ adapter' = lost

\* mutant: a failed call is taken for an empty answer
SendForgets ==
    /\ At("send")
    /\ Call("answered", [adapter EXCEPT !.pc = "answered", !.answer = {}, !.todo = {}])
    /\ UNCHANGED <<ledgerVars, stores, spent>>

SendAcquire ==
    /\ At("send")
    /\ Call("answered", [adapter EXCEPT !.pc = "lost"])
    /\ UNCHANGED <<ledgerVars, stores, spent>>

\* A call that failed after its intent: every member is in doubt, then the batch
MarkUncertain(h) ==
    /\ At("lost")
    /\ h \in adapter.todo
    /\ request' = [request EXCEPT ![h].state = "uncertain", ![h].gen = generation]
    /\ adapter' = [adapter EXCEPT !.todo = @ \ {h}]
    /\ UNCHANGED <<ledgerVars, acquires, releases, rotations, batches, assigned, spent>>

ResolveUncertain ==
    /\ At("lost")
    /\ adapter.todo = {}
    /\ batches' = [batches EXCEPT ![adapter.batch].state = "uncertain"]
    /\ Poll
    /\ UNCHANGED <<ledgerVars, request, acquires, releases, rotations, assigned, spent>>

-----------------------------------------------------------------------------
(* The answer: what was acquired first, then what is missing *)

\* The permit of an acquired row is this process's, acquiring, in this epoch.
Moved(h) ==
    /\ permits[h].state = "acquiring"
    /\ permits[h].gen = generation
    /\ permits[h].pid = adapter.pid

AnswerApplied == \A h \in adapter.answer : request[h].state = "acquired" /\ Moved(h)

SetAcquired(h) ==
    /\ adapter # Null
    /\ adapter.pc \in {"answered", "reanswered"}
    /\ h \in adapter.answer
    /\ request[h].state # "acquired"
    /\ \A k \in adapter.answer : request[k].state = "acquired" => Moved(k)
    /\ request' = [request EXCEPT ![h].state = "acquired", ![h].gen = generation]
    /\ UNCHANGED <<ledgerVars, acquires, releases, rotations, batches, assigned,
                   adapter, spent>>

\* fenced_transition to acquiring
MovePermit(h) ==
    /\ adapter # Null
    /\ adapter.pc \in {"answered", "reanswered"}
    /\ h \in adapter.answer
    /\ request[h].state = "acquired"
    /\ ~Moved(h)
    /\ TransitionOwned(h, "acquiring", generation, request[h].token, adapter.pid)
    /\ UNCHANGED <<stores, assigned, adapter, spent>>

\* stage_attempt_releases_for_batch: every missing member in one commit
StageMissing ==
    /\ At("answered")
    /\ AnswerApplied
    /\ releases' = [h \in Holders |->
           IF h \in adapter.taken \ adapter.answer
           THEN [token |-> request[h].token, batch |-> adapter.batch]
           ELSE releases[h]]
    /\ Goto("missing")
    /\ UNCHANGED <<ledgerVars, request, acquires, rotations, batches, assigned, spent>>

FinishAcquirePass ==
    /\ At("missing")
    /\ NoReleases
    /\ batches' = [batches EXCEPT ![adapter.batch].state = "resolved"]
    /\ Poll
    /\ UNCHANGED <<ledgerVars, request, acquires, releases, rotations, assigned, spent>>

-----------------------------------------------------------------------------
(* idle_poll: settle open batches from what is known, ask again for one *)

InDoubt(b) == {h \in Members(b) : request[h].state = "uncertain"}

Agrees(b) ==
    InDoubt(b) = {} =>
        \A h \in Members(b) :
            /\ batches[b].tokens[h] = request[h].token
            /\ IF Held(h) THEN Owns(h, request[h].token) ELSE ~Active(h)

\* resolve_from_observations, one acquired member of a batch without doubt
ObserveAcquired(b, h) ==
    /\ At("polling")
    /\ Open(b)
    /\ InDoubt(b) = {}
    /\ Agrees(b)
    /\ h \in Members(b)
    /\ request[h].state = "acquired"
    /\ ~Moved(h)
    /\ TransitionOwned(h, "acquiring", generation, request[h].token, adapter.pid)
    /\ UNCHANGED <<stores, assigned, adapter, spent>>

ResolveObserved(b) ==
    /\ At("polling")
    /\ Open(b)
    /\ InDoubt(b) = {}
    /\ Agrees(b)
    /\ \A h \in Members(b) : request[h].state = "acquired" => Moved(h)
    /\ batches' = [batches EXCEPT ![b].state = "resolved"]
    /\ UNCHANGED <<ledgerVars, request, acquires, releases, rotations, assigned,
                   adapter, spent>>

\* reacquire_batch for the oldest open batch, once no other one disagrees;
\* a call that fails leaves everything as it is
Reacquire(b) ==
    /\ At("polling")
    /\ batches[b].state = "uncertain"
    /\ \A c \in DOMAIN batches : Open(c) => b <= c /\ Agrees(c)
    /\ InDoubt(b) # {}
    /\ \A h \in InDoubt(b) : batches[b].tokens[h] = request[h].token
    /\ adapter' = [Idle(adapter.pid, "resend") EXCEPT !.taken = InDoubt(b), !.batch = b]
    /\ UNCHANGED <<ledgerVars, stores, assigned, spent>>

SendAgain ==
    /\ At("resend")
    /\ Call("reanswered", Idle(adapter.pid, "polling"))
    /\ UNCHANGED <<ledgerVars, stores, spent>>

\* owned_release, its stage: one missing member at a time, outside any batch
StageMissingAgain(h) ==
    /\ At("reanswered")
    /\ AnswerApplied
    /\ NoReleases
    /\ h \in adapter.taken \ adapter.answer
    /\ request[h].state = "uncertain"
    /\ releases' = [releases EXCEPT ![h] = [token |-> request[h].token, batch |-> 0]]
    /\ UNCHANGED <<ledgerVars, request, acquires, rotations, batches, assigned,
                   adapter, spent>>

FinishReacquire ==
    /\ At("reanswered")
    /\ AnswerApplied
    /\ NoReleases
    /\ \A h \in adapter.taken \ adapter.answer : request[h].state = "eligible"
    /\ batches' = [batches EXCEPT ![adapter.batch].state = "resolved"]
    /\ Poll
    /\ UNCHANGED <<ledgerVars, request, acquires, releases, rotations, assigned, spent>>

-----------------------------------------------------------------------------

ScaleSetInit ==
    /\ LedgerInit
    /\ request = [h \in Holders |-> Null]
    /\ acquires = [h \in Holders |-> Null]
    /\ releases = [h \in Holders |-> Null]
    /\ rotations = [h \in Holders |-> Null]
    /\ batches = <<>>
    /\ assigned = {}
    /\ adapter = Null
    /\ spent = {}

StartupStep(h) ==
    \/ ReleasePermit(h) \/ FinishRelease(h)
    \/ RecoverAcquire(h)
    \/ StageRotation(h) \/ RotateAttempt(h)
    \/ OrphanMember(h) \/ ResetStaleGrant(h)

RequestStep(h) ==
    \/ SubmitOffer(h) \/ ObserveGlobalDemand(h) \/ GrantOldest(h)
    \/ StageAcquire(h) \/ Reserve(h) \/ ProjectToken(h) \/ DropStage(h)
    \/ UnstageAcquire(h) \/ SetIntent(h) \/ MarkUncertain(h)
    \/ SetAcquired(h) \/ MovePermit(h)
    \/ StageMissingAgain(h)

BatchStep(b) ==
    \/ OrphanBatch(b)
    \/ \E h \in Holders : ObserveAcquired(b, h)
    \/ ResolveObserved(b)
    \/ Reacquire(b)

PassStep ==
    \/ ConfigureLedger \/ OpenEpoch \/ AttestLedger \/ EnsureRecoveryClaim
    \/ ReleasesRecovered \/ AcquiresRecovered \/ FinishRotations \/ RecoveryFails
    \/ FinishStartup
    \/ BeginAcquirePass \/ RecordIntended \/ SendAcquire \/ ResolveUncertain
    \/ StageMissing \/ FinishAcquirePass
    \/ SendAgain \/ FinishReacquire

ScaleSetNext ==
    \/ \E p \in Pids : StartDaemon(p)
    \/ DaemonDies
    \/ PassStep
    \/ \E h \in Holders : StartupStep(h) \/ RequestStep(h)
    \/ \E b \in DOMAIN batches : BatchStep(b)

ScaleSetSpec == ScaleSetInit /\ [][ScaleSetNext]_scaleVars

-----------------------------------------------------------------------------
(* Properties *)

\* Type invariant of the lane's stores and of the daemon's place in its pass.
ScaleSetTypeOK ==
    /\ request \in [Holders -> RequestRow \cup {Null}]
    /\ acquires \in [Holders -> AcquireRow \cup {Null}]
    /\ releases \in [Holders -> ReleaseRow \cup {Null}]
    /\ rotations \in [Holders -> RotationRow \cup {Null}]
    /\ \A b \in DOMAIN batches :
          /\ batches[b].state \in BatchStates
          /\ Members(b) \subseteq Holders
          /\ \A h \in Members(b) : batches[b].tokens[h] \in Token
    /\ assigned \subseteq Holders
    /\ adapter # Null =>
          /\ adapter.pid \in alive
          /\ adapter.pc \in Phases
          /\ adapter.todo \cup adapter.taken \cup adapter.answer \subseteq Holders
          /\ adapter.batch \in 0..Len(batches)

\* A job the service assigned to this scale set keeps its permit, whatever
\* answers were lost and wherever the daemon died: the host never runs it
\* outside max_jobs (the batch, the doubt and the recovery exist for this).
AssignedKeepsPermit == \A h \in assigned : Held(h)

\* The lane's stores know of h's call: it is settled as acquired, or an open
\* batch, the only thing idle_poll asks the service about, names its attempt.
CallIsKnown(h) ==
    /\ request[h] # Null
    /\ \/ request[h].state = "acquired"
       \/ /\ request[h].state \in {"acquire_intent", "uncertain"}
          /\ \E b \in Naming(h) : Open(b) /\ batches[b].tokens[h] = request[h].token

\* The one state in which an assigned job can be taken for one never asked for:
\* an earlier startup marked h's batch uncertain and died before it marked h.
HalfOrphaned(h) ==
    /\ At("startup") /\ h \notin adapter.todo
    /\ request[h].state = "acquire_intent"
    /\ \E b \in Naming(h) : batches[b].state = "uncertain"

\* From the moment the service assigns a job the stores know of its call, and no
\* step forgets it, neither for a lost answer nor for another member's release
\* nor for a stale generation: but for reset_stale_grants on a half orphaned row,
\* which returns it to eligible (the comment before the scan of the open batches
\* says that this crash "cannot be mistaken for an unsent grant").
AssignedCallIsKept ==
    [][\A h \in assigned' :
          (h \in assigned => CallIsKnown(h)) => CallIsKnown(h)' \/ HalfOrphaned(h)]_scaleVars

\* Every permit of the lane is named, with its exact token, by the demand row
\* or by a stage: the two databases never come so far apart that recovery has
\* nothing to name the permit with, and it would leak.
PermitIsNamed ==
    \A h \in HeldSet :
        \/ request[h].token = permits[h].token
        \/ acquires[h] # Null /\ acquires[h].target = permits[h].token
        \/ rotations[h] # Null /\ rotations[h].new = permits[h].token

\* Whenever the daemon dies, the reconciliation of the next one accepts what it
\* finds.  The comment on PERMIT_STATES takes a granted row whose permit is yet
\* to be reserved for harmless to attest.
RestartAttests == AttestationAccepted

=============================================================================
