---------------------------- MODULE PermitLedger ----------------------------
(***************************************************************************)
(* The host-wide max_jobs permit ledger                                    *)
(* (crates/velnor-control/src/permit_ledger.rs): one SQLite database that  *)
(* every lane of every daemon on the host shares.  Each mutation is one    *)
(* IMMEDIATE transaction, so each is one action here; a call that returns  *)
(* an error, or returns before its commit, changes nothing and is a        *)
(* stuttering step.  The callers are left open: any live process may make  *)
(* any call at any time, with any token that was ever minted and any       *)
(* generation it ever read.  The lanes constrain that in the modules that  *)
(* extend this one.                                                        *)
(*                                                                         *)
(* Left out: scope labels and the acquired/updated stamps of permits,      *)
(* which no decision reads.                                                *)
(***************************************************************************)
EXTENDS Integers, FiniteSets

CONSTANTS
    Holders,        \* permit holders: one name per top-level job
    Pids,           \* host process ids (a dead id may be reused)
    Null,           \* SQL NULL and "no row"
    LanesOf,        \* lanes whose callers use each holder name
    Capacities,     \* values of N an operator may configure
    GrantStates,    \* states a lane asks for when it acquires or recovers
    LegacyHolders,  \* holders that may own a row written before tokens existed
    StaleAfter,     \* DEMAND_STALE_AFTER_SECS, in clock ticks
    MaxTime,        \* bound on the clock
    MaxGeneration,  \* bound on daemon epochs
    MaxToken        \* bound on minted UUIDs

Lanes == {"native", "scaleset"}

PermitStates == {"reserved", "acquiring", "provisioning", "assignable",
                 "running", "cleaning", "uncertain"}

DemandStates == {"eligible", "waiting", "granted", "terminal", "cancelled"}

ClosedStates == {"terminal", "cancelled"}

ASSUME HoldersAssumption ==
    /\ IsFiniteSet(Holders)
    /\ LegacyHolders \subseteq Holders
    /\ LanesOf \in [Holders -> SUBSET Lanes]

ASSUME NumbersAssumption ==
    /\ Capacities \subseteq Nat
    /\ StaleAfter \in Nat \ {0}
    /\ MaxTime \in Nat
    /\ MaxGeneration \in Nat
    /\ MaxToken \in Nat

ASSUME GrantStatesAssumption ==
    GrantStates \subseteq PermitStates \ {"cleaning", "uncertain"}

VARIABLES
    maxJobs,               \* permit_meta.max_jobs
    generation,            \* permit_meta.generation
    reconciledGeneration,  \* permit_meta.reconciled_generation
    permits,               \* permits, by holder
    demands,               \* permit_demands, by holder
    sequence,              \* MAX(sequence) of permit_demands: rows never go away
    recoveryClaim,         \* the one row of scaleset_recovery_claims
    cleanupReleases,       \* recorded_terminal_cleanup_releases
    migrations,            \* permit_token_migrations
    confirmed,             \* ReconcileReport.confirmed of this epoch
    now,                   \* unix_now()
    alive,                 \* pids that answer the liveness probe
    minted                 \* UUIDs minted so far are 1..minted

meta == <<maxJobs, generation, reconciledGeneration>>
aux == <<recoveryClaim, cleanupReleases, migrations, confirmed>>
env == <<now, alive, minted>>
ledgerVars == <<meta, permits, demands, sequence, aux, env>>

-----------------------------------------------------------------------------
(* Rows *)

Token == Nat \ {0}

\* recovery_claim_token, recovery_previous_pid, recovery_previous_token
Rotation == [claim : Token, pid : Pids, token : Token \cup {Null}]

PermitRow ==
    [lane : Lanes, state : PermitStates, gen : Nat, pid : Pids \cup {Null},
     token : Token, rotation : Rotation \cup {Null}]

DemandRow ==
    [lane : Lanes, first : Nat, seq : Nat, state : DemandStates, updated : Nat]

RecoveryClaim == [token : Token, pid : Pids]

\* NULL is not a value of any column.
ASSUME NullAssumption ==
    /\ Null \notin Pids
    /\ Null \notin Nat
    /\ Null \notin Rotation
    /\ Null \notin PermitRow
    /\ Null \notin DemandRow
    /\ Null \notin RecoveryClaim

Held(h) == permits[h] # Null

Known(h) == demands[h] # Null

HeldSet == {h \in Holders : Held(h)}

\* mutant: rows left over from an earlier epoch are not counted
OccupiedThisEpoch ==
    Cardinality({h \in Holders : Held(h) /\ permits[h].gen = generation})

Occupied == Cardinality(HeldSet)

Closed(h) == Known(h) /\ demands[h].state \in ClosedStates

\* read_owned_attempt_state: the row exists and still carries this token
Owns(h, t) == Held(h) /\ permits[h].token = t

\* check_demand_lane
DemandLaneAgrees(h, lane) == Known(h) => demands[h].lane = lane

\* idx_permits_attempt_token
TokenIsUnique(t) == \A h \in Holders : Held(h) => permits[h].token # t

\* ensure_demand_tx: the recorded row, or the one it inserts
EnsuredDemand(h, lane, first, updated, initial) ==
    IF Known(h)
    THEN demands[h]
    ELSE [lane |-> lane, first |-> first, seq |-> sequence + 1,
          state |-> initial, updated |-> updated]

SequenceAfter(h) == IF Known(h) THEN sequence ELSE sequence + 1

\* A held permit's demand is created granted, and promoted when eligible.
GrantedDemand(h, lane) ==
    LET d == EnsuredDemand(h, lane, now, now, "granted")
    IN  IF d.state = "eligible"
        THEN [d EXCEPT !.state = "granted", !.updated = now]
        ELSE d

\* mutant: the permit's state is written to the demand's column as well
UncertainIfOpen(d) ==
    IF d.state \in {"eligible", "granted"}
    THEN [d EXCEPT !.state = "uncertain", !.updated = now]
    ELSE d

\* Close an open demand; leave a closed one as it is.
TerminalIfOpen(d) ==
    IF d.state \in {"eligible", "granted"}
    THEN [d EXCEPT !.state = "terminal", !.updated = now]
    ELSE d

-----------------------------------------------------------------------------
(* Configuration and epochs *)

SetMaxJobs(n) ==
    /\ maxJobs' = n
    /\ UNCHANGED <<generation, reconciledGeneration, permits, demands, sequence, aux, env>>

SetMaxJobsIfUnset(n) ==
    /\ maxJobs = Null
    /\ SetMaxJobs(n)

BeginEpoch ==
    /\ generation < MaxGeneration
    /\ generation' = generation + 1
    /\ confirmed' = {}
    /\ UNCHANGED <<maxJobs, reconciledGeneration, permits, demands, sequence,
                   recoveryClaim, cleanupReleases, migrations, env>>

Reconciled == generation = reconciledGeneration

\* advertised_free: NULL until this epoch reconciled, never "infinite"
AdvertisedFree ==
    IF ~Reconciled \/ maxJobs = Null THEN Null
    ELSE IF Occupied >= maxJobs THEN 0 ELSE maxJobs - Occupied

-----------------------------------------------------------------------------
(* The demand queue *)

\* mutant: a redelivery re-queues every open demand, a granted one too
RequeuedByOffer(state) == "eligible"

\* An open demand after its offer is delivered again
RevivedByOffer(state) == IF state = "waiting" THEN "eligible" ELSE state

\* The caller stamps the observation with its own reading of the clock.
ObserveDemand(h, lane, first, observed) ==
    /\ Held(h) => permits[h].lane = lane
    /\ DemandLaneAgrees(h, lane)
    /\ LET d == EnsuredDemand(h, lane, first, observed,
                              IF Held(h) THEN "granted" ELSE "eligible")
       IN  demands' = [demands EXCEPT ![h] =
               IF d.state \in ClosedStates
               THEN d
               ELSE [d EXCEPT !.state = RevivedByOffer(d.state), !.updated = observed]]
    /\ sequence' = SequenceAfter(h)
    /\ UNCHANGED <<meta, permits, aux, env>>

ParkDemand(h) ==
    /\ Known(h)
    /\ demands[h].state = "eligible"
    /\ demands' = [demands EXCEPT ![h].state = "waiting", ![h].updated = now]
    /\ UNCHANGED <<meta, permits, sequence, aux, env>>

CancelDemand(h) ==
    /\ Known(h)
    /\ demands[h].state \in {"eligible", "waiting"}
    /\ ~Held(h)
    /\ demands' = [demands EXCEPT ![h].state = "cancelled", ![h].updated = now]
    /\ UNCHANGED <<meta, permits, sequence, aux, env>>

-----------------------------------------------------------------------------
(* Acquisition *)

\* Past the generation fence, the duplicate check and the closed check.
MayAttempt(h, lane, g) ==
    /\ g = generation
    /\ ~Held(h)
    /\ maxJobs # Null
    /\ DemandLaneAgrees(h, lane)
    /\ ~Closed(h)

\* mutant: a demand that re-joins the queue joins it at the back
RequeuedAtBack(h, lane) ==
    [demands EXCEPT ![h] =
        [EnsuredDemand(h, lane, now, now, "eligible")
            EXCEPT !.state = "eligible", !.updated = now, !.first = now]]

\* A granted row without its permit, a parked row and an eligible row all
\* (re)join the queue, refreshed, at their original age.
Requeued(h, lane) ==
    [demands EXCEPT ![h] =
        [EnsuredDemand(h, lane, now, now, "eligible")
            EXCEPT !.state = "eligible", !.updated = now]]

Fresh(d) == d.updated + StaleAfter > now

Older(d, e) == d.first < e.first \/ (d.first = e.first /\ d.seq < e.seq)

\* mutant: each lane has a queue of its own
HeadOfLane(h, D) ==
    \A k \in Holders \ {h} :
        (D[k] # Null /\ D[k].state = "eligible" /\ Fresh(D[k]) /\ D[k].lane = D[h].lane)
            => Older(D[h], D[k])

\* mutant: the order of rows first seen in the same second is left open
HeadOfSecond(h, D) ==
    \A k \in Holders \ {h} :
        (D[k] # Null /\ D[k].state = "eligible" /\ Fresh(D[k])) => D[h].first <= D[k].first

\* h heads the fresh eligible rows of the queue D
HeadOf(h, D) ==
    \A k \in Holders \ {h} :
        (D[k] # Null /\ D[k].state = "eligible" /\ Fresh(D[k])) => Older(D[h], D[k])

AcquireFull(h, lane, g) ==
    /\ MayAttempt(h, lane, g)
    /\ Occupied >= maxJobs
    /\ demands' = Requeued(h, lane)
    /\ sequence' = SequenceAfter(h)
    /\ UNCHANGED <<meta, permits, aux, env>>

AcquireDeferred(h, lane, g) ==
    /\ MayAttempt(h, lane, g)
    /\ Occupied < maxJobs
    /\ ~HeadOf(h, Requeued(h, lane))
    /\ demands' = Requeued(h, lane)
    /\ sequence' = SequenceAfter(h)
    /\ UNCHANGED <<meta, permits, aux, env>>

\* The granting outcome; minted is constrained by the two callers below.
Grant(h, lane, s, g, p, t) ==
    /\ MayAttempt(h, lane, g)
    /\ Occupied < maxJobs
    /\ HeadOf(h, Requeued(h, lane))
    /\ TokenIsUnique(t)
    /\ permits' = [permits EXCEPT ![h] =
           [lane |-> lane, state |-> s, gen |-> g, pid |-> p, token |-> t,
            rotation |-> Null]]
    /\ demands' = [Requeued(h, lane) EXCEPT ![h].state = "granted"]
    /\ sequence' = SequenceAfter(h)
    /\ UNCHANGED <<meta, aux, now, alive>>

\* acquire_attempt: the transaction mints the token itself
AcquireAttempt(h, lane, s, g, p) ==
    /\ minted < MaxToken
    /\ minted' = minted + 1
    /\ Grant(h, lane, s, g, p, minted + 1)

\* acquire_scaleset_attempt_with_token: the token was staged beforehand
AcquireStagedAttempt(h, s, g, p, t) ==
    /\ Grant(h, "scaleset", s, g, p, t)
    /\ UNCHANGED minted

MintToken ==
    /\ minted < MaxToken
    /\ minted' = minted + 1
    /\ UNCHANGED <<meta, permits, demands, sequence, aux, now, alive>>

-----------------------------------------------------------------------------
(* Adoption and recovery *)

\* A native row this process retained as uncertain when its guard dropped.
RetainedBySameProcess(h, lane, p) ==
    /\ lane = "native"
    /\ permits[h].pid = p
    /\ permits[h].state = "uncertain"
    /\ Known(h)
    /\ demands[h].state = "terminal"

\* mutant: any retained row is adopted, whoever owns it
AdoptableWhenRetained(h, lane, p) ==
    /\ Held(h)
    /\ permits[h].lane = lane
    /\ permits[h].pid # Null
    /\ permits[h].pid \in alive => permits[h].state = "uncertain"

Adoptable(h, lane, p) ==
    /\ Held(h)
    /\ permits[h].lane = lane
    /\ permits[h].pid # Null
    /\ permits[h].pid \in alive => RetainedBySameProcess(h, lane, p)

AdoptForRedelivery(h, lane, s, g, p) ==
    /\ g = generation
    /\ Adoptable(h, lane, p)
    /\ DemandLaneAgrees(h, lane)
    /\ minted < MaxToken
    /\ minted' = minted + 1
    /\ permits' = [permits EXCEPT ![h] =
           [@ EXCEPT !.state = s, !.gen = g, !.pid = p, !.token = minted + 1,
                     !.rotation = Null]]
    /\ demands' = [demands EXCEPT ![h] = GrantedDemand(h, lane)]
    /\ sequence' = SequenceAfter(h)
    /\ UNCHANGED <<meta, aux, now, alive>>

ClaimScaleSetRecovery(p) ==
    /\ \/ /\ recoveryClaim = Null
          /\ minted < MaxToken
          /\ minted' = minted + 1
          /\ recoveryClaim' = [token |-> minted + 1, pid |-> p]
       \/ /\ recoveryClaim # Null
          /\ recoveryClaim.pid \notin alive
          /\ recoveryClaim' = [recoveryClaim EXCEPT !.pid = p]
          /\ UNCHANGED minted
    /\ UNCHANGED <<meta, permits, demands, sequence, cleanupReleases, migrations,
                   confirmed, now, alive>>

ReleaseRecoveryClaim(p, c) ==
    /\ recoveryClaim = [token |-> c, pid |-> p]
    /\ recoveryClaim' = Null
    /\ UNCHANGED <<meta, permits, demands, sequence, cleanupReleases, migrations,
                   confirmed, env>>

\* mutant: a migrated holder is matched whatever token its row carries by now
PreviousTokenWasMigrated(h, prev) ==
    IF prev = Null
    THEN \E t \in 1..minted : <<h, t>> \in migrations
    ELSE permits[h].token = prev

\* The caller's idea of the prior token: exact, or "migrated by this ledger".
PreviousTokenMatches(h, prev) ==
    IF prev = Null
    THEN <<h, permits[h].token>> \in migrations
    ELSE permits[h].token = prev

\* A replay of a rotation that already committed (AlreadyRotated) is a no-op.
RotateScaleSetAttempt(h, s, g, prevPid, prev, target, claim, p) ==
    /\ recoveryClaim = [token |-> claim, pid |-> p]
    /\ Held(h)
    /\ permits[h].lane = "scaleset"
    /\ permits[h].token # target
    /\ prev # target
    /\ g = generation
    /\ permits[h].pid = prevPid
    /\ PreviousTokenMatches(h, prev)
    /\ DemandLaneAgrees(h, "scaleset")
    /\ TokenIsUnique(target)
    /\ permits' = [permits EXCEPT ![h] =
           [@ EXCEPT !.state = s, !.gen = g, !.pid = p, !.token = target,
                     !.rotation = [claim |-> claim, pid |-> prevPid, token |-> prev]]]
    /\ demands' = [demands EXCEPT ![h] = GrantedDemand(h, "scaleset")]
    /\ sequence' = SequenceAfter(h)
    /\ UNCHANGED <<meta, aux, env>>

\* mutant: every closed absent permit is marked, a terminal one too
RecordedReleaseWhenClosed(h, lane) ==
    ~Held(h) /\ Closed(h) /\ lane = "native"

\* The claim of an absent, cancelled attempt authorises one later release.
RecordedRelease(h, lane) ==
    ~Held(h) /\ Closed(h) /\ lane = "native" /\ demands[h].state = "cancelled"

\* claim_recorded_terminal_cleanup, the three outcomes that change state
ClaimRecordedTerminalCleanup(h, lane, t, p) ==
    /\ DemandLaneAgrees(h, lane)
    /\ \/ /\ Owns(h, t)
          /\ permits[h].lane = lane
          /\ permits' = [permits EXCEPT ![h] =
                 [@ EXCEPT !.state = "cleaning", !.gen = generation, !.pid = p]]
          /\ UNCHANGED <<demands, sequence, cleanupReleases>>
       \/ /\ RecordedRelease(h, lane)
          /\ cleanupReleases' = cleanupReleases \cup {<<h, t>>}
          /\ UNCHANGED <<permits, demands, sequence>>
       \/ /\ ~Held(h)
          /\ ~Closed(h)
          /\ demands' = [demands EXCEPT ![h] =
                 [EnsuredDemand(h, lane, now, now, "terminal")
                     EXCEPT !.state = "terminal", !.updated = now]]
          /\ sequence' = SequenceAfter(h)
          /\ UNCHANGED <<permits, cleanupReleases>>
    /\ UNCHANGED <<meta, recoveryClaim, migrations, confirmed, env>>

-----------------------------------------------------------------------------
(* Transitions of an owned permit *)

\* mutant: the generation is checked by the caller, not in the transaction
TransitionUnfenced(h, s, g, t, p) ==
    /\ Owns(h, t)
    /\ permits[h].state # "cleaning"
    /\ permits' = [permits EXCEPT ![h] =
           [@ EXCEPT !.state = s, !.gen = g, !.pid = p]]
    /\ UNCHANGED <<meta, demands, sequence, aux, env>>

\* A cleanup claim is final for its attempt: from cleaning this is a no-op.
TransitionOwned(h, s, g, t, p) ==
    /\ g = generation
    /\ Owns(h, t)
    /\ permits[h].state # "cleaning"
    /\ permits' = [permits EXCEPT ![h] =
           [@ EXCEPT !.state = s, !.gen = g, !.pid = p]]
    /\ UNCHANGED <<meta, demands, sequence, aux, env>>

RetainUncertain(h, g, t) ==
    /\ g = generation
    /\ Owns(h, t)
    /\ permits[h].state # "cleaning"
    /\ permits' = [permits EXCEPT ![h] = [@ EXCEPT !.state = "uncertain", !.gen = g]]
    /\ demands' = [demands EXCEPT ![h] = IF Known(h) THEN TerminalIfOpen(@) ELSE @]
    /\ UNCHANGED <<meta, sequence, aux, env>>

RetainRecordedFailure(h, g, t) ==
    /\ g = generation
    /\ Owns(h, t)
    /\ permits' = [permits EXCEPT ![h] = [@ EXCEPT !.state = "uncertain", !.gen = g]]
    /\ demands' = [demands EXCEPT ![h] = IF Known(h) THEN TerminalIfOpen(@) ELSE @]
    /\ UNCHANGED <<meta, sequence, aux, env>>

RetainUncertainAfterCleanup(h, t, p) ==
    /\ Owns(h, t)
    /\ permits[h].lane = "native"
    /\ DemandLaneAgrees(h, "native")
    /\ permits' = [permits EXCEPT ![h] =
           [@ EXCEPT !.state = "uncertain", !.gen = generation, !.pid = p]]
    /\ LET d == EnsuredDemand(h, "native", now, now, "granted")
       IN  demands' = [demands EXCEPT ![h] =
               IF d.state = "cancelled"
               THEN d
               ELSE [d EXCEPT !.state = "terminal", !.updated = now]]
    /\ sequence' = SequenceAfter(h)
    /\ UNCHANGED <<meta, aux, env>>

-----------------------------------------------------------------------------
(* Releases: the only operations that remove a permit row *)

\* mutant: a release to the queue re-opens whatever it finds
Reopens(d) == TRUE

\* What a release to the queue may re-open
MayReopen(d) == d.state \in {"eligible", "granted"}

\* release_with_demand_state, behind release_owned, release_to_eligible_owned
\* and release_cancelled_owned.  Work already closed is never revived.
ReleaseOwned(h, t, target) ==
    /\ Owns(h, t)
    /\ permits' = [permits EXCEPT ![h] = Null]
    /\ demands' = [demands EXCEPT ![h] =
           IF Known(h) /\ (target = "eligible" => MayReopen(@))
           THEN [@ EXCEPT !.state = target, !.updated = now]
           ELSE @]
    /\ UNCHANGED <<meta, sequence, aux, env>>

\* release_native_owned_with_terminal_demand.  Every outcome consumes the
\* recorded cleanup marker of this exact token.
ReleaseNativeOwned(h, t, target) ==
    /\ Held(h) => permits[h].lane = "native"
    /\ DemandLaneAgrees(h, "native")
    /\ \/ /\ Owns(h, t)
          /\ permits' = [permits EXCEPT ![h] = Null]
          /\ demands' = [demands EXCEPT ![h] =
                 [EnsuredDemand(h, "native", now, now, target)
                     EXCEPT !.state = target, !.updated = now]]
          /\ sequence' = SequenceAfter(h)
       \/ /\ ~Owns(h, t)
          /\ <<h, t>> \in cleanupReleases
          /\ UNCHANGED <<permits, demands, sequence>>
    /\ cleanupReleases' = cleanupReleases \ {<<h, t>>}
    /\ UNCHANGED <<meta, recoveryClaim, migrations, confirmed, env>>

\* What release_native_owned_with_terminal_demand reports to its caller.
NativeReleaseOutcome(h, t, target) ==
    CASE Owns(h, t) -> "released"
      [] ~Held(h) /\ Known(h) /\ demands[h].state = target -> "already_absent"
      [] /\ ~Held(h) /\ Known(h) /\ target = "terminal"
         /\ demands[h].state = "cancelled"
         /\ <<h, t>> \in cleanupReleases -> "already_absent"
      [] OTHER -> "stale_attempt"

\* release_scaleset_staged_owned
ReleaseScaleSetStaged(h, t, target) ==
    /\ Owns(h, t)
    /\ permits[h].lane = "scaleset"
    /\ Known(h)
    /\ DemandLaneAgrees(h, "scaleset")
    /\ target = "eligible" => MayReopen(demands[h])
    /\ permits' = [permits EXCEPT ![h] = Null]
    /\ demands' = [demands EXCEPT ![h].state = target, ![h].updated = now]
    /\ UNCHANGED <<meta, sequence, aux, env>>

-----------------------------------------------------------------------------
(* Reconciliation *)

\* How a caller may name a holder: attested live work, or one of the three
\* kinds of durable Scale Set stage.
ObservationKinds == {"alive", "rotation", "release", "acquisition"}

\* An observation the transaction accepts: one that names the exact token of
\* an existing row, or a stage whose absent row is explained.  An observation
\* with any other token fails the whole transaction.
Accepts(h, kind) ==
    CASE kind = "alive" -> Held(h) /\ DemandLaneAgrees(h, permits[h].lane)
      [] kind = "rotation" ->
           Held(h) /\ permits[h].lane = "scaleset" /\ DemandLaneAgrees(h, "scaleset")
      [] kind = "release" ->
           IF Held(h) THEN permits[h].lane = "scaleset"
           ELSE /\ Known(h)
                /\ demands[h].lane = "scaleset"
                /\ demands[h].state \in {"eligible", "cancelled", "terminal"}
      [] kind = "acquisition" -> Held(h) => permits[h].lane = "scaleset"

\* mutant: a row whose process still answers is not in doubt
LostToTheDead(observed) ==
    {h \in HeldSet \ observed : permits[h].state # "cleaning" /\ permits[h].pid \notin alive}

\* Rows nobody observed, but for those a cleanup claim protects
Lost(observed) == {h \in HeldSet \ observed : permits[h].state # "cleaning"}

\* seen maps the observed holders to the kind of their observation.  Lost rows
\* and rows attested alive or rotating get the demand a held permit has.
Repaired(seen) ==
    Lost(DOMAIN seen) \cup {h \in DOMAIN seen : seen[h] \in {"alive", "rotation"}}

Undemanded(seen) == {h \in Repaired(seen) : ~Known(h)}

\* The sequence numbers of the inserted rows follow the ones in the table.
InsertOrders(seen) ==
    LET fresh == Undemanded(seen)
    IN  {order \in [fresh -> (sequence + 1)..(sequence + Cardinality(fresh))] :
            \A h, k \in fresh : order[h] = order[k] => h = k}

RepairedDemand(order, h) ==
    IF Known(h)
    THEN GrantedDemand(h, permits[h].lane)
    ELSE [lane |-> permits[h].lane, first |-> now, seq |-> order[h],
          state |-> "granted", updated |-> now]

\* Lost rows become uncertain; no row is created or removed.
Reconcile(seen) ==
    /\ \A h \in DOMAIN seen : Accepts(h, seen[h])
    /\ \A h \in Lost(DOMAIN seen) : DemandLaneAgrees(h, permits[h].lane)
    /\ \E order \in InsertOrders(seen) :
          demands' = [h \in Holders |->
              IF h \in Repaired(seen) THEN RepairedDemand(order, h) ELSE demands[h]]
    /\ sequence' = sequence + Cardinality(Undemanded(seen))
    /\ permits' = [h \in Holders |->
           IF h \in Lost(DOMAIN seen)
           THEN [permits[h] EXCEPT !.state = "uncertain", !.gen = generation]
           ELSE permits[h]]
    /\ reconciledGeneration' = generation
    /\ confirmed' = {<<h, permits[h].token>> : h \in DOMAIN seen \cap HeldSet}
    /\ UNCHANGED <<maxJobs, generation, recoveryClaim, cleanupReleases, migrations, env>>

-----------------------------------------------------------------------------
(* The environment: clock, processes *)

Tick ==
    /\ now < MaxTime
    /\ now' = now + 1
    /\ UNCHANGED <<meta, permits, demands, sequence, aux, alive, minted>>

StartProcess(p) ==
    /\ p \notin alive
    /\ alive' = alive \cup {p}
    /\ UNCHANGED <<meta, permits, demands, sequence, aux, now, minted>>

CrashProcess(p) ==
    /\ p \in alive
    /\ alive' = alive \ {p}
    /\ UNCHANGED <<meta, permits, demands, sequence, aux, now, minted>>

-----------------------------------------------------------------------------
(* open: an empty ledger, or one that a pre-token release filled and that   *)
(* ensure_permit_attempt_token_column has just given tokens to.             *)

LegacyRows ==
    [lane : Lanes, state : GrantStates \cup {"cleaning", "uncertain"}, gen : {0},
     pid : Pids \cup {Null}, token : 1..Cardinality(LegacyHolders), rotation : {Null}]

LedgerInit ==
    /\ maxJobs = Null
    /\ generation = 0
    /\ reconciledGeneration = -1
    /\ permits \in [Holders -> LegacyRows \cup {Null}]
    /\ HeldSet \subseteq LegacyHolders
    /\ \A h \in HeldSet : permits[h].lane \in LanesOf[h]
    /\ \A h, k \in HeldSet : permits[h].token = permits[k].token => h = k
    /\ migrations = {<<h, permits[h].token>> : h \in HeldSet}
    /\ minted = Cardinality(LegacyHolders)
    /\ demands = [h \in Holders |-> Null]
    /\ sequence = 0
    /\ recoveryClaim = Null
    /\ cleanupReleases = {}
    /\ confirmed = {}
    /\ now = 1
    /\ alive = {}

-----------------------------------------------------------------------------
(* Every call any live process can make *)

\* A call on one holder's demand
DemandCall(h) ==
    \/ \E lane \in LanesOf[h], first \in 1..now : ObserveDemand(h, lane, first, now)
    \/ ParkDemand(h)
    \/ CancelDemand(h)

\* A call by p that acquires or takes over h's permit.  A rotation passes on the
\* state it finds, whatever that is.
OwnershipCall(h, p) ==
    \E g \in 0..generation, s \in GrantStates :
        \/ \E lane \in LanesOf[h] :
              \/ AcquireFull(h, lane, g)
              \/ AcquireDeferred(h, lane, g)
              \/ AcquireAttempt(h, lane, s, g, p)
              \/ AdoptForRedelivery(h, lane, s, g, p)
        \/ /\ "scaleset" \in LanesOf[h]
           /\ \E t \in 1..minted : AcquireStagedAttempt(h, s, g, p, t)
        \/ \E r \in GrantStates \cup {"cleaning", "uncertain"}, prevPid \in Pids,
              prev \in 1..minted \cup {Null}, target, claim \in 1..minted :
              RotateScaleSetAttempt(h, r, g, prevPid, prev, target, claim, p)

\* A call by p that carries attempt token t
OwnedCall(h, t, p) ==
    \/ \E g \in 0..generation :
          \/ \E s \in GrantStates \cup {"cleaning"} : TransitionOwned(h, s, g, t, p)
          \/ RetainUncertain(h, g, t)
          \/ RetainRecordedFailure(h, g, t)
    \/ RetainUncertainAfterCleanup(h, t, p)
    \/ \E target \in {"eligible", "cancelled", "terminal"} :
          \/ ReleaseOwned(h, t, target)
          \/ ReleaseScaleSetStaged(h, t, target)
    \/ \E target \in ClosedStates : ReleaseNativeOwned(h, t, target)
    \/ \E lane \in LanesOf[h] : ClaimRecordedTerminalCleanup(h, lane, t, p)

\* What only a Scale Set lane does outside any one job
ScaleSetCall(p) ==
    \/ MintToken
    \/ ClaimScaleSetRecovery(p)
    \/ \E c \in 1..minted : ReleaseRecoveryClaim(p, c)

\* A call by p on the whole ledger
LedgerCall(p) ==
    \/ \E n \in Capacities : SetMaxJobs(n) \/ SetMaxJobsIfUnset(n)
    \/ BeginEpoch
    \/ (\E h \in Holders : "scaleset" \in LanesOf[h]) /\ ScaleSetCall(p)
    \/ \E observed \in SUBSET Holders :
          \E seen \in [observed -> ObservationKinds] : Reconcile(seen)

LedgerNext ==
    \/ Tick
    \/ \E p \in Pids : StartProcess(p) \/ CrashProcess(p)
    \/ \E p \in alive :
          \/ LedgerCall(p)
          \/ \E h \in Holders :
                \/ DemandCall(h)
                \/ OwnershipCall(h, p)
                \/ \E t \in 1..minted : OwnedCall(h, t, p)

LedgerSpec == LedgerInit /\ [][LedgerNext]_ledgerVars

-----------------------------------------------------------------------------
(* Properties *)

\* Type invariant: every column holds a value of its domain, every row one of
\* its table's.
TypeOK ==
    /\ maxJobs \in Capacities \cup {Null}
    /\ generation \in Nat
    /\ reconciledGeneration \in Nat \cup {-1}
    /\ permits \in [Holders -> PermitRow \cup {Null}]
    /\ demands \in [Holders -> DemandRow \cup {Null}]
    /\ sequence \in Nat
    /\ recoveryClaim \in RecoveryClaim \cup {Null}
    /\ cleanupReleases \in SUBSET (Holders \X Token)
    /\ migrations \in SUBSET (Holders \X Token)
    /\ confirmed \in SUBSET (Holders \X Token)
    /\ now \in Nat
    /\ alive \in SUBSET Pids
    /\ minted \in Nat

\* A permit in use is never also offered: the demand of a held permit is
\* granted, or terminal when the attempt's outcome is in doubt, and belongs to
\* the same lane.  Were it eligible or waiting, the queue would count one job
\* twice; were it cancelled, a release would be refused as stale.
HeldIsCommitted ==
    \A h \in HeldSet :
        Known(h) => /\ demands[h].state \in {"granted", "terminal"}
                    /\ demands[h].lane = permits[h].lane

\* Two permit rows never carry the same attempt token and no token is from the
\* future: what the UNIQUE index and the minting of tokens give to the rest.
TokensFenceAttempts ==
    /\ \A h \in HeldSet : permits[h].token <= minted
    /\ \A h, k \in HeldSet : permits[h].token = permits[k].token => h = k

\* After this epoch's reconciliation every permit is accounted for: it was
\* written or put in doubt in this epoch, it is under a cleanup claim, or the
\* reconciliation named its exact attempt as live.  AdvertisedFree relies on it.
ReconciledAccounts ==
    Reconciled =>
        \A h \in HeldSet :
            \/ permits[h].gen = generation
            \/ permits[h].state = "cleaning"
            \/ <<h, permits[h].token>> \in confirmed

\* A recorded cleanup release stands only for a cancelled job without permit:
\* it can never make the release of a newer attempt look already done.
CleanupMarkersAreSpent ==
    \A h \in Holders, t \in 1..minted :
        <<h, t>> \in cleanupReleases => ~Held(h) /\ Known(h) /\ demands[h].state = "cancelled"

\* A step that admits a job takes a free permit, admits that job only, and
\* overtakes no fresh offer first seen earlier (or in the same second, before it).
AdmitsTheOldest ==
    [][\A h \in Holders :
          (~Held(h) /\ Held(h)') =>
              /\ Occupied < maxJobs
              /\ Occupied' = Occupied + 1
              /\ \A k \in Holders \ {h} :
                    (Known(k) /\ demands[k].state = "eligible" /\ Fresh(demands[k]))
                        => Older(demands'[h], demands[k])]_ledgerVars

\* A caller that has not seen the latest epoch cannot write a permit row: any
\* row a step creates or changes is stamped with the ledger's own generation.
EpochFencesWriters ==
    [][\A h \in Holders :
          (Held(h)' /\ permits'[h] # permits[h]) => permits'[h].gen = generation]_ledgerVars

\* A native row whose process is alive passes to a new attempt only if that
\* very process had given it up (uncertain, with its demand closed) and is the
\* one that takes it: two attempts of one job never both believe they own it.
LiveNativeOwnerKeepsRow ==
    [][\A h \in Holders :
          (/\ Held(h) /\ permits[h].lane = "native" /\ permits[h].pid \in alive
           /\ Held(h)' /\ permits'[h].token # permits[h].token)
              => /\ permits[h].state = "uncertain"
                 /\ demands[h].state = "terminal"
                 /\ permits'[h].pid = permits[h].pid]_ledgerVars

\* h's row says which rotation gave it its token, exactly: under the present
\* recovery claim, from the pid and the token before it (Null: one that the
\* migration wrote), and that rotation would not find what it asks for again.
RotationIsRecorded(h) ==
    LET r == permits'[h].rotation
    IN  /\ recoveryClaim # Null
        /\ permits'[h].pid = recoveryClaim.pid
        /\ r.claim = recoveryClaim.token /\ r.pid = permits[h].pid
        /\ r.token \in {permits[h].token, Null}
        /\ r.token = Null => <<h, permits[h].token>> \in migrations
        /\ r.token = Null => <<h, permits'[h].token>> \notin migrations

\* A Scale Set permit passes to a new attempt when its process is dead, or to the
\* process that has the recovery claim, by a rotation that the row records and
\* keeps for as long as it carries that token: a replay after a crash, also under
\* a claim that changed hands, can tell that it is done and rotates nothing twice.
\* The token of the earlier attempt is then on no row and no call with it acts.
HandoverIsRecorded ==
    [][\A h \in Holders :
          (Held(h) /\ Held(h)' /\ permits[h].lane = "scaleset") =>
              \/ /\ permits'[h].token = permits[h].token
                 /\ permits'[h].rotation = permits[h].rotation
              \/ /\ \/ permits[h].pid \notin alive /\ permits'[h].rotation = Null
                    \/ RotationIsRecorded(h)
                 /\ \A k \in Holders : Held(k)' => permits'[k].token # permits[h].token
       ]_ledgerVars

\* A job keeps its place: its lane, first-seen time and sequence number survive
\* every park, redelivery, grant and release, and its row is never dropped.
TicketsAreKept ==
    [][\A h \in Holders :
          Known(h) => /\ Known(h)'
                      /\ demands'[h].lane = demands[h].lane
                      /\ demands'[h].first = demands[h].first
                      /\ demands'[h].seq = demands[h].seq]_ledgerVars

\* The ledger implements the abstract pool: only a free permit is given, never
\* to a closed job, and a closed job is never opened again.
PhaseOf(h) ==
    IF ~Known(h) THEN "unknown" ELSE IF Closed(h) THEN "closed" ELSE "open"

Pool == INSTANCE PermitPool WITH
    capacity <- maxJobs, holding <- HeldSet, phase <- [h \in Holders |-> PhaseOf(h)]

ImplementsPool == Pool!PoolSpec

=============================================================================
