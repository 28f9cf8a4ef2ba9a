# Velnor: specifications, model checks and proofs

Velnor runs GitHub Actions jobs on one host. A daemon registers runner slots with
GitHub, each slot is an operating-system process that executes one job at a time
in containers, and a host-wide *permit ledger* decides how many jobs the host may
run at once (`max_jobs = N`), whichever daemon and whichever lane they come from.
The hard part is not running a job but knowing, after any crash, lost answer,
redelivery or restart, which jobs are still there and what became of them. This
project models that part.

## Inventory

| Part | State it keeps | Operations | Talks to |
|---|---|---|---|
| Permit ledger (`velnor-control/src/permit_ledger.rs`) | SQLite: `permits`, `permit_demands`, `permit_meta`, recovery claim, recorded cleanup releases, token migrations | observe / park / cancel a demand, acquire, adopt, transition, retain, release, recorded cleanup, epoch, reconcile, rotate | every lane of every daemon, concurrently |
| Native permit guard (`velnor-runner/src/permit_guard.rs`) | holder, attempt token, drop policy | acquire loop, best-effort transitions, drop, teardown release | ledger |
| Native job handlers (`velnor-runner/src/runner.rs`) | in-flight marker, teardown thread | admission, acquire request, run, complete, teardown | guard, run service, Docker |
| Daemon pass (`runner.rs`) | daemon process | adopt `N`, begin epoch, read markers, reconcile, retry | ledger, markers, controller |
| Controller recovery (`node/controller.rs`) | children, journal | spawn slots, prove a slot dead, tear down, complete, release, clear marker | ledger, markers, Docker, run service |
| Scale Set lane (`velnor-runner/src/scaleset/`) | demand rows, staged acquires, releases and rotations, acquire batches, workers | offer, grant, stage, reserve, acquire, release, rotate, converge | ledger, Scale Set service |
| Fleet journal (`velnor-control/src/journal.rs`) | event log; tables of slots, jobs and completion rows; drain, pressure episodes | one reducer of about thirty events, replay, overlays | controller, guardian, every slot process |
| Completion (`node/complete.rs`, `runner.rs`, `node/controller.rs`) | staged payload files, completion rows, in-flight marker | record, stage, intend, claim, send, acknowledge; replay, sweep, abandon | journal, run service |
| Job claim (`velnor-runner/src/job_claim.rs`) | one locked file per plan and job | claim, drop, liveness sweep | file system, workspace reclaim |
| Execution backends, disk-pressure sampling, slot supervision | containers and VMs, clock samples, child processes | run and cancel, sample, spawn and reap | Docker, Firecracker, journal |

What is hard: several processes write one ledger under generations they read
earlier; the run service may deliver one job to two slots and may lose an answer;
a process may die between any two durable writes; teardown runs in a thread that
outlives its handler; a daemon pass reconciles from a snapshot that is already
old; the journal takes events of dead generations; a result is sent, lost, sent
again by another process; claim files are unlinked while others have them open.
What makes each part correct:

* ledger: capacity is never exceeded, the oldest fresh demand is admitted, a lost
  attempt has no power over the row that replaced it, closed work stays closed,
  a reconciled ledger accounts for every row;
* native lane: who executes owns the permit, containers are always on record,
  recovery harms no live job, and it ends;
* daemon and controller: a crash at any point leaves something the next pass can
  finish from;
* Scale Set lane: no crash between its database and the ledger, and no lost
  answer, separates an assigned job from its permit or a permit from its record;
* journal: slots and jobs agree, a fenced generation stays fenced, a pending
  completion keeps its owner, the tables are what the log says;
* completion: the service gets one result and it is the one the worker recorded;
  every pending completion and every dead worker's job is settled in the end;
* job claim: one owner per job on the host, and the sweep never takes a held
  claim for a stale one.

`PROJECT.json` lists all components, the modelled and the others, and the hazards
with the properties that cover them.

## Modules

| Module | Contents |
|---|---|
| `PermitLedger` | the ledger: one action per transaction, any live process may call any of them with any generation and any token ever minted |
| `PermitPool` | what the ledger promises, without rows, tokens, epochs or ages |
| `NativeLane` | extends `PermitLedger`: slots, guards, teardown threads, markers, containers, daemon passes and controller recovery, which call the ledger's actions in the order the code does |
| `JobClaim` | claimants and sweeps of the claims directory, one step per system call |
| `FleetJournal` | the journal's reducer, tables, log replay, drain and pressure overlays; events arrive at any time with any arguments |
| `Completion` | extends `FleetJournal`: one job's worker and the controller's cycle, which write the journal's events in the order the code does, with payload file, marker, send and service |
| `ScaleSetAcquire` | extends `PermitLedger`: how the Scale Set lane takes a job, from the offer to the applied answer of the acquire call, over the lane's stores and the ledger, with recovery by the next daemon |
| `MCPermitLedger`, `MCNativeLane`, `MCScaleSetAcquire`, `MCJobClaim`, `MCFleetJournal`, `MCCompletion` | instances for TLC |
| `PermitLedgerProofs` | type correctness and `HeldIsCommitted` |
| `PermitPoolRefinement` | `LedgerSpec` implements `PermitPool` |
| `PermitFenceProofs` | how one call may move one holder's rows, and the ledger's fences |
| `NativeLaneProofs` | the native lane is a ledger client; its inductive invariant and what follows from it |
| `ScaleSetAcquireProofs` | the Scale Set lane is a ledger client; its inductive invariant and what follows from it |
| `FleetJournalProofs` | what the reducer keeps, on the tables and on the replay |
| `CompletionProofs` | the invariant of completion, on top of the journal's |
| `JobClaimProofs` | the inductive invariant of `JobClaim` and what follows from it |

### PermitLedger

Every mutation of `permit_ledger.rs` runs in one IMMEDIATE transaction, hence is
one action; a call that returns an error or returns before its commit is a
stutter. Tables are functions from holder to row or `Null`. UUIDs are the numbers
`1..minted`; a caller may present any of them, so that nothing depends on callers
keeping their tokens apart. `alive` is the answer of the pid probe, and a dead pid
may come back for another process. `now` is `unix_now()`; `Fresh` is
`DEMAND_STALE_AFTER_SECS`. `confirmed` is the report of this epoch's last reconciliation, kept to state what it vouched for.
`LedgerInit` is an empty ledger, or one filled by a release that had no attempt
tokens and that `ensure_permit_attempt_token_column` has just migrated.

Reconciliation is one action over the set of observations (`alive`, staged
rotation, staged release, staged acquire); it may insert missing demand rows in
any order, which is the order of the database scan.

Left out: scope labels, the time stamps of permit rows, the import of the older
`native_demand` table, SQLite errors.

### NativeLane

A slot's `pc` follows `handle_v2_message` and `handle_job_request`:

    idle -> offered -> admitting -> owned -> sent -> acquired -> recorded -> running
                          |                   |                               |
                       departing           dropping            joining / unacked / concluding -> clearing

A ledger call, a marker write, a service call and a Docker operation are one step
each and the process may die between any two (`CrashSlot`). `gen` is the
generation a guard read before it writes: the acquire loop reads it again when it
turns stale, `retain_uncertain_best_effort` does not. `worker` is the teardown
thread, which goes on when the handler's join times out and dies with the process.
`recovery` is the controller's work on one marker; it holds the marker's lock, so
it is one at a time. `service` is the run service as the handlers can tell it
apart (external): a job is queued, assigned or gone, an answer may be lost, and a
job may be delivered to any slot until it is gone. Transitions to running and
cleaning are best effort in the code, so they may fail here (`Spell`).

Left out: storage errors of calls that are not best effort, the quarantine of a
200 without identity, the journal (`Completion` has it, for one job), the process-local
registry of cleanup claims (a slot with a marker takes no message, so it never
decides an admission here), duplicate requests of one job under different request
ids (`job_claim.rs`; so the duplicate-delivery answer at `runner.rs:10367` too), the
controller's teardown of containers without marker (`controller.rs:3395`), a guard that
finds no capacity configured, and a guard whose row disappears between its acquire and its adoption exactly at its deadline.

### ScaleSetAcquire

The lane's tables are functions from request to row: `request` (the demand row with
state, attempt token and generation), `acquires`, `releases` and `rotations` (the
journal rows that are written before the ledger is), and `batches`, the sequence of
acquire calls with the tokens they were made under. The ledger is `PermitLedger`'s,
and the lane calls its actions. A step is one commit to one of the two databases, or
the network call; `DaemonDies` may come between any two. `adapter.pc` follows the one
thread that does all this:

    configure -> epoch -> attest -> claim -> releases -> acquisitions -> rotations -> startup -> polling
    polling -> stage -> reserve -> reserved -> record -> unstage -> intend -> send -> answered -> missing -> polling
    polling -> resend -> reanswered -> polling

The first line is the daemon's start (`init_host_permit_ledger`, the recovery claim,
`recover_durable_attempts`, the listener's `startup`), the second `acquire_pass`, the
third `idle_poll` with `reacquire_batch`. A failed check ends a pass: the listener
polls again, the daemon begins another epoch. `assigned` is what the service has
assigned (external); a call may assign any of its requests, and its answer may be
lost. `acquire_batch_contains_attempt` has no ORDER BY: it is read in the order of
the index on the state, which decides which of two batches counts (`ReadBefore`).

Left out: workers and everything after the acquire, cancellation, the trust gate,
observations of assigned, started and completed jobs, storage errors, other lanes and
a second daemon. With one daemon, configured before it polls, a reserve meets neither
`NotConfigured` nor a stale generation (`capacity.rs:666`), and the reset of stale grants
within `grant_oldest` (`demand.rs:1884`) finds none. `RecoverAcquire` does in one step
what `lane.rs:1553` commits in two; the state between them, the token projected and the
stage still there, is also that after `ProjectToken`, from which recovery starts as
well. Batches are read in the order of their insertion (`created_at`). The clock
stands still, and an uncertain batch may be overdue at any time. The ledger starts empty (`LegacyHolders = {}`): no store of the lane names a
permit that a release without attempt tokens left behind, so such rows are the
native lane's matter.

### JobClaim

A claimant's `pc` follows `try_acquire` and `Drop`: `enter` (wait for the shared
sweep lock), `open`, `racing` (a file system whose lookup-or-create is not atomic,
the case the module's comment measures), `flock`, `verify`, `owner`, `closing`. A
sweeper reads the directory once, then for each entry takes the exclusive sweep
lock, opens, tries the lock, and unlinks or reports. `path` and `flock` are the
file system's state; an inode number is free again as soon as no name and no
descriptor refers to it, so that comparing numbers, as `names_inode` does, is
really put to the test. A process may die at any step, which closes its descriptors.
The directory holds claim files only: the sweep's skip of anything else
(`job_claim.rs:142`) is left out.
`witnessed` and `unserved` are history variables for two of the properties.

### FleetJournal

For every event of `reduce` that changes slots, jobs or completion rows there is
what it accepts (`Can...`), the state it returns, and the transaction
(`apply_many_inner`), which also does the same to `replay`, the state that
`load_state` would rebuild from the log. A rejected event is a stutter. `intact`
says that every logged event is accepted again. `barred` is a drain or cordon;
`pressure` is the disk-pressure episode, of which only what reaches the fleet is
kept: low or terminal. An observation that makes it terminal fences every slot in the
same transaction (`PressureTerminal`); a clear that comes with a time before the last
observation latches it and fences nothing (`PressureClearedLate`); a clear, the
retirement of a volume and the rebinding of another one end it. `struck` are the logged fences that the terminal-pressure handoff of an acquisition needs.
The clock is in one place, the deadline of a completion row, which may have passed
whenever it is asked for (`l`). Terminal completion rows are the value `Terminal`:
`persist_state` does not store them, `replay` keeps them, and no event reads more
of them than that they exist.

Left out: pids, heartbeats, canary and health, package and capacity declarations,
the legacy import, endpoint URLs and the migrations. `RegistrationIntended` only
checks; its guard is `CanRegister`. Of the disk pressure: the clock samples, floors and
fingerprints that decide which of its steps is taken, so that each may be taken at any
time its state allows, and the episodes of several volumes, which are one here.

### Completion

One job of generation 1, owned and running. The worker records its conclusion,
stages the payload file, intends, claims the one send, sends, waits, acknowledges,
removes the file and then the marker; after a refusal of its credentials it sends
the stored payload once more. The controller's steps are those of one
`reconcile_once`: snapshot (`Begin`), look for the worker (`Look`), prove and
recover (`Recover`, `Release`, `Unmarked`, `Forget`), scan markers, sweep files,
walk the rows. Both run the same `GuardedSend`. A payload holds the clock reading
at which it was built (`Versions`), so that two payloads of one conclusion differ,
as their checksums do. The service accepts the first request that arrives, also
after its sender has died. `due` is `last_outbox_reconcile`, in which a new process
is due at once; `late` is the row's deadline.

Left out: the release of the marker when a send fails because the registration was
deleted (`runner.rs:2153`; the model releases it where the settlement is proved), a
journal write that fails while an attempt is charged (`complete.rs:248`), the
replay at `Journal::open`, which ends a restart when the log is not intact, and two
more errors of the marker scan, missing credentials (`controller.rs:3292`) and a marker
that disagrees with the journal (`controller.rs:3215`); the scan's error for an unproven
job, which ends the cycle the same way, is there.

Faults: the worker may die or hang anywhere, the controller may crash or one of
its writes fail (`MaxFaults`), calls may time out or be refused any number of
times, a request may never arrive, and the runner may be deleted at GitHub.

## Runs

| Run | Instance | Shows |
|---|---|---|
| `ledger_native` | 2 native jobs, 2 pids, N = 1, clock 1..2, 2 epochs, 2 tokens | type invariant; a held job is not also queued; a reconciled ledger accounts for every permit; recorded cleanup releases are spent; oldest first; stale epochs write nothing; a live native owner keeps its row; tickets keep their place; the refinement to `PermitPool` |
| `ledger_mixed` | 1 native and 1 Scale Set job, legacy rows, N = 2, 3 tokens | the Scale Set calls too: a permit changes hands from a dead process, or by a rotation of the recovery claim that its row records, so that a replay finds it done; one queue for both lanes |
| `lane_redelivery` | 2 jobs, 2 slots, 3 pids, N = 1, 3 epochs, 2 attempts | the executor owns the permit; containers are recorded; never more than N jobs execute; recovery spares a live redelivery; a marker outlives its work |
| `lane_recovery` | 1 job, 2 slots, 2 epochs, 2 attempts, fairness | recovery ends |
| `job_claim` | 3 claimants, 1 sweep, 1 job, 3 inodes, 4 deliveries, 1 death or failing unlink, fairness | one owner; its file stays; the sweep reports what is held and refuses nobody; of claimants that refuse each other one gets the job; every call returns |
| `fleet_journal` | 1 slot, 3 generations, 2 job ids, 2 payloads, 2 attempts | slots and jobs agree; owners of pending completions stay proven; ready means proven by this generation; a pressure episode admits no job, and a terminal one ends only with every slot fenced and empty; replay gives the tables; the send claim sticks; a fenced generation never works again |
| `completion` | 1 job, 2 conclusions, 2 clock readings, 2 attempts, 1 fault, fairness | a recorded result stands; one payload is sent; the marker outlives the job; rows are settled; a dead worker's job leaves |
| `scaleset_acquire` | 2 requests, 3 daemons in turn, N = 1 or 2, 4 epochs, 6 tokens | type invariant; an assigned job keeps its permit; the stores know of its call, and one case apart no step forgets it; every permit is named by a durable row |
| `lane_capacity`, `lane_startup` | 1 job, 2 slots, 3 epochs, 2 attempts | disagreements, below |
| `scaleset_restart` | 1 request, 2 daemons, N = 1, 3 epochs, 4 tokens | disagreement, below |
| `completion_cycle` | as `completion`, no faults | disagreement, below |

The bounds: two jobs are what order, contention and the capacity limit need; two
attempts on two slots are what redelivery needs; a third pid is the daemon's. With
three attempts, so that a redelivery of a redelivery occurs, the properties of
`lane_redelivery` hold as well: 2,930,327 states for two jobs and 3 epochs (five
minutes, too long to be kept as a run), 511,057 for one job and 4 epochs. Two clock values
with `StaleAfter = 1` make an offer both fresh and stale. One epoch more than the
first is what fencing needs; the lane runs have more, because a pass may fail and
repeat under a live slot. Pids, and in the lane slots and jobs, are symmetric: no
definition tells them apart. `lane_recovery` uses no symmetry, being about
liveness. Deadlock is not checked: with tokens and epochs bounded and all jobs
finished the system has nothing left to do.

In `scaleset_acquire` two requests are what a batch with one acquired and one missing
member needs, and what makes the second wait when N = 1; three daemons give two deaths
at any two points, the second of them within a recovery or a startup, further epochs a
recovery that fails and is repeated, and six tokens several attempts of each request
and their rotations. Pids are symmetric; the symmetry of requests is not used, they
differ by age. For one request 5 epochs and 7 tokens have no violation either.

In `ledger_mixed` the one Scale Set job that may own a migrated row is what an inexact
rotation needs (its prior token is given as "migrated by this ledger"), and the second
job what the shared queue needs. One pid serves: it dies and comes back, and what two
processes with different claims do is part of the proof of `HandoverIsRecorded`.

In `job_claim` three claimants are what it takes for two of them to meet on the
file that the third unlinks, and fewer inodes than opens force numbers to be used
again; that several jobs do not disturb each other through reused numbers is part
of the proof.

In the journal one slot with three generations and two job ids has every pair of
events that can meet, since an event names one slot and the only state that slots
share is the barrier of an unproven owner and the fences of a pressure episode; that
the events of one slot do not disturb another is part of the proofs. Job ids, payloads and slots are symmetric. In
`completion` two conclusions and two clock readings are what a wrong result and a
second payload need, two attempts what a budget needs, and one fault lets the
controller fail once beside the worker's death; the outcomes of calls are not
counted, they may be bad for ever.

Fairness (`RecoveryFairness`): a running controller visits every marker in every
cycle (`reclaim_orphaned_jobs_with_backend_policy`), so it is fair to each begin
of a recovery, strongly because a redelivery may close the guard for a while.
Teardown and remote completion are strongly fair: each may fail any number of
times, but not for ever, which is the assumption under which the code's retries
make sense. The steps that only touch the ledger and the marker are weakly fair.
Nothing is assumed of slots, of the daemon or of the service.

Fairness of `FairClaimSpec`: threads that are in a call are scheduled and a waiter
for the sweep lock gets it; sweeps are finite, so weak fairness is enough. Nobody
has to call. Fairness of `FairCompletionSpec`: the controller's loop goes on and
systemd starts it again (`Restart=always` in `debian/velnor-controller@.service`);
its sends return, with an error if need be (every call has a timeout); the marker
interval passes, strongly because a cycle is only due while the loop rests, and the
row's deadline passes; and recovery, whose token request may fail again and again,
succeeds some day if it is tried for ever. The worker need not do anything, and no
request need arrive.

Every property of a passing run has a mutant, a plausible slip in the code that
breaks it: a head chosen per lane, a count of this epoch's rows only, a teardown
taken for done, a claim not taken again after a rollback, and so on. They are the
definitions marked `mutant` and are used by no specification.

## What disagrees with the documentation

* `lane_startup`: permits are released before markers are removed. A process that
  dies between the two leaves a marker whose token owns no row, and the startup
  reconciliation refuses it with `StaleAttempt` before the controller's marker
  scan, which is meant to finish exactly this case, can run; every retry of the
  pass meets the same marker. A marker whose token was replaced by an adoption
  has the same effect while the adopter is alive or after it has finished.
* `lane_capacity`: a redelivery that adopts a dead slot's row and then drops
  before its own send, or is told 404, frees the permit although the dead
  attempt's containers are still running.
* `completion_cycle`: a completion that is abandoned, or whose payload is lost,
  loses its job row but not the slot's in-flight marker. With the worker dead, the
  marker scan has nothing to prove the job by, the completion is withheld with an
  error, and the error ends the controller: again after every restart, until the
  runner is deleted or the call times out.
* `scaleset_restart`: a request that the service did not give goes back to the queue
  and keeps the token of the attempt it gave up; it is granted again with it. Until
  its next attempt is staged, which takes an acquire pass with headroom, the row is
  granted, has a token and no permit. A daemon that starts in this state attests the
  token as alive, and the reconciliation refuses it with `StaleAttempt`: at every
  retry, and the native lane does not start either.

Met while modelling and in no run:

* `load_state` (`journal.rs:4111`) rebuilds the tables by putting every logged event
  through the reducer again, and fails at the first one rejected. Two kinds of
  accepted event are: an abandonment by deadline, because the replayed intent stamps a
  new deadline from the present clock, and the completion of a job id that was
  delivered a second time, because the replay still has the terminal row that the
  tables have dropped. `ReplayMatchesTables` is about logs without them (`intact`).
  A running process reads the tables and notices nothing; but `Journal::open` ends with
  `load_state` (`journal.rs:2222`), for a worker too (`journal.rs:2268`), so from such an
  event on every later open fails: no controller and no worker starts again on this
  journal. The comparison in the v8 migration meets the same log.
* `clear_disk_pressure_episode_if_healthy` (`journal.rs:3434`) makes a low episode
  terminal when its time is before the last observation, and does not fence the slots,
  while the comments at `journal.rs:3019` and at `persist_pressure_terminal_slot_fences`
  have latch and fences in one transaction. The clock need not run backwards: the
  controller reads `now`, a worker observes the volume as low with a later time, and the
  controller reads that episode (`controller.rs:796`) and clears it with its older `now`
  (`controller.rs:880`). The slots stay unfenced until the next observation. No job
  enters through the gap (`PressureAdmitsNothing`), because permits and acquisitions
  ask for the episode and not for the fence.
* `startup` (`reconcile.rs:306`) marks a batch uncertain before its members. If the
  daemon dies in between, the next one no longer finds the batch intended, and
  `reset_stale_grants` returns the sent request to `eligible` while the service has
  assigned it and its permit is held; its next attempt then fails as already held.
  The comment at `reconcile.rs:259` says such a crash "cannot be mistaken for an
  unsent grant". TLC reaches it with three daemons; it is the exception `HalfOrphaned`
  of `AssignedCallIsKept`, and the proof shows that there is no other.
* `acquire_batch_contains_attempt` fails when an earlier batch, even a resolved one,
  names the request under another token; so a request that was missing once has
  no clean way to give up its next stage when no permit is free, nor to recover it,
  which `lane.rs:1470` promises.
* `reacquire_batch` releases missing members one by one and resolves the batch at the
  end; a death in between leaves an uncertain batch with a member that is granted
  again without a permit, which the idle poll and the recovery refuse from then on.

Of smaller weight: an attempt that adopted a retained permit has a
terminal demand, which its early drop does not reopen (`permit_guard.rs:10` says
that the demand goes back to its place in the queue); the best-effort retain reads
the generation and writes in two transactions, and an epoch in between leaves the
row `acquiring` under a live pid; the payload sweep reads the tables before it
looks at the owner, so a worker that intends its payload and dies in between loses
the file of a pending row (`controller.rs:3601` says it cannot), and a recorded
result is then settled as lost; `preserve_outbox` takes a payload that the live
worker has just acknowledged for lost, and the rejected event ends the controller
once.

## Proofs

All theorems hold for every value of the constants that the named assumptions of
the modules allow, and so for any bound; the bounds only restrict the clock, epochs,
minting, retries and faults. TLC evaluates each assumption on the runs.

### The ledger

For every finite set of holders, any pids and any capacities, from
`HoldersAssumption`, `NumbersAssumption`, `GrantStatesAssumption` and
`NullAssumption` (`Null` is no row and no value):

* `LedgerTypeCorrect`: `LedgerSpec => []TypeOK`. `TypeOK` is inductive; there is
  one lemma per group of calls (demand, ownership, owned, reconciliation, others)
  on lemmas about what `ensure_demand_tx`, the grants and the requeue return.
* `HeldNeverOffered`: `LedgerSpec => []HeldIsCommitted`, inductive together with
  `TypeOK`. The weight is on the steps that touch permits and demands in one
  transaction: a grant writes both, an adoption leaves the demand granted or
  terminal, a release removes the row it reopens, reconciliation promotes the
  demand of every row it keeps, and an offer or a park refuses a granted demand.
* `LedgerImplementsPool`: the refinement `capacity <- maxJobs`, `holding <-
  HeldSet`, `phase` from the demand's state. Every ledger action maps to one pool
  action or to a stutter; the capacity conjunct of `Give` needs the cardinality
  theorems, the phases need that no action reopens a closed demand.

`PermitFenceProofs` goes from actions to holders. `LedgerMove` says how a step may
move the permit, the ticket and the closed demand of one holder (`HolderStep`) and
what it may do to epochs and cleanup records. One lemma per kind of call shows that
the call is such a move, and the properties follow from the move alone:

* `LedgerTokensFence` (`TokensFenceAttempts`, what the UNIQUE index and minting give to
  the other proofs): a step keeps a row's token, mints one, or stores a staged one that
  no row has.
* `LedgerHandoverIsRecorded` (`HandoverIsRecorded`): a step that keeps the token keeps
  the record of its rotation, an adoption finds a dead process, and a rotation is of the
  claim's owner and writes the record. It needs the token fence, for the token that lost
  its row, and `MigratedOnce`, for a rotation whose prior token is "migrated": a holder
  has one migrated token, so the rotated row never matches that rotation again.
* `LedgerEpochFences`, `LedgerAdmitsTheOldest`, `LedgerLiveOwnerKeepsRow` and
  `LedgerTicketsKept`: the action properties `EpochFencesWriters`, `AdmitsTheOldest`,
  `LiveNativeOwnerKeepsRow` and `TicketsAreKept`.
* `LedgerMarkersAreSpent` (`CleanupMarkersAreSpent`), by the strengthening
  `MarkersSpent`: a record's job has no permit and a cancelled demand, and a closed
  demand is never reopened.
* `LedgerReconciledAccounts` (`ReconciledAccounts`), by `EpochsInOrder`: no
  reconciliation is of a later epoch than the ledger's.

### The native lane

`NativeLaneProofs` adds `NativeLaneAssumption` (every job may come over the native
lane, which grants rows as acquiring or running) and `AbsentAssumption` (`Null` is no
record of the lane). `ExecutorOwnsPermit` and the others are far from inductive; the
invariant is `LaneInv`, stated slot by slot:

* `SlotSound`, `WorkerSound`, `MarkerSound`: what the handler at its position, the
  teardown thread and the marker know of the ledger, and of the slot's containers;
* `Apart`: two slots share no process, and no token that either of them holds;
* `DaemonSound`, `RecoverySound`: what the daemon and the controller's recovery carry
  from one of their steps to the next, and whose marker is locked.

A step of one slot presents the slot's own tokens or one it mints, so by `Apart` and
the ledger's token fence it leaves the knowledge of every other slot alone; that
argument is made once and each action's lemma is then about its own slot.

* `LaneKeepsToTheLedger`: `NativeSpec => LedgerSpec`. Every theorem of the ledger, the
  refinement of `PermitPool` included, holds of the lane.
* `LaneTypeCorrect`, `LaneExecutorOwnsPermit`, `LaneContainersAreRecorded`,
  `LaneRecoverySparesTheLive`, `LaneMarkerOutlivesItsWork`: the lane's properties of
  the same names.
* `LaneWithinCapacity`: `WithinCapacity`, for `LegacyHolders = {}`. Rows never
  outnumber N (`PermitsFit`; a daemon sets N only where none is set), and the
  slots that execute go injectively to the rows they own. The hypothesis is needed for
  the first half: rows that an older release left are there before N is.

### The Scale Set lane

`ScaleSetAcquireProofs` adds `ScaleSetAssumption` (there are requests, all of them may
come over the lane, which grants rows as reserved and moves them to acquiring, and the
ledger starts empty) and `StoresAssumption` (`Null` is no row of the stores). The
invariant is `ScaleSetInv`:

* `Durable(h)`, of one request, and `ReleasesSound` speak of the two databases and the
  service only, so they hold at every crash point and are what the next daemon starts
  from. A permit is named by the row or a stage; a staged rotation is of the permit
  that is there, before or after its ledger half; a staged release is of a request
  that was not assigned; an assigned request has its permit and is in some batch; a doubt has
  an open batch under its present token. A release that settles a batch stands for a batch
  in which every other member has its release too, or a known fate.
* `StagesThere`, `IntentsThere`, `StartupSound`, `ReservingSound`, `BatchOfPass`,
  `SendingSound`, `MissingSound` and `AskingSound` are what the daemon may rely on at its
  place in the pass. Two of them carry most of the argument: intents that a starting
  daemon meets are of an earlier epoch, so the startup marks or resets all of them and
  none is left when it polls (`IntentsThere`); and the members that the service has
  assigned are among those of the answer before a missing one is staged for release
  (`SendingSound`, `AskingSound`).
* `LedgerSound` is what the lane needs of the ledger: types, the token fence, and a
  recovery claim whose token was minted.

There is one lemma per action, on lemmas about what each place asks for (`Reach...`),
what it offers (`At...`), and what a step leaves alone (`DurableKept`).

* `ScaleSetKeepsToTheLedger`: `ScaleSetSpec => LedgerSpec`. The proof corrected the
  ledger's model: a rotation keeps the state of the row it moves, so
  `rotate_scaleset_attempt_for_recovery` may be called with `cleaning` and `uncertain`, which
  `OwnershipCall` had left out.
* `ScaleSetTypeCorrect`, `ScaleSetAssignedKeepsPermit`, `ScaleSetPermitIsNamed`: the
  invariants of the run `scaleset_acquire`, for any number of requests, batches, daemons
  and epochs.
* `ScaleSetAssignedCallIsKept`: its action property. By `Durable` a row that is intended
  or uncertain is in an open batch, so it is enough that no step takes the row of an
  assigned request out of these states but to acquired. A release is of a request without
  permit, hence not assigned; a grant and a projected token are of a request not asked
  for; and past the scan of the batches an intended row is in an uncertain one.

### The journal and completion

`FleetJournalProofs` assumes `FleetConstants` and `RowMarkers` (the values that stand
for an absent or a terminal row are no rows). The reducer runs over two states, the
tables and the replay of the log; so `Sound(st)` is stated of a state, and there is one
lemma per event that an accepted event takes a sound state to a sound one, and that
slots and outbox rows only move as `Evolves` says. `FleetInv` is `Tables` (both states
are sound, and equal while the log is intact) and `Overlays`. From it:
`JournalTypeCorrect`, `JournalSlotsMatchJobs`, `JournalOwnersStayProven`,
`JournalReadyIsProvenNow`, `JournalReplayMatchesTables`, `JournalSendClaimSticks`,
`JournalFencedForGood` and `JournalPressureAdmitsNothing`, whose lemmas go event by
event: what an event may do to generations, fences and occupied slots while an episode
is open.

`CompletionProofs` assumes `CompletionConstants` besides.
`CompletionWritesTheJournal` says that every write of the worker and the controller is
an event of the journal, so `Tables` and `Overlays` carry over. `CompletionInv` adds
`ClaimsItsRow` (who is about to claim has the payload of the pending row), `OneIsHot`
(one payload is on the wire or about to be), `RecoversTheDead` (the controller takes
up a job only when its worker is dead), `NothingBeforeRecord`,
`ResultIsEverywhere` (a recorded result is in the job's row, in every payload on its
way to the outbox, in the pending row and in all that is sent), `SettledBeforeClear` and `MarkerOutlivesJob`. From it:
`CompletionTypeCorrect`, `CompletionResultStands`, `CompletionOneResult` and
`CompletionMarkerOutlivesJob`.

### The job claim

`JobClaimProofs` proves, for any sets of claimants, sweepers, jobs and inodes (from
`ClaimConstants` alone: the sets are disjoint and the null values outside them),
`OneOwner`, `OwnerKeepsItsFile`, `HeldIsReported` and `RefusedByClaimant`. None of
them is inductive. `ClaimInv` adds who may hold a lock (`LocksMatch`: a lock and the
descriptor it was taken through name each other), what a descriptor and a path can
have in common (`InodesMatch`: an inode in use belongs to one job, which is where
reuse of numbers is handled), the sweep lock (`SweepExcludes`), that a probe's file
is still the one on the path (`ProbesOnPath`), and where a claim that was held all
along must be in the sweep's books (`WitnessesCovered`). There is one lemma per
system call, with one step per conjunct.

### Only model-checked

* Liveness: `RecoveryEnds`, `UnservedIsServed`, `CallsEnd`, `RowIsSettled` and
  `DeadJobLeaves`. Fairness and `ENABLED` are out of the prover's reach.
* The properties that TLC finds violated.

## Not modelled, and the plan

1. Scale Set lane after the acquire: provisioning, the worker's states and their
   recovery, cancellation, and the observations of assigned, started and completed
   jobs; then both lanes over one ledger.
2. Slot start-up and supervision: the probes that settle provisional acquisitions
   (`resolve_provisional_acquisitions`), which one starting slot runs for all of its
   siblings, and when a slot that idles behind its own marker exits. Their journal
   events are in `FleetJournal`.
3. The clock samples that move a disk-pressure episode, and the launch nonces;
   cancellation and post-step drain.
4. A second daemon in `NativeLane`, with markers of its own; `NativeLane` and
   `Completion` composed over one marker.

Left out for good: step execution, expressions, caches, checkout and storage
layout (sequential data transformation and I/O), the Docker lease proxy (bytes on
sockets), wire formats, the operational store, client and rendering, the workflow
generator, benchmarks and development tools.

Most of the repository's lines are in that list: the executor, the workflow
generator, the lease proxy, the protocol client and the caches are sequential code
whose correctness is about data, and tests and fixtures make up much of the rest.
What the modules stand for is the few thousand lines that decide who owns a job, its
capacity and its result.
