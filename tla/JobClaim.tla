------------------------------ MODULE JobClaim ------------------------------
(***************************************************************************)
(* Host-wide ownership of a run-service job (velnor-runner, job_claim.rs). *)
(* A slot claims a plan/job pair by an exclusive flock on a file that it   *)
(* creates under job-claims/, unlinks it while it still holds the lock,    *)
(* and a liveness sweep (run by leftover_disk.rs before it deletes         *)
(* workspaces) unlinks the files nobody locks.  Claimants hold the sweep   *)
(* lock shared across open, flock and verify; the sweep holds it exclusive *)
(* for each file.                                                          *)
(*                                                                         *)
(* Every system call is one step.  Inode numbers are reused as soon as no  *)
(* name and no descriptor refers to the inode.  The kernel drops the locks *)
(* of a process that dies.  The host's one run root has one claims         *)
(* directory; errors of create_dir_all, stat and of the sweep lock itself, *)
(* which end the call with an error, are left out.                         *)
(***************************************************************************)
EXTENDS Naturals, FiniteSets

CONSTANTS
    Claimants,      \* threads that claim jobs: the slots' handlers
    Sweepers,       \* threads that run the liveness sweep
    Jobs,           \* plan/job pairs, each with its claim file name
    Inodes,         \* inode numbers of the file system
    NoInode, NoOwner, NoJob,
    MaxDeliveries,  \* bound: claims attempted
    MaxSweeps,      \* bound: sweeps started
    MaxFaults       \* bound: process deaths and failing unlinks

Procs == Claimants \cup Sweepers

ASSUME ClaimConstants ==
    /\ Claimants \cap Sweepers = {}
    /\ NoInode \notin Inodes
    /\ NoOwner \notin Procs
    /\ NoJob \notin Jobs
    /\ {MaxDeliveries, MaxSweeps, MaxFaults} \subseteq Nat

VARIABLES
    path,       \* the inode each claim file name refers to
    flock,      \* the holder of the exclusive lock of each inode
    pc,         \* where each thread is in its call
    job,        \* the claim it works on
    fd,         \* the inode behind its open descriptor
    listing,    \* the sweep's directory entries still to probe
    held,       \* the claims the sweep found locked
    witnessed,  \* history: claims owned ever since the sweep read the directory
    unserved,   \* history: claims refused while nobody owned them
    deliveries, sweeps, faults

fileVars == <<path, flock>>
threadVars == <<pc, job, fd>>
sweepVars == <<listing, held, witnessed>>
counters == <<deliveries, sweeps, faults>>
claimVars == <<fileVars, threadVars, sweepVars, unserved, counters>>

\* Shared holders of the sweep lock are between their lock and their verdict.
Acquiring == {"open", "racing", "flock", "verify"}
\* The exclusive holder is working on one directory entry.
Probing == {"probe", "test", "remove"}

ClaimantPcs == {"idle", "enter", "owner", "closing"} \cup Acquiring
SweeperPcs == {"idle", "listing"} \cup Probing

ClaimTypeOK ==
    /\ path \in [Jobs -> Inodes \cup {NoInode}]
    /\ flock \in [Inodes -> Procs \cup {NoOwner}]
    /\ pc \in [Procs -> ClaimantPcs \cup SweeperPcs]
    /\ \A p \in Claimants : pc[p] \in ClaimantPcs
    /\ \A s \in Sweepers : pc[s] \in SweeperPcs
    /\ job \in [Procs -> Jobs \cup {NoJob}]
    /\ fd \in [Procs -> Inodes \cup {NoInode}]
    /\ listing \in [Sweepers -> SUBSET Jobs]
    /\ held \in [Sweepers -> SUBSET Jobs]
    /\ witnessed \in [Sweepers -> SUBSET Jobs]
    /\ unserved \in [Jobs -> BOOLEAN]
    /\ deliveries \in Nat /\ sweeps \in Nat /\ faults \in Nat

ClaimInit ==
    /\ path = [j \in Jobs |-> NoInode]
    /\ flock = [i \in Inodes |-> NoOwner]
    /\ pc = [p \in Procs |-> "idle"]
    /\ job = [p \in Procs |-> NoJob]
    /\ fd = [p \in Procs |-> NoInode]
    /\ listing = [s \in Sweepers |-> {}]
    /\ held = [s \in Sweepers |-> {}]
    /\ witnessed = [s \in Sweepers |-> {}]
    /\ unserved = [j \in Jobs |-> FALSE]
    /\ deliveries = 0 /\ sweeps = 0 /\ faults = 0

Owns(p, j) == p \in Claimants /\ pc[p] = "owner" /\ job[p] = j

Owned(j) == \E p \in Claimants : Owns(p, j)

\* Mutant: the sweep does not exclude claimants.
AnybodyAcquires == TRUE

\* No claimant is between its open and its verdict.
NobodyAcquires == \A p \in Claimants : pc[p] \notin Acquiring

NobodySweeps == \A s \in Sweepers : pc[s] \notin Probing

\* An inode number is free once neither a name nor a descriptor refers to it.
Unused(i) == (\A j \in Jobs : path[j] # i) /\ (\A p \in Procs : fd[p] # i)

\* Closing a descriptor gives up its lock.
Unlocked(p) == [i \in Inodes |-> IF flock[i] = p THEN NoOwner ELSE flock[i]]

Leave(p, l) == pc' = [pc EXCEPT ![p] = l] /\ fd' = [fd EXCEPT ![p] = NoInode]

-----------------------------------------------------------------------------
(* JobClaim::try_acquire *)

TryAcquire(p, j) ==
    /\ pc[p] = "idle"
    /\ deliveries < MaxDeliveries
    /\ deliveries' = deliveries + 1
    /\ pc' = [pc EXCEPT ![p] = "enter"]
    /\ job' = [job EXCEPT ![p] = j]
    /\ UNCHANGED <<fileVars, fd, sweepVars, unserved, sweeps, faults>>

\* SweepLock::shared waits for an exclusive holder.
LockShared(p) ==
    /\ pc[p] = "enter"
    /\ NobodySweeps
    /\ pc' = [pc EXCEPT ![p] = "open"]
    /\ UNCHANGED <<fileVars, job, fd, sweepVars, unserved, counters>>

\* open(O_CREAT) opens the file the name refers to, or a new one.
OpenedAs(p, i) ==
    /\ IF path[job[p]] = NoInode
         THEN Unused(i) /\ path' = [path EXCEPT ![job[p]] = i]
         ELSE i = path[job[p]] /\ path' = path
    /\ pc' = [pc EXCEPT ![p] = "flock"]
    /\ fd' = [fd EXCEPT ![p] = i]
    /\ UNCHANGED <<flock, job, sweepVars, unserved, counters>>

OpenClaim(p) == pc[p] = "open" /\ \E i \in Inodes : OpenedAs(p, i)

\* A file system whose lookup-or-create is not atomic: the lookup found the
\* file, the create has yet to happen.
LookupClaim(p) ==
    /\ pc[p] = "open"
    /\ path[job[p]] # NoInode
    /\ pc' = [pc EXCEPT ![p] = "racing"]
    /\ UNCHANGED <<fileVars, job, fd, sweepVars, unserved, counters>>

FinishOpen(p) ==
    /\ pc[p] = "racing"
    /\ path[job[p]] # NoInode
    /\ OpenedAs(p, path[job[p]])

\* Mutant: the open alone is repeated, without O_CREAT.
OpenVanishesAgain(p) == FALSE

\* ENOENT: the previous owner unlinked the file; try again.
OpenVanishes(p) ==
    /\ pc[p] = "racing"
    /\ path[job[p]] = NoInode
    /\ pc' = [pc EXCEPT ![p] = "enter"]
    /\ UNCHANGED <<fileVars, job, fd, sweepVars, unserved, counters>>

FlockClaim(p) ==
    /\ pc[p] = "flock"
    /\ flock[fd[p]] = NoOwner
    /\ flock' = [flock EXCEPT ![fd[p]] = p]
    /\ pc' = [pc EXCEPT ![p] = "verify"]
    /\ UNCHANGED <<path, job, fd, sweepVars, unserved, counters>>

\* WOULDBLOCK: the job is another slot's.
Refuse(p) ==
    LET q == flock[fd[p]]
    IN  /\ pc[p] = "flock"
        /\ q # NoOwner
        /\ Leave(p, "idle")
        /\ unserved' = [unserved EXCEPT ![job[p]] =
                          @ \/ ~\E o \in Claimants : pc[o] \in {"owner", "closing"}
                                                      /\ job[o] = job[p]]
        /\ UNCHANGED <<fileVars, job, sweepVars, counters>>

\* Mutant: the locked inode is not compared with the path.
AssumesInode(p) == TRUE

NamesInode(p) == path[job[p]] = fd[p]

\* The path names the locked inode: the claim is this thread's.
Acquire(p) ==
    /\ pc[p] = "verify"
    /\ NamesInode(p)
    /\ pc' = [pc EXCEPT ![p] = "owner"]
    /\ unserved' = [unserved EXCEPT ![job[p]] = FALSE]
    /\ UNCHANGED <<fileVars, job, fd, sweepVars, counters>>

\* Mutant: an orphan inode is taken for another slot's claim.
OrphanIsDuplicate(p) ==
    /\ pc[p] = "verify"
    /\ ~NamesInode(p)
    /\ flock' = Unlocked(p)
    /\ Leave(p, "idle")
    /\ UNCHANGED <<path, job, sweepVars, unserved, counters>>

\* The owner unlinked it between open and flock: drop the orphan, retry.
RetryOrphan(p) ==
    /\ pc[p] = "verify"
    /\ ~NamesInode(p)
    /\ flock' = Unlocked(p)
    /\ Leave(p, "enter")
    /\ UNCHANGED <<path, job, sweepVars, unserved, counters>>

-----------------------------------------------------------------------------
(* Drop of the claim: unlink while locked, then close *)

NoLongerWitnessed(p) ==
    witnessed' = IF pc[p] = "owner"
                   THEN [s \in Sweepers |-> witnessed[s] \ {job[p]}]
                   ELSE witnessed

UnlinkOwn(p) ==
    /\ pc[p] = "owner"
    /\ path' = [path EXCEPT ![job[p]] = NoInode]
    /\ pc' = [pc EXCEPT ![p] = "closing"]
    /\ NoLongerWitnessed(p)
    /\ UNCHANGED <<flock, job, fd, listing, held, unserved, counters>>

\* remove_file fails; the warning is all that happens.
UnlinkOwnFails(p) ==
    /\ pc[p] = "owner"
    /\ faults < MaxFaults
    /\ faults' = faults + 1
    /\ pc' = [pc EXCEPT ![p] = "closing"]
    /\ NoLongerWitnessed(p)
    /\ UNCHANGED <<fileVars, job, fd, listing, held, unserved, deliveries, sweeps>>

CloseOwn(p) ==
    /\ pc[p] = "closing"
    /\ flock' = Unlocked(p)
    /\ Leave(p, "idle")
    /\ UNCHANGED <<path, job, sweepVars, unserved, counters>>

\* The process dies: its descriptors close, the file stays.
Die(p) ==
    /\ pc[p] # "idle"
    /\ faults < MaxFaults
    /\ faults' = faults + 1
    /\ flock' = Unlocked(p)
    /\ Leave(p, "idle")
    /\ NoLongerWitnessed(p)
    /\ unserved' = IF p \in Claimants THEN [unserved EXCEPT ![job[p]] = FALSE] ELSE unserved
    /\ UNCHANGED <<path, job, listing, held, deliveries, sweeps>>

-----------------------------------------------------------------------------
(* held_job_claim_ids *)

ReadDir(s) ==
    /\ pc[s] = "idle"
    /\ sweeps < MaxSweeps
    /\ sweeps' = sweeps + 1
    /\ pc' = [pc EXCEPT ![s] = "listing"]
    /\ listing' = [listing EXCEPT ![s] = {j \in Jobs : path[j] # NoInode}]
    /\ held' = [held EXCEPT ![s] = {}]
    /\ witnessed' = [witnessed EXCEPT ![s] = {j \in Jobs : Owned(j)}]
    /\ UNCHANGED <<fileVars, job, fd, unserved, deliveries, faults>>

\* SweepLock::exclusive, once for each entry
LockExclusive(s, j) ==
    /\ pc[s] = "listing"
    /\ j \in listing[s]
    /\ NobodyAcquires
    /\ NobodySweeps
    /\ pc' = [pc EXCEPT ![s] = "probe"]
    /\ job' = [job EXCEPT ![s] = j]
    /\ listing' = [listing EXCEPT ![s] = @ \ {j}]
    /\ UNCHANGED <<fileVars, fd, held, witnessed, unserved, counters>>

\* Open without create; a file that vanished is gone, not held.
OpenProbe(s) ==
    /\ pc[s] = "probe"
    /\ fd' = [fd EXCEPT ![s] = path[job[s]]]
    /\ pc' = [pc EXCEPT ![s] = IF path[job[s]] = NoInode THEN "listing" ELSE "test"]
    /\ UNCHANGED <<fileVars, job, sweepVars, unserved, counters>>

\* Mutant: the probe does not ask whether the file is locked.
ProbeUnchecked(s) ==
    /\ pc[s] = "test"
    /\ pc' = [pc EXCEPT ![s] = "remove"]
    /\ UNCHANGED <<path, flock, job, fd, sweepVars, unserved, counters>>

ProbeUnheld(s) ==
    /\ pc[s] = "test"
    /\ flock[fd[s]] = NoOwner
    /\ flock' = [flock EXCEPT ![fd[s]] = s]
    /\ pc' = [pc EXCEPT ![s] = "remove"]
    /\ UNCHANGED <<path, job, fd, sweepVars, unserved, counters>>

ProbeHeld(s) ==
    /\ pc[s] = "test"
    /\ flock[fd[s]] # NoOwner
    /\ held' = [held EXCEPT ![s] = @ \cup {job[s]}]
    /\ Leave(s, "listing")
    /\ UNCHANGED <<fileVars, job, listing, witnessed, unserved, counters>>

RemoveStale(s) ==
    /\ pc[s] = "remove"
    /\ \/ path' = [path EXCEPT ![job[s]] = NoInode] /\ faults' = faults
       \/ path' = path /\ faults < MaxFaults /\ faults' = faults + 1
    /\ flock' = Unlocked(s)
    /\ Leave(s, "listing")
    /\ UNCHANGED <<job, sweepVars, unserved, deliveries, sweeps>>

\* The set of held claims goes to the workspace reclaim.
ReturnHeld(s) ==
    /\ pc[s] = "listing"
    /\ listing[s] = {}
    /\ pc' = [pc EXCEPT ![s] = "idle"]
    /\ UNCHANGED <<fileVars, job, fd, sweepVars, unserved, counters>>

-----------------------------------------------------------------------------
ClaimStep(p) ==
    \/ LockShared(p) \/ OpenClaim(p) \/ FinishOpen(p) \/ OpenVanishes(p)
    \/ FlockClaim(p) \/ Refuse(p) \/ Acquire(p) \/ RetryOrphan(p)
    \/ UnlinkOwn(p) \/ CloseOwn(p)

SweepStep(s) ==
    \/ \E j \in Jobs : LockExclusive(s, j)
    \/ OpenProbe(s) \/ ProbeUnheld(s) \/ ProbeHeld(s) \/ RemoveStale(s) \/ ReturnHeld(s)

ClaimNext ==
    \/ \E p \in Claimants : \/ \E j \in Jobs : TryAcquire(p, j)
                            \/ LookupClaim(p)
                            \/ UnlinkOwnFails(p)
                            \/ ClaimStep(p)
    \/ \E s \in Sweepers : ReadDir(s) \/ SweepStep(s)
    \/ \E p \in Procs : Die(p)

ClaimSpec == ClaimInit /\ [][ClaimNext]_claimVars

\* The calls run to their end: the threads are scheduled and flock waiters wake.
FairClaimSpec ==
    /\ ClaimSpec
    /\ \A p \in Claimants : WF_claimVars(ClaimStep(p))
    /\ \A s \in Sweepers : WF_claimVars(SweepStep(s))

-----------------------------------------------------------------------------
(* Properties *)

\* One slot owns a job at a time, although files are unlinked by their owners
\* and by the sweep while others open, lock and verify them.
OneOwner == \A j \in Jobs : \A p, q \in Claimants : Owns(p, j) /\ Owns(q, j) => p = q

\* The path names the owner's locked inode for as long as it owns the claim:
\* neither the sweep nor a claimant that was there before removes a held claim.
OwnerKeepsItsFile ==
    \A p \in Claimants : pc[p] = "owner" => path[job[p]] = fd[p] /\ flock[fd[p]] = p

\* A claim owned from before the directory was read until the sweep returns is
\* in the returned set, so the reclaim keeps the job's workspace.
HeldIsReported ==
    \A s \in Sweepers : pc[s] = "listing" /\ listing[s] = {} => witnessed[s] \subseteq held[s]

\* A claimant is refused because of another claimant of the same job, never
\* because of the sweep's probe.
RefusedByClaimant ==
    [][\A p \in Claimants : Refuse(p) => /\ flock[fd[p]] \in Claimants \ {p}
                                         /\ job[flock[fd[p]]] = job[p]]_claimVars

\* When a delivery is refused while nobody owns the job (two claimants met on
\* the file its last owner unlinked), one of the others gets it or dies.
UnservedIsServed == \A j \in Jobs : unserved[j] ~> ~unserved[j]

\* Every try_acquire returns: retries end and nobody waits for the sweep lock
\* for ever.
CallsEnd == \A p \in Claimants : pc[p] \in {"enter"} \cup Acquiring ~> pc[p] \in {"owner", "idle"}

=============================================================================
