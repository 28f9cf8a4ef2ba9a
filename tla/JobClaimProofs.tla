--------------------------- MODULE JobClaimProofs ---------------------------
(***************************************************************************)
(* Proofs about JobClaim, for any claimants, sweepers, jobs and inodes.    *)
(* The argument: a lock belongs to the one thread whose descriptor it came *)
(* through, an owner's path names its locked inode, and while the sweep    *)
(* works on an entry no claimant is between open and verdict.              *)
(***************************************************************************)
EXTENDS JobClaim, TLAPS

Locking == {"verify", "owner", "closing", "remove"}
Opened == {"flock", "test"} \cup Locking

\* The lock of an inode is held through its holder's own descriptor.
LocksMatch ==
    /\ \A i \in Inodes : flock[i] # NoOwner => fd[flock[i]] = i /\ pc[flock[i]] \in Locking
    /\ \A p \in Procs : pc[p] \in Locking => fd[p] \in Inodes /\ flock[fd[p]] = p

\* A descriptor is open from open to close, for the job the thread works on.
DescriptorsMatch ==
    /\ \A p \in Procs : pc[p] \in Opened <=> fd[p] # NoInode
    /\ \A p \in Claimants : pc[p] # "idle" => job[p] \in Jobs
    /\ \A s \in Sweepers : pc[s] \in Probing => job[s] \in Jobs

\* Whoever refers to an inode refers to it for the same job.
InodesMatch ==
    /\ \A j, k \in Jobs : path[j] = path[k] /\ path[j] # NoInode => j = k
    /\ \A p \in Procs : \A j \in Jobs : fd[p] = path[j] /\ fd[p] # NoInode => job[p] = j
    /\ \A p, q \in Procs : fd[p] = fd[q] /\ fd[p] # NoInode => job[p] = job[q]

OwnersOnPath == \A p \in Claimants : pc[p] = "owner" => path[job[p]] = fd[p]

\* The sweep lock: one sweeper at a time, and no claimant beside it.
SweepExcludes ==
    \A s \in Sweepers : pc[s] \in Probing =>
        /\ NobodyAcquires
        /\ \A t \in Sweepers : pc[t] \in Probing => t = s

\* What the sweep removes is the file it locked, or nothing.
ProbesOnPath ==
    \A s \in Sweepers : pc[s] \in {"test", "remove"} => path[job[s]] \in {fd[s], NoInode}

\* What is owned since the listing is reported, still to be probed, or on the
\* probe right now, which cannot find it unlocked.
WitnessesCovered ==
    \A s \in Sweepers : pc[s] # "idle" => \A j \in witnessed[s] :
        /\ Owned(j)
        /\ \/ j \in held[s]
           \/ j \in listing[s]
           \/ pc[s] \in {"probe", "test"} /\ job[s] = j

ClaimInv ==
    /\ ClaimTypeOK
    /\ LocksMatch
    /\ DescriptorsMatch
    /\ InodesMatch
    /\ OwnersOnPath
    /\ SweepExcludes
    /\ ProbesOnPath
    /\ WitnessesCovered

-----------------------------------------------------------------------------
\* Sets and tuples that every step needs.
USE DEF fileVars, threadVars, sweepVars, counters, Procs, Acquiring, Probing, ClaimantPcs,
        SweeperPcs, Locking, Opened

\* The invariant holds initially: no file, no lock, no open descriptor.
LEMMA ClaimInitInv == ClaimInit => ClaimInv
  BY DEF ClaimInit, ClaimInv, ClaimTypeOK, LocksMatch, DescriptorsMatch, InodesMatch,
         OwnersOnPath, SweepExcludes, ProbesOnPath, WitnessesCovered

\* A delivery: the thread takes up a job and touches no file.
LEMMA TryAcquireKeeps ==
  ASSUME ClaimInv, NEW p \in Claimants, NEW j \in Jobs, TryAcquire(p, j)
  PROVE  ClaimInv'
<1>1. ClaimTypeOK'
  BY ClaimConstants DEF TryAcquire, ClaimInv, ClaimTypeOK
<1>2. LocksMatch'
  BY ClaimConstants DEF TryAcquire, ClaimInv, ClaimTypeOK, LocksMatch
<1>3. DescriptorsMatch'
  BY DEF TryAcquire, ClaimInv, ClaimTypeOK, LocksMatch, DescriptorsMatch
<1>4. InodesMatch'
  BY DEF TryAcquire, ClaimInv, ClaimTypeOK, DescriptorsMatch, InodesMatch
<1>5. OwnersOnPath'
  BY DEF TryAcquire, ClaimInv, DescriptorsMatch, InodesMatch, OwnersOnPath
<1>6. SweepExcludes'
  BY DEF TryAcquire, ClaimInv, OwnersOnPath, SweepExcludes, NobodyAcquires
<1>7. ProbesOnPath'
  BY DEF TryAcquire, ClaimInv, SweepExcludes, ProbesOnPath, NobodyAcquires
<1>8. WitnessesCovered'
  BY ClaimConstants DEF TryAcquire, ClaimInv, ProbesOnPath, WitnessesCovered, Owned, Owns
<1>9. QED
  BY <1>1, <1>2, <1>3, <1>4, <1>5, <1>6, <1>7, <1>8 DEF ClaimInv

\* The claimant takes the sweep lock, which no sweeper holds.
LEMMA LockSharedKeeps ==
  ASSUME ClaimInv, NEW p \in Claimants, LockShared(p)
  PROVE  ClaimInv'
<1>1. ClaimTypeOK'
  BY DEF LockShared, ClaimInv, ClaimTypeOK
<1>2. LocksMatch'
  BY DEF LockShared, ClaimInv, ClaimTypeOK, LocksMatch
<1>3. DescriptorsMatch'
  BY DEF LockShared, ClaimInv, LocksMatch, DescriptorsMatch
<1>4. InodesMatch'
  BY DEF LockShared, ClaimInv, DescriptorsMatch, InodesMatch
<1>5. OwnersOnPath'
  BY DEF LockShared, ClaimInv, InodesMatch, OwnersOnPath
<1>6. SweepExcludes'
  BY DEF LockShared, NobodySweeps, ClaimInv, OwnersOnPath, SweepExcludes
<1>7. ProbesOnPath'
  BY DEF LockShared, NobodySweeps, ClaimInv, SweepExcludes, ProbesOnPath
<1>8. WitnessesCovered'
  BY DEF LockShared, ClaimInv, ProbesOnPath, WitnessesCovered, Owned, Owns
<1>9. QED
  BY <1>1, <1>2, <1>3, <1>4, <1>5, <1>6, <1>7, <1>8 DEF ClaimInv

\* The claim file is opened, or created with an unused inode.
LEMMA OpenClaimKeeps ==
  ASSUME ClaimInv, NEW p \in Claimants, OpenClaim(p)
  PROVE  ClaimInv'
<1>1. ClaimTypeOK'
  BY DEF OpenClaim, OpenedAs, ClaimInv, ClaimTypeOK
<1>2. LocksMatch'
  BY DEF OpenClaim, OpenedAs, ClaimInv, ClaimTypeOK, LocksMatch
<1>3. DescriptorsMatch'
  BY DEF OpenClaim, OpenedAs, Unused, ClaimInv, ClaimTypeOK, LocksMatch, DescriptorsMatch
<1>4. InodesMatch'
  BY DEF OpenClaim, OpenedAs, Unused, ClaimInv, ClaimTypeOK, DescriptorsMatch, InodesMatch
<1>5. OwnersOnPath'
  BY DEF OpenClaim, OpenedAs, Unused, ClaimInv, ClaimTypeOK, DescriptorsMatch, InodesMatch,
         OwnersOnPath
<1>6. SweepExcludes'
  BY DEF OpenClaim, OpenedAs, ClaimInv, ClaimTypeOK, DescriptorsMatch, OwnersOnPath,
         SweepExcludes, NobodyAcquires
<1>7. ProbesOnPath'
  BY DEF OpenClaim, OpenedAs, ClaimInv, SweepExcludes, ProbesOnPath, NobodyAcquires
<1>8. WitnessesCovered'
  BY DEF OpenClaim, OpenedAs, ClaimInv, SweepExcludes, ProbesOnPath, WitnessesCovered,
         Owned, Owns, NobodyAcquires
<1>9. QED
  BY <1>1, <1>2, <1>3, <1>4, <1>5, <1>6, <1>7, <1>8 DEF ClaimInv

\* The lookup half of a non-atomic open.
LEMMA LookupClaimKeeps ==
  ASSUME ClaimInv, NEW p \in Claimants, LookupClaim(p)
  PROVE  ClaimInv'
<1>1. ClaimTypeOK'
  BY DEF LookupClaim, ClaimInv, ClaimTypeOK
<1>2. LocksMatch'
  BY DEF LookupClaim, ClaimInv, ClaimTypeOK, LocksMatch
<1>3. DescriptorsMatch'
  BY DEF LookupClaim, ClaimInv, LocksMatch, DescriptorsMatch
<1>4. InodesMatch'
  BY DEF LookupClaim, ClaimInv, DescriptorsMatch, InodesMatch
<1>5. OwnersOnPath'
  BY DEF LookupClaim, ClaimInv, InodesMatch, OwnersOnPath
<1>6. SweepExcludes'
  BY DEF LookupClaim, ClaimInv, OwnersOnPath, SweepExcludes, NobodyAcquires
<1>7. ProbesOnPath'
  BY DEF LookupClaim, ClaimInv, SweepExcludes, ProbesOnPath, NobodyAcquires
<1>8. WitnessesCovered'
  BY DEF LookupClaim, ClaimInv, ProbesOnPath, WitnessesCovered, Owned, Owns
<1>9. QED
  BY <1>1, <1>2, <1>3, <1>4, <1>5, <1>6, <1>7, <1>8 DEF ClaimInv

\* The file found by the lookup is still there.
LEMMA FinishOpenKeeps ==
  ASSUME ClaimInv, NEW p \in Claimants, FinishOpen(p)
  PROVE  ClaimInv'
<1>1. ClaimTypeOK'
  BY DEF FinishOpen, OpenedAs, ClaimInv, ClaimTypeOK, DescriptorsMatch
<1>2. LocksMatch'
  BY DEF FinishOpen, OpenedAs, ClaimInv, ClaimTypeOK, LocksMatch, DescriptorsMatch
<1>3. DescriptorsMatch'
  BY DEF FinishOpen, OpenedAs, ClaimInv, ClaimTypeOK, LocksMatch, DescriptorsMatch
<1>4. InodesMatch'
  BY DEF FinishOpen, OpenedAs, ClaimInv, ClaimTypeOK, DescriptorsMatch, InodesMatch
<1>5. OwnersOnPath'
  BY DEF FinishOpen, OpenedAs, ClaimInv, DescriptorsMatch, InodesMatch, OwnersOnPath
<1>6. SweepExcludes'
  BY DEF FinishOpen, OpenedAs, ClaimInv, OwnersOnPath, SweepExcludes, NobodyAcquires
<1>7. ProbesOnPath'
  BY DEF FinishOpen, OpenedAs, ClaimInv, SweepExcludes, ProbesOnPath, NobodyAcquires
<1>8. WitnessesCovered'
  BY DEF FinishOpen, OpenedAs, ClaimInv, ProbesOnPath, WitnessesCovered, Owned, Owns
<1>9. QED
  BY <1>1, <1>2, <1>3, <1>4, <1>5, <1>6, <1>7, <1>8 DEF ClaimInv

\* The file found by the lookup is gone.
LEMMA OpenVanishesKeeps ==
  ASSUME ClaimInv, NEW p \in Claimants, OpenVanishes(p)
  PROVE  ClaimInv'
<1>1. ClaimTypeOK'
  BY DEF OpenVanishes, ClaimInv, ClaimTypeOK
<1>2. LocksMatch'
  BY DEF OpenVanishes, ClaimInv, ClaimTypeOK, LocksMatch
<1>3. DescriptorsMatch'
  BY DEF OpenVanishes, ClaimInv, LocksMatch, DescriptorsMatch
<1>4. InodesMatch'
  BY DEF OpenVanishes, ClaimInv, DescriptorsMatch, InodesMatch
<1>5. OwnersOnPath'
  BY DEF OpenVanishes, ClaimInv, InodesMatch, OwnersOnPath
<1>6. SweepExcludes'
  BY DEF OpenVanishes, ClaimInv, OwnersOnPath, SweepExcludes, NobodyAcquires
<1>7. ProbesOnPath'
  BY DEF OpenVanishes, ClaimInv, SweepExcludes, ProbesOnPath, NobodyAcquires
<1>8. WitnessesCovered'
  BY DEF OpenVanishes, ClaimInv, ProbesOnPath, WitnessesCovered, Owned, Owns
<1>9. QED
  BY <1>1, <1>2, <1>3, <1>4, <1>5, <1>6, <1>7, <1>8 DEF ClaimInv

\* The claimant locks the inode behind its descriptor.
LEMMA FlockClaimKeeps ==
  ASSUME ClaimInv, NEW p \in Claimants, FlockClaim(p)
  PROVE  ClaimInv'
<1>1. ClaimTypeOK'
  BY DEF FlockClaim, ClaimInv, ClaimTypeOK
<1>2. LocksMatch'
  BY ClaimConstants DEF FlockClaim, ClaimInv, ClaimTypeOK, LocksMatch, DescriptorsMatch
<1>3. DescriptorsMatch'
  BY ClaimConstants DEF FlockClaim, ClaimInv, ClaimTypeOK, LocksMatch, DescriptorsMatch
<1>4. InodesMatch'
  BY DEF FlockClaim, ClaimInv, DescriptorsMatch, InodesMatch
<1>5. OwnersOnPath'
  BY DEF FlockClaim, ClaimInv, InodesMatch, OwnersOnPath
<1>6. SweepExcludes'
  BY DEF FlockClaim, ClaimInv, OwnersOnPath, SweepExcludes, NobodyAcquires
<1>7. ProbesOnPath'
  BY DEF FlockClaim, ClaimInv, SweepExcludes, ProbesOnPath, NobodyAcquires
<1>8. WitnessesCovered'
  BY DEF FlockClaim, ClaimInv, ProbesOnPath, WitnessesCovered, Owned, Owns
<1>9. QED
  BY <1>1, <1>2, <1>3, <1>4, <1>5, <1>6, <1>7, <1>8 DEF ClaimInv

\* Somebody else has the lock.
LEMMA RefuseKeeps ==
  ASSUME ClaimInv, NEW p \in Claimants, Refuse(p)
  PROVE  ClaimInv'
<1>1. ClaimTypeOK'
  BY DEF Refuse, Leave, ClaimInv, ClaimTypeOK
<1>2. LocksMatch'
  BY DEF Refuse, Leave, ClaimInv, ClaimTypeOK, LocksMatch
<1>3. DescriptorsMatch'
  BY DEF Refuse, Leave, ClaimInv, ClaimTypeOK, LocksMatch, DescriptorsMatch
<1>4. InodesMatch'
  BY DEF Refuse, Leave, ClaimInv, ClaimTypeOK, DescriptorsMatch, InodesMatch
<1>5. OwnersOnPath'
  BY DEF Refuse, Leave, ClaimInv, InodesMatch, OwnersOnPath
<1>6. SweepExcludes'
  BY DEF Refuse, Leave, ClaimInv, OwnersOnPath, SweepExcludes, NobodyAcquires
<1>7. ProbesOnPath'
  BY DEF Refuse, Leave, ClaimInv, SweepExcludes, ProbesOnPath, NobodyAcquires
<1>8. WitnessesCovered'
  BY DEF Refuse, Leave, ClaimInv, ProbesOnPath, WitnessesCovered, Owned, Owns
<1>9. QED
  BY <1>1, <1>2, <1>3, <1>4, <1>5, <1>6, <1>7, <1>8 DEF ClaimInv

\* The locked inode is the one the path names.
LEMMA AcquireKeeps ==
  ASSUME ClaimInv, NEW p \in Claimants, Acquire(p)
  PROVE  ClaimInv'
<1>1. ClaimTypeOK'
  BY DEF Acquire, ClaimInv, ClaimTypeOK
<1>2. LocksMatch'
  BY DEF Acquire, ClaimInv, ClaimTypeOK, LocksMatch
<1>3. DescriptorsMatch'
  BY DEF Acquire, ClaimInv, LocksMatch, DescriptorsMatch
<1>4. InodesMatch'
  BY DEF Acquire, ClaimInv, DescriptorsMatch, InodesMatch
<1>5. OwnersOnPath'
  BY DEF Acquire, NamesInode, ClaimInv, InodesMatch, OwnersOnPath
<1>6. SweepExcludes'
  BY DEF Acquire, NamesInode, ClaimInv, OwnersOnPath, SweepExcludes, NobodyAcquires
<1>7. ProbesOnPath'
  BY DEF Acquire, ClaimInv, SweepExcludes, ProbesOnPath, NobodyAcquires
<1>8. WitnessesCovered'
  BY DEF Acquire, ClaimInv, ProbesOnPath, WitnessesCovered, Owned, Owns
<1>9. QED
  BY <1>1, <1>2, <1>3, <1>4, <1>5, <1>6, <1>7, <1>8 DEF ClaimInv

\* The locked inode is no longer the one the path names.
LEMMA RetryOrphanKeeps ==
  ASSUME ClaimInv, NEW p \in Claimants, RetryOrphan(p)
  PROVE  ClaimInv'
<1>1. ClaimTypeOK'
  BY DEF RetryOrphan, Leave, Unlocked, ClaimInv, ClaimTypeOK
<1>2. LocksMatch'
  BY DEF RetryOrphan, Leave, Unlocked, ClaimInv, ClaimTypeOK, LocksMatch
<1>3. DescriptorsMatch'
  BY DEF RetryOrphan, Leave, Unlocked, ClaimInv, ClaimTypeOK, LocksMatch, DescriptorsMatch
<1>4. InodesMatch'
  BY DEF RetryOrphan, Leave, ClaimInv, ClaimTypeOK, DescriptorsMatch, InodesMatch
<1>5. OwnersOnPath'
  BY DEF RetryOrphan, Leave, ClaimInv, InodesMatch, OwnersOnPath
<1>6. SweepExcludes'
  BY DEF RetryOrphan, Leave, ClaimInv, OwnersOnPath, SweepExcludes, NobodyAcquires
<1>7. ProbesOnPath'
  BY DEF RetryOrphan, Leave, ClaimInv, SweepExcludes, ProbesOnPath, NobodyAcquires
<1>8. WitnessesCovered'
  BY DEF RetryOrphan, Leave, ClaimInv, ProbesOnPath, WitnessesCovered, Owned, Owns
<1>9. QED
  BY <1>1, <1>2, <1>3, <1>4, <1>5, <1>6, <1>7, <1>8 DEF ClaimInv

\* The owner removes its file and stops counting as owner.
LEMMA UnlinkOwnKeeps ==
  ASSUME ClaimInv, NEW p \in Claimants, UnlinkOwn(p)
  PROVE  ClaimInv'
<1>1. ClaimTypeOK'
  BY DEF UnlinkOwn, NoLongerWitnessed, ClaimInv, ClaimTypeOK
<1>2. LocksMatch'
  BY DEF UnlinkOwn, NoLongerWitnessed, ClaimInv, ClaimTypeOK, LocksMatch
<1>3. DescriptorsMatch'
  BY DEF UnlinkOwn, ClaimInv, LocksMatch, DescriptorsMatch
<1>4. InodesMatch'
  BY DEF UnlinkOwn, ClaimInv, DescriptorsMatch, InodesMatch
<1>5. OwnersOnPath'
  BY DEF UnlinkOwn, ClaimInv, ClaimTypeOK, LocksMatch, InodesMatch, OwnersOnPath
<1>6. SweepExcludes'
  BY DEF UnlinkOwn, ClaimInv, ClaimTypeOK, LocksMatch, OwnersOnPath, SweepExcludes,
         NobodyAcquires
<1>7. ProbesOnPath'
  BY DEF UnlinkOwn, ClaimInv, SweepExcludes, ProbesOnPath, NobodyAcquires
<1>8. WitnessesCovered'
  BY DEF UnlinkOwn, NoLongerWitnessed, ClaimInv, ProbesOnPath, WitnessesCovered, Owned, Owns
<1>9. QED
  BY <1>1, <1>2, <1>3, <1>4, <1>5, <1>6, <1>7, <1>8 DEF ClaimInv

\* The file outlives its owner.
LEMMA UnlinkOwnFailsKeeps ==
  ASSUME ClaimInv, NEW p \in Claimants, UnlinkOwnFails(p)
  PROVE  ClaimInv'
<1>1. ClaimTypeOK'
  BY DEF UnlinkOwnFails, NoLongerWitnessed, ClaimInv, ClaimTypeOK
<1>2. LocksMatch'
  BY DEF UnlinkOwnFails, NoLongerWitnessed, ClaimInv, ClaimTypeOK, LocksMatch
<1>3. DescriptorsMatch'
  BY DEF UnlinkOwnFails, ClaimInv, LocksMatch, DescriptorsMatch
<1>4. InodesMatch'
  BY DEF UnlinkOwnFails, ClaimInv, DescriptorsMatch, InodesMatch
<1>5. OwnersOnPath'
  BY DEF UnlinkOwnFails, ClaimInv, InodesMatch, OwnersOnPath
<1>6. SweepExcludes'
  BY DEF UnlinkOwnFails, ClaimInv, OwnersOnPath, SweepExcludes, NobodyAcquires
<1>7. ProbesOnPath'
  BY DEF UnlinkOwnFails, ClaimInv, SweepExcludes, ProbesOnPath, NobodyAcquires
<1>8. WitnessesCovered'
  BY DEF UnlinkOwnFails, NoLongerWitnessed, ClaimInv, ProbesOnPath, WitnessesCovered,
         Owned, Owns
<1>9. QED
  BY <1>1, <1>2, <1>3, <1>4, <1>5, <1>6, <1>7, <1>8 DEF ClaimInv

\* The lock goes with the descriptor.
LEMMA CloseOwnKeeps ==
  ASSUME ClaimInv, NEW p \in Claimants, CloseOwn(p)
  PROVE  ClaimInv'
<1>1. ClaimTypeOK'
  BY DEF CloseOwn, Leave, Unlocked, ClaimInv, ClaimTypeOK
<1>2. LocksMatch'
  BY DEF CloseOwn, Leave, Unlocked, ClaimInv, ClaimTypeOK, LocksMatch
<1>3. DescriptorsMatch'
  BY DEF CloseOwn, Leave, Unlocked, ClaimInv, ClaimTypeOK, LocksMatch, DescriptorsMatch
<1>4. InodesMatch'
  BY DEF CloseOwn, Leave, ClaimInv, ClaimTypeOK, DescriptorsMatch, InodesMatch
<1>5. OwnersOnPath'
  BY DEF CloseOwn, Leave, ClaimInv, InodesMatch, OwnersOnPath
<1>6. SweepExcludes'
  BY DEF CloseOwn, Leave, ClaimInv, OwnersOnPath, SweepExcludes, NobodyAcquires
<1>7. ProbesOnPath'
  BY DEF CloseOwn, Leave, ClaimInv, SweepExcludes, ProbesOnPath, NobodyAcquires
<1>8. WitnessesCovered'
  BY DEF CloseOwn, Leave, ClaimInv, ProbesOnPath, WitnessesCovered, Owned, Owns
<1>9. QED
  BY <1>1, <1>2, <1>3, <1>4, <1>5, <1>6, <1>7, <1>8 DEF ClaimInv

\* A process dies and its descriptors close.
LEMMA DieKeeps ==
  ASSUME ClaimInv, NEW p \in Procs, Die(p)
  PROVE  ClaimInv'
<1>1. ClaimTypeOK'
  BY DEF Die, Leave, Unlocked, NoLongerWitnessed, ClaimInv, ClaimTypeOK, DescriptorsMatch
<1>2. LocksMatch'
  BY DEF Die, Leave, Unlocked, NoLongerWitnessed, ClaimInv, ClaimTypeOK, LocksMatch,
         DescriptorsMatch
<1>3. DescriptorsMatch'
  BY DEF Die, Leave, Unlocked, ClaimInv, ClaimTypeOK, LocksMatch, DescriptorsMatch
<1>4. InodesMatch'
  BY DEF Die, Leave, ClaimInv, ClaimTypeOK, DescriptorsMatch, InodesMatch
<1>5. OwnersOnPath'
  BY DEF Die, Leave, ClaimInv, ClaimTypeOK, InodesMatch, OwnersOnPath
<1>6. SweepExcludes'
  BY DEF Die, Leave, ClaimInv, ClaimTypeOK, OwnersOnPath, SweepExcludes, NobodyAcquires
<1>7. ProbesOnPath'
  BY DEF Die, Leave, ClaimInv, ClaimTypeOK, SweepExcludes, ProbesOnPath, NobodyAcquires
<1>8. WitnessesCovered'
  BY DEF Die, Leave, NoLongerWitnessed, ClaimInv, ClaimTypeOK, ProbesOnPath,
         WitnessesCovered, Owned, Owns
<1>9. QED
  BY <1>1, <1>2, <1>3, <1>4, <1>5, <1>6, <1>7, <1>8 DEF ClaimInv

\* The sweep lists the claim files.
LEMMA ReadDirKeeps ==
  ASSUME ClaimInv, NEW s \in Sweepers, ReadDir(s)
  PROVE  ClaimInv'
<1>1. ClaimTypeOK'
  BY ClaimConstants DEF ReadDir, ClaimInv, ClaimTypeOK
<1>2. LocksMatch'
  BY ClaimConstants DEF ReadDir, ClaimInv, ClaimTypeOK, LocksMatch
<1>3. DescriptorsMatch'
  BY ClaimConstants DEF ReadDir, ClaimInv, LocksMatch, DescriptorsMatch
<1>4. InodesMatch'
  BY ClaimConstants DEF ReadDir, ClaimInv, DescriptorsMatch, InodesMatch
<1>5. OwnersOnPath'
  BY DEF ReadDir, ClaimInv, InodesMatch, OwnersOnPath
<1>6. SweepExcludes'
  BY DEF ReadDir, ClaimInv, OwnersOnPath, SweepExcludes, NobodyAcquires
<1>7. ProbesOnPath'
  BY DEF ReadDir, ClaimInv, SweepExcludes, ProbesOnPath, NobodyAcquires
<1>8. WitnessesCovered'
  BY DEF ReadDir, ClaimInv, ClaimTypeOK, DescriptorsMatch, OwnersOnPath, ProbesOnPath,
         WitnessesCovered, Owned, Owns
<1>9. QED
  BY <1>1, <1>2, <1>3, <1>4, <1>5, <1>6, <1>7, <1>8 DEF ClaimInv

\* The sweep excludes claimants for one entry.
LEMMA LockExclusiveKeeps ==
  ASSUME ClaimInv, NEW s \in Sweepers, NEW j \in Jobs, LockExclusive(s, j)
  PROVE  ClaimInv'
<1>1. ClaimTypeOK'
  BY DEF LockExclusive, ClaimInv, ClaimTypeOK
<1>2. LocksMatch'
  BY DEF LockExclusive, ClaimInv, ClaimTypeOK, LocksMatch
<1>3. DescriptorsMatch'
  BY DEF LockExclusive, ClaimInv, ClaimTypeOK, LocksMatch, DescriptorsMatch
<1>4. InodesMatch'
  BY DEF LockExclusive, ClaimInv, ClaimTypeOK, DescriptorsMatch, InodesMatch
<1>5. OwnersOnPath'
  BY DEF LockExclusive, ClaimInv, DescriptorsMatch, InodesMatch, OwnersOnPath
<1>6. SweepExcludes'
  BY DEF LockExclusive, NobodySweeps, ClaimInv, OwnersOnPath, SweepExcludes, NobodyAcquires
<1>7. ProbesOnPath'
  BY DEF LockExclusive, NobodySweeps, ClaimInv, SweepExcludes, ProbesOnPath, NobodyAcquires
<1>8. WitnessesCovered'
  BY DEF LockExclusive, ClaimInv, ClaimTypeOK, ProbesOnPath, WitnessesCovered, Owned, Owns
<1>9. QED
  BY <1>1, <1>2, <1>3, <1>4, <1>5, <1>6, <1>7, <1>8 DEF ClaimInv

\* The sweep opens the entry.
LEMMA OpenProbeKeeps ==
  ASSUME ClaimInv, NEW s \in Sweepers, OpenProbe(s)
  PROVE  ClaimInv'
<1>1. ClaimTypeOK'
  BY DEF OpenProbe, ClaimInv, ClaimTypeOK, DescriptorsMatch
<1>2. LocksMatch'
  BY DEF OpenProbe, ClaimInv, ClaimTypeOK, LocksMatch, DescriptorsMatch
<1>3. DescriptorsMatch'
  BY DEF OpenProbe, ClaimInv, ClaimTypeOK, LocksMatch, DescriptorsMatch
<1>4. InodesMatch'
  BY DEF OpenProbe, ClaimInv, ClaimTypeOK, DescriptorsMatch, InodesMatch
<1>5. OwnersOnPath'
  BY DEF OpenProbe, ClaimInv, DescriptorsMatch, InodesMatch, OwnersOnPath
<1>6. SweepExcludes'
  BY DEF OpenProbe, ClaimInv, OwnersOnPath, SweepExcludes, NobodyAcquires
<1>7. ProbesOnPath'
  BY DEF OpenProbe, ClaimInv, ClaimTypeOK, SweepExcludes, ProbesOnPath, NobodyAcquires
<1>8. WitnessesCovered'
  BY DEF OpenProbe, ClaimInv, ClaimTypeOK, DescriptorsMatch, OwnersOnPath, ProbesOnPath,
         WitnessesCovered, Owned, Owns
<1>9. QED
  BY <1>1, <1>2, <1>3, <1>4, <1>5, <1>6, <1>7, <1>8 DEF ClaimInv

\* Nobody has the entry locked.
LEMMA ProbeUnheldKeeps ==
  ASSUME ClaimInv, NEW s \in Sweepers, ProbeUnheld(s)
  PROVE  ClaimInv'
<1>1. ClaimTypeOK'
  BY DEF ProbeUnheld, ClaimInv, ClaimTypeOK
<1>2. LocksMatch'
  BY ClaimConstants DEF ProbeUnheld, ClaimInv, ClaimTypeOK, LocksMatch, DescriptorsMatch
<1>3. DescriptorsMatch'
  BY ClaimConstants DEF ProbeUnheld, ClaimInv, ClaimTypeOK, LocksMatch, DescriptorsMatch
<1>4. InodesMatch'
  BY DEF ProbeUnheld, ClaimInv, DescriptorsMatch, InodesMatch
<1>5. OwnersOnPath'
  BY DEF ProbeUnheld, ClaimInv, InodesMatch, OwnersOnPath
<1>6. SweepExcludes'
  BY DEF ProbeUnheld, ClaimInv, OwnersOnPath, SweepExcludes, NobodyAcquires
<1>7. ProbesOnPath'
  BY DEF ProbeUnheld, ClaimInv, SweepExcludes, ProbesOnPath, NobodyAcquires
<1>8. WitnessesCovered'
  BY ClaimConstants DEF ProbeUnheld, ClaimInv, LocksMatch, OwnersOnPath, ProbesOnPath,
       WitnessesCovered, Owned, Owns
<1>9. QED
  BY <1>1, <1>2, <1>3, <1>4, <1>5, <1>6, <1>7, <1>8 DEF ClaimInv

\* The entry is locked: a live claim.
LEMMA ProbeHeldKeeps ==
  ASSUME ClaimInv, NEW s \in Sweepers, ProbeHeld(s)
  PROVE  ClaimInv'
<1>1. ClaimTypeOK'
  BY DEF ProbeHeld, Leave, ClaimInv, ClaimTypeOK, DescriptorsMatch
<1>2. LocksMatch'
  BY DEF ProbeHeld, Leave, ClaimInv, ClaimTypeOK, LocksMatch, DescriptorsMatch
<1>3. DescriptorsMatch'
  BY DEF ProbeHeld, Leave, ClaimInv, ClaimTypeOK, LocksMatch, DescriptorsMatch
<1>4. InodesMatch'
  BY DEF ProbeHeld, Leave, ClaimInv, ClaimTypeOK, DescriptorsMatch, InodesMatch
<1>5. OwnersOnPath'
  BY DEF ProbeHeld, Leave, ClaimInv, InodesMatch, OwnersOnPath
<1>6. SweepExcludes'
  BY DEF ProbeHeld, Leave, ClaimInv, ClaimTypeOK, OwnersOnPath, SweepExcludes
<1>7. ProbesOnPath'
  BY DEF ProbeHeld, Leave, ClaimInv, ClaimTypeOK, SweepExcludes, ProbesOnPath
<1>8. WitnessesCovered'
  BY DEF ProbeHeld, Leave, ClaimInv, ClaimTypeOK, ProbesOnPath, WitnessesCovered, Owned,
         Owns
<1>9. QED
  BY <1>1, <1>2, <1>3, <1>4, <1>5, <1>6, <1>7, <1>8 DEF ClaimInv

\* The sweep removes the file it locked.
LEMMA RemoveStaleKeeps ==
  ASSUME ClaimInv, NEW s \in Sweepers, RemoveStale(s)
  PROVE  ClaimInv'
<1>1. ClaimTypeOK'
  BY DEF RemoveStale, Leave, Unlocked, ClaimInv, ClaimTypeOK
<1>2. LocksMatch'
  BY DEF RemoveStale, Leave, Unlocked, ClaimInv, ClaimTypeOK, LocksMatch
<1>3. DescriptorsMatch'
  BY DEF RemoveStale, Leave, Unlocked, ClaimInv, ClaimTypeOK, LocksMatch, DescriptorsMatch
<1>4. InodesMatch'
  BY DEF RemoveStale, Leave, ClaimInv, ClaimTypeOK, DescriptorsMatch, InodesMatch
<1>5. OwnersOnPath'
  BY DEF RemoveStale, Leave, ClaimInv, ClaimTypeOK, LocksMatch, DescriptorsMatch,
         InodesMatch, OwnersOnPath, ProbesOnPath
<1>6. SweepExcludes'
  BY DEF RemoveStale, Leave, ClaimInv, ClaimTypeOK, LocksMatch, DescriptorsMatch,
         OwnersOnPath, SweepExcludes, ProbesOnPath
<1>7. ProbesOnPath'
  BY DEF RemoveStale, Leave, ClaimInv, ClaimTypeOK, SweepExcludes, ProbesOnPath
<1>8. WitnessesCovered'
  BY DEF RemoveStale, Leave, ClaimInv, ClaimTypeOK, ProbesOnPath, WitnessesCovered, Owned,
         Owns
<1>9. QED
  BY <1>1, <1>2, <1>3, <1>4, <1>5, <1>6, <1>7, <1>8 DEF ClaimInv

\* The sweep returns.
LEMMA ReturnHeldKeeps ==
  ASSUME ClaimInv, NEW s \in Sweepers, ReturnHeld(s)
  PROVE  ClaimInv'
<1>1. ClaimTypeOK'
  BY DEF ReturnHeld, ClaimInv, ClaimTypeOK
<1>2. LocksMatch'
  BY DEF ReturnHeld, ClaimInv, ClaimTypeOK, LocksMatch
<1>3. DescriptorsMatch'
  BY DEF ReturnHeld, ClaimInv, LocksMatch, DescriptorsMatch
<1>4. InodesMatch'
  BY DEF ReturnHeld, ClaimInv, DescriptorsMatch, InodesMatch
<1>5. OwnersOnPath'
  BY DEF ReturnHeld, ClaimInv, InodesMatch, OwnersOnPath
<1>6. SweepExcludes'
  BY DEF ReturnHeld, ClaimInv, OwnersOnPath, SweepExcludes, NobodyAcquires
<1>7. ProbesOnPath'
  BY DEF ReturnHeld, ClaimInv, SweepExcludes, ProbesOnPath, NobodyAcquires
<1>8. WitnessesCovered'
  BY DEF ReturnHeld, ClaimInv, ProbesOnPath, WitnessesCovered, Owned, Owns
<1>9. QED
  BY <1>1, <1>2, <1>3, <1>4, <1>5, <1>6, <1>7, <1>8 DEF ClaimInv

-----------------------------------------------------------------------------
\* Every step of every thread keeps the invariant.
LEMMA ClaimNextInv == ClaimInv /\ [ClaimNext]_claimVars => ClaimInv'
<1> SUFFICES ASSUME ClaimInv, [ClaimNext]_claimVars PROVE ClaimInv'
  OBVIOUS
<1>1. ASSUME NEW p \in Claimants, NEW j \in Jobs, TryAcquire(p, j) PROVE ClaimInv'
  BY <1>1, TryAcquireKeeps
<1>2. ASSUME NEW p \in Claimants,
LookupClaim(p) \/ UnlinkOwnFails(p) \/ ClaimStep(p) PROVE ClaimInv'
  BY <1>2, LockSharedKeeps, OpenClaimKeeps, LookupClaimKeeps, FinishOpenKeeps,
     OpenVanishesKeeps, FlockClaimKeeps, RefuseKeeps, AcquireKeeps, RetryOrphanKeeps,
     UnlinkOwnKeeps, UnlinkOwnFailsKeeps, CloseOwnKeeps DEF ClaimStep
<1>3. ASSUME NEW s \in Sweepers, ReadDir(s) \/ SweepStep(s) PROVE ClaimInv'
  BY <1>3, ReadDirKeeps, LockExclusiveKeeps, OpenProbeKeeps, ProbeUnheldKeeps,
     ProbeHeldKeeps, RemoveStaleKeeps, ReturnHeldKeeps DEF SweepStep
<1>4. ASSUME NEW p \in Procs, Die(p) PROVE ClaimInv'
  BY <1>4, DieKeeps
<1>5. CASE UNCHANGED claimVars
  <2> USE <1>5 DEF claimVars
  <2>1. ClaimTypeOK'
    BY DEF ClaimInv, ClaimTypeOK, Owned, Owns, NobodyAcquires
  <2>2. LocksMatch'
    BY DEF ClaimInv, LocksMatch, Owned, Owns, NobodyAcquires
  <2>3. DescriptorsMatch'
    BY DEF ClaimInv, DescriptorsMatch, Owned, Owns, NobodyAcquires
  <2>4. InodesMatch'
    BY DEF ClaimInv, InodesMatch, Owned, Owns, NobodyAcquires
  <2>5. OwnersOnPath'
    BY DEF ClaimInv, OwnersOnPath, Owned, Owns, NobodyAcquires
  <2>6. SweepExcludes'
    BY DEF ClaimInv, SweepExcludes, Owned, Owns, NobodyAcquires
  <2>7. ProbesOnPath'
    BY DEF ClaimInv, ProbesOnPath, Owned, Owns, NobodyAcquires
  <2>8. WitnessesCovered'
    BY DEF ClaimInv, WitnessesCovered, Owned, Owns, NobodyAcquires
  <2>9. QED
    BY <2>1, <2>2, <2>3, <2>4, <2>5, <2>6, <2>7, <2>8 DEF ClaimInv
<1>6. QED
  BY <1>1, <1>2, <1>3, <1>4, <1>5 DEF ClaimNext

\* The conjunction above is an invariant of job_claim.rs.
THEOREM ClaimInvariant == ClaimSpec => []ClaimInv
  BY ClaimInitInv, ClaimNextInv, PTL DEF ClaimSpec

-----------------------------------------------------------------------------
\* Two owners of one job would have the same inode behind their descriptors,
\* the one the path names, and its lock has one holder.
THEOREM ClaimsAreExclusive == ClaimSpec => []OneOwner
<1>1. ClaimInv => OneOwner
  BY DEF ClaimInv, LocksMatch, OwnersOnPath, OneOwner, Owns
<1>2. QED
  BY <1>1, ClaimInvariant, PTL

\* An owner keeps the name and the lock of its file until it gives them up.
THEOREM OwnersKeepTheirFiles == ClaimSpec => []OwnerKeepsItsFile
<1>1. ClaimInv => OwnerKeepsItsFile
  BY DEF ClaimInv, LocksMatch, OwnersOnPath, OwnerKeepsItsFile
<1>2. QED
  BY <1>1, ClaimInvariant, PTL

\* The sweep that returns reports every claim that was owned throughout.
THEOREM SweepReportsHeldClaims == ClaimSpec => []HeldIsReported
<1>1. ClaimInv => HeldIsReported
  BY DEF ClaimInv, WitnessesCovered, HeldIsReported
<1>2. QED
  BY <1>1, ClaimInvariant, PTL

\* A refusal has a claimant of the same job behind it: the sweep's probe locks
\* only while no claimant is acquiring.
THEOREM RefusalsHaveARival == ClaimSpec => RefusedByClaimant
<1>1. ASSUME ClaimInv, NEW p \in Claimants, Refuse(p)
      PROVE  flock[fd[p]] \in Claimants \ {p} /\ job[flock[fd[p]]] = job[p]
  <2> DEFINE q == flock[fd[p]]
  <2>1. fd[p] \in Inodes /\ q \in Procs /\ pc[p] = "flock"
    BY <1>1 DEF Refuse, ClaimInv, ClaimTypeOK, DescriptorsMatch
  <2>2. fd[q] = fd[p] /\ pc[q] \in Locking /\ q # p
    BY <1>1, <2>1, ClaimConstants DEF Refuse, ClaimInv, LocksMatch
  <2>3. q \notin Sweepers
    BY <1>1, <2>1, <2>2 DEF ClaimInv, ClaimTypeOK, SweepExcludes, NobodyAcquires
  <2>4. job[q] = job[p]
    BY <1>1, <2>1, <2>2, ClaimConstants DEF ClaimInv, InodesMatch
  <2>5. QED
    BY <2>1, <2>2, <2>3, <2>4
<1>2. ClaimInv => \A p \in Claimants : Refuse(p) => /\ flock[fd[p]] \in Claimants \ {p}
                                                    /\ job[flock[fd[p]]] = job[p]
  BY <1>1
<1>3. QED
  BY <1>2, ClaimInvariant, PTL DEF RefusedByClaimant

=============================================================================
