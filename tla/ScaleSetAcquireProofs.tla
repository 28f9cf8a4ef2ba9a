----------------------- MODULE ScaleSetAcquireProofs -----------------------
(***************************************************************************)
(* The Scale Set lane keeps to the permit ledger's protocol, and no death  *)
(* between its stores and the ledger separates an assigned job from its    *)
(* permit: proofs for any number of requests, daemons, batches and epochs. *)
(*                                                                         *)
(* The invariant has two halves.  Durable, of one request, and             *)
(* ReleasesSound are about the stores alone, so they are what the next     *)
(* daemon finds wherever this one died.  The others say what the daemon    *)
(* may rely on at its place in the pass.                                   *)
(***************************************************************************)
EXTENDS ScaleSetAcquire, PermitFenceProofs, SequenceTheorems

BatchRow ==
    [tokens : UNION {[S -> Token] : S \in SUBSET Holders}, state : BatchStates]

StoresTypeOK ==
    /\ request \in [Holders -> RequestRow \cup {Null}]
    /\ acquires \in [Holders -> AcquireRow \cup {Null}]
    /\ releases \in [Holders -> ReleaseRow \cup {Null}]
    /\ rotations \in [Holders -> RotationRow \cup {Null}]
    /\ batches \in Seq(BatchRow)
    /\ assigned \in SUBSET Holders

AdapterTypeOK ==
    /\ adapter \in Adapter \cup {Null}
    /\ adapter # Null => adapter.pid \in alive /\ adapter.batch <= Len(batches)

\* An open batch names h's present attempt.
InBatch(h) == \E b \in Naming(h) : Open(b) /\ batches[b].tokens[h] = request[h].token

Intended(h) == request[h] # Null /\ request[h].state = "acquire_intent"

Uncertain(h) == request[h] # Null /\ request[h].state = "uncertain"

\* What PermitIsNamed says of one request
Named(h) ==
    \/ request[h].token = permits[h].token
    \/ acquires[h] # Null /\ acquires[h].target = permits[h].token
    \/ rotations[h] # Null /\ rotations[h].new = permits[h].token

\* States the lanes ask for, and those the ledger gives to a row by itself
LaneStates == GrantStates \cup {"cleaning", "uncertain"}

\* A rotation is of the permit that h has, before or after its ledger half.
RotationSound(h) ==
    rotations[h] # Null =>
        /\ acquires[h] = Null /\ releases[h] = Null
        /\ rotations[h].new <= minted
        /\ rotations[h].old = request[h].token
        /\ Held(h) /\ permits[h].token \in {rotations[h].old, rotations[h].new}

\* What is true of a request at every crash point
Durable(h) ==
    /\ request[h] = Null => ~Held(h) /\ ~Staged(h) /\ Naming(h) = {}
    /\ request[h] # Null => request[h].gen <= generation
    /\ Held(h) => permits[h].pid \in Pids /\ permits[h].state \in LaneStates /\ Named(h)
    /\ acquires[h] # Null => acquires[h].target <= minted
    /\ RotationSound(h)
    /\ releases[h] # Null => h \notin assigned
    /\ h \in assigned => Held(h) /\ Naming(h) # {}
    /\ Uncertain(h) /\ releases[h] = Null => Held(h)
    /\ Intended(h) \/ Uncertain(h) => InBatch(h)

\* A release of batch b stands for a member whose fate is known, and so is that
\* of every other member, or it has its release too.
ReleasesSound ==
    \A h \in Holders :
        releases[h] # Null /\ releases[h].batch # 0 =>
            LET b == releases[h].batch
            IN  /\ b \in DOMAIN batches /\ h \in Members(b)
                /\ \A k \in Members(b) :
                      \/ releases[k] # Null /\ releases[k].batch = b
                      \/ request[k].state \in {"acquired", "eligible"}

-----------------------------------------------------------------------------
(* The daemon's place *)

Recovering == {"configure", "epoch", "attest", "claim", "releases", "acquisitions",
               "rotations"}

Reserving == {"stage", "reserve", "reserved", "refused", "record"}

Sending == {"unstage", "intend", "send", "lost", "answered"}

Asking == {"resend", "reanswered"}

NoRotations == \A h \in Holders : rotations[h] = Null

NoIntents == \A h \in Holders : ~Intended(h)

\* Intents of an earlier epoch only
OldIntents == \A h \in Holders : Intended(h) => request[h].gen < generation

\* Where staged rows may be met
StagesThere ==
    adapter # Null =>
        /\ adapter.pc \notin (Recovering \ {"rotations"}) \cup {"missing", "reanswered"}
              => NoReleases
        /\ adapter.pc = "reanswered" =>
              \A h \in Holders : releases[h] # Null => releases[h].batch = 0
        /\ adapter.pc \notin Recovering => NoRotations
        /\ adapter.pc = "rotations" => \A h \in Holders : acquires[h] = Null

\* Where a request with an intent may be met
IntentsThere ==
    adapter # Null =>
        /\ adapter.pc \in {"attest", "claim", "releases", "acquisitions", "rotations", "startup"}
              => OldIntents
        /\ adapter.pc \in {"polling", "unstage"} \cup Reserving \cup Asking => NoIntents
        /\ adapter.pc \in {"intend", "answered"}
              => \A h \in Holders : Intended(h) => h \in adapter.taken
        /\ adapter.pc \in {"send", "lost"}
              => \A h \in Holders : Intended(h) => h \in adapter.todo
        /\ adapter.pc = "missing"
              => \A h \in Holders : Intended(h) => releases[h] # Null

\* Recovery of the attempts of a dead daemon is under a claim; then, the members
\* of an orphaned batch before they are marked.
StartupSound ==
    adapter # Null =>
        /\ adapter.pc \in Recovering => adapter.todo = {}
        /\ adapter.pc \in {"releases", "acquisitions", "rotations"} => recoveryClaim # Null
        /\ adapter.pc = "startup" =>
              \A h \in adapter.todo :
                  /\ request[h] # Null /\ InBatch(h)
                  /\ request[h].state \in {"granted", "acquire_intent"} => Held(h)

\* What was reserved in this pass, and the one being reserved
ReservingSound ==
    adapter # Null /\ adapter.pc \in Reserving =>
        /\ adapter.todo \cap adapter.taken = {}
        /\ \A h \in adapter.todo : request[h] # Null /\ request[h].state = "granted"
        /\ \A h \in adapter.taken : request[h] # Null /\ Owns(h, request[h].token)
        /\ adapter.pc \in {"reserve", "reserved", "refused"} =>
              \A h \in Holders : IsNext(h) => acquires[h] # Null
        /\ adapter.pc = "reserved" =>
              \A h \in Holders : IsNext(h) => Owns(h, acquires[h].target)
        /\ adapter.pc = "refused" => \A h \in Holders : IsNext(h) => ~Held(h)

\* The batch of the pass is the one that was recorded.
BatchOfPass ==
    adapter # Null /\ adapter.pc \in Sending \cup {"missing"} =>
        /\ adapter.batch \in DOMAIN batches
        /\ Members(adapter.batch) = adapter.taken
        /\ adapter.todo \subseteq adapter.taken
        /\ adapter.pc \in {"answered", "missing"} => adapter.answer \subseteq adapter.taken
        /\ \A h \in adapter.taken : request[h] # Null

SendingSound ==
    adapter # Null /\ adapter.pc \in Sending =>
        /\ Open(adapter.batch)
        /\ \A h \in adapter.taken :
              /\ Owns(h, request[h].token)
              /\ batches[adapter.batch].tokens[h] = request[h].token
        /\ adapter.pc = "intend" => \A h \in adapter.taken \ adapter.todo : Intended(h)
        /\ adapter.pc = "send" =>
              adapter.todo = adapter.taken /\ \A h \in adapter.taken : Intended(h)
        /\ adapter.pc = "answered" =>
              /\ \A h \in adapter.taken : Intended(h) \/ request[h].state = "acquired"
              /\ assigned \cap adapter.taken \subseteq adapter.answer

MissingSound ==
    adapter # Null /\ adapter.pc = "missing" =>
        \A h \in adapter.taken :
            releases[h] # Null \/ request[h].state \in {"acquired", "eligible"}

\* A batch that is asked for again: its doubts are what the call names.
AskingSound ==
    adapter # Null /\ adapter.pc \in Asking =>
        /\ adapter.batch \in DOMAIN batches
        /\ adapter.taken \subseteq Members(adapter.batch)
        /\ \A h \in adapter.taken : request[h] # Null
        /\ \A h \in Members(adapter.batch) : Uncertain(h) => h \in adapter.taken
        /\ adapter.pc = "resend" => \A h \in adapter.taken : Uncertain(h)
        /\ adapter.pc = "reanswered" =>
              /\ adapter.answer \subseteq adapter.taken
              /\ assigned \cap adapter.taken \subseteq adapter.answer

\* What the daemon may rely on at its place
PlaceSound ==
    /\ StagesThere /\ IntentsThere /\ StartupSound
    /\ ReservingSound /\ BatchOfPass /\ SendingSound /\ MissingSound /\ AskingSound

\* What the lane needs of the ledger
LedgerSound ==
    /\ TypeOK /\ TokensFenceAttempts /\ now >= 1
    /\ recoveryClaim # Null => recoveryClaim.token <= minted

\* The half of the invariant that is about the lane
LaneSound ==
    /\ StoresTypeOK /\ AdapterTypeOK
    /\ \A h \in Holders : Durable(h)
    /\ ReleasesSound
    /\ PlaceSound

\* The inductive invariant
ScaleSetInv == LedgerSound /\ LaneSound

-----------------------------------------------------------------------------
(* Every step of the lane is a step of the ledger, or leaves it alone *)

\* A daemon at its place is a live process.
LEMMA DaemonFacts ==
    ASSUME TypeOK, AdapterTypeOK, adapter # Null
    PROVE  /\ adapter \in Adapter /\ adapter.pid \in alive /\ adapter.pid \in Pids
           /\ adapter.todo \subseteq Holders /\ adapter.taken \subseteq Holders
           /\ adapter.answer \subseteq Holders /\ adapter.batch \in Nat
           /\ adapter.pc \in Phases
  BY DEF AdapterTypeOK, Adapter, TypeOK

\* A token that owns a permit was minted.
LEMMA OwnedTokens ==
    ASSUME TypeOK, TokensFenceAttempts, NEW h \in Holders, NEW t, Owns(h, t)
    PROVE  t \in 1..minted /\ t \in Token
  BY DEF TypeOK, TokensFenceAttempts, Owns, HeldSet, Held, PermitRow, Token

\* A call by the daemon is a call by a live process.
LEMMA DaemonCalls ==
    ASSUME NEW p \in alive, NEW h \in Holders,
           \/ LedgerCall(p) \/ DemandCall(h) \/ OwnershipCall(h, p)
           \/ \E t \in 1..minted : OwnedCall(h, t, p)
    PROVE  LedgerNext
  BY DEF LedgerNext

\* What a step owes to the ledger: its protocol, and a claim that was minted
LedgerStep ==
    /\ [LedgerNext]_ledgerVars
    /\ now' = now
    /\ (recoveryClaim # Null => recoveryClaim.token <= minted)'

\* A call that leaves the recovery claim alone
LEMMA CallsKeepClaim ==
    ASSUME LedgerSound, [LedgerNext]_ledgerVars, now' = now, recoveryClaim' = recoveryClaim,
           minted' \in {minted, minted + 1}
    PROVE  LedgerStep
  BY DEF LedgerSound, LedgerStep, TypeOK, RecoveryClaim, Token

LEMMA StartKeepsToLedger ==
    ASSUME ScaleSetInv, (\E p \in Pids : StartDaemon(p)) \/ DaemonDies
    PROVE  LedgerStep
<1>1. \E p \in Pids : StartProcess(p) \/ CrashProcess(p)
  BY DaemonFacts DEF StartDaemon, DaemonDies, ScaleSetInv, LedgerSound, LaneSound
<1>2. LedgerNext
  BY <1>1 DEF LedgerNext
<1>3. now' = now /\ recoveryClaim' = recoveryClaim /\ minted' = minted
  BY <1>1 DEF StartProcess, CrashProcess, aux
<1> QED
  BY <1>2, <1>3, CallsKeepClaim DEF ScaleSetInv

LEMMA PassKeepsToLedger ==
    ASSUME ScaleSetInv, adapter # Null,
           ConfigureLedger \/ OpenEpoch \/ AttestLedger \/ EnsureRecoveryClaim
    PROVE  LedgerStep
<1>1. /\ adapter.pid \in alive /\ adapter.pid \in Pids /\ TypeOK /\ LedgerSound
      /\ minted \in Nat /\ \E h \in Holders : "scaleset" \in LanesOf[h]
  BY DaemonFacts, ScaleSetAssumption DEF ScaleSetInv, LedgerSound, LaneSound, TypeOK
<1>2. PICK h \in Holders : TRUE
  BY ScaleSetAssumption
<1>3. CASE UNCHANGED ledgerVars
  <2>1. now' = now /\ recoveryClaim' = recoveryClaim /\ minted' = minted
    BY <1>3 DEF ledgerVars, aux, env
  <2> QED
    BY <1>1, <1>3, <2>1, CallsKeepClaim
<1>4. ASSUME NEW n \in Capacities, SetMaxJobs(n) PROVE LedgerStep
  <2>1. LedgerCall(adapter.pid)
    BY <1>4 DEF LedgerCall
  <2>2. now' = now /\ recoveryClaim' = recoveryClaim /\ minted' = minted
    BY <1>4 DEF SetMaxJobs, aux, env
  <2> QED
    BY <1>1, <1>2, <2>1, <2>2, DaemonCalls, CallsKeepClaim
<1>5. ASSUME BeginEpoch PROVE LedgerStep
  <2>1. LedgerCall(adapter.pid)
    BY <1>5 DEF LedgerCall
  <2>2. now' = now /\ recoveryClaim' = recoveryClaim /\ minted' = minted
    BY <1>5 DEF BeginEpoch, env
  <2> QED
    BY <1>1, <1>2, <2>1, <2>2, DaemonCalls, CallsKeepClaim
<1>6. ASSUME Reconcile(Observed) PROVE LedgerStep
  <2>1. /\ DOMAIN Observed \in SUBSET Holders
        /\ Observed \in [DOMAIN Observed -> ObservationKinds]
    BY DEF Observed, Attested, Observation, ObservationKinds
  <2>2. LedgerCall(adapter.pid)
    BY <1>6, <2>1 DEF LedgerCall
  <2>3. now' = now /\ recoveryClaim' = recoveryClaim /\ minted' = minted
    BY <1>6 DEF Reconcile, env
  <2> QED
    BY <1>1, <1>2, <2>2, <2>3, DaemonCalls, CallsKeepClaim
<1>7. ASSUME ClaimScaleSetRecovery(adapter.pid) PROVE LedgerStep
  <2>1. LedgerCall(adapter.pid)
    BY <1>1, <1>7 DEF LedgerCall, ScaleSetCall
  <2>2. LedgerNext
    BY <1>1, <1>2, <2>1, DaemonCalls
  <2>3. now' = now
    BY <1>7 DEF ClaimScaleSetRecovery
  <2>4. recoveryClaim' # Null => recoveryClaim'.token <= minted'
    BY <1>1, <1>7 DEF ClaimScaleSetRecovery, LedgerSound, TypeOK, RecoveryClaim, Token
  <2> QED
    BY <2>2, <2>3, <2>4 DEF LedgerStep
<1> QED
  BY <1>3, <1>4, <1>5, <1>6, <1>7
     DEF ConfigureLedger, OpenEpoch, AttestLedger, EnsureRecoveryClaim

LEMMA RequestsKeepToLedger ==
    ASSUME ScaleSetInv, adapter # Null, NEW h \in Holders,
           \/ ReleasePermit(h) \/ StageRotation(h) \/ RotateAttempt(h)
           \/ ObserveGlobalDemand(h) \/ StageAcquire(h) \/ Reserve(h) \/ MovePermit(h)
           \/ \E b \in DOMAIN batches : ObserveAcquired(b, h)
    PROVE  LedgerStep
<1> DEFINE p == adapter.pid
<1>1. /\ p \in alive /\ p \in Pids /\ TypeOK /\ LedgerSound /\ TokensFenceAttempts
      /\ minted \in Nat /\ generation \in 0..generation /\ now \in 1..now
      /\ "scaleset" \in LanesOf[h] /\ "reserved" \in GrantStates /\ "acquiring" \in GrantStates
      /\ Durable(h) /\ StoresTypeOK
  BY DaemonFacts, ScaleSetAssumption DEF ScaleSetInv, LedgerSound, LaneSound, TypeOK
<1> HIDE DEF p
<1>2. CASE UNCHANGED ledgerVars
  <2>1. now' = now /\ recoveryClaim' = recoveryClaim /\ minted' = minted
    BY <1>2 DEF ledgerVars, aux, env
  <2> QED
    BY <1>1, <1>2, <2>1, CallsKeepClaim
<1>3. CASE ReleasePermit(h)
  <2>1. ReleaseScaleSetStaged(h, releases[h].token, "eligible") /\ Owns(h, releases[h].token)
    BY <1>3 DEF ReleasePermit, ReleaseScaleSetStaged
  <2>2. \E t \in 1..minted : OwnedCall(h, t, p)
    BY <1>1, <2>1, OwnedTokens DEF OwnedCall
  <2>3. now' = now /\ recoveryClaim' = recoveryClaim /\ minted' = minted
    BY <2>1 DEF ReleaseScaleSetStaged, aux, env
  <2> QED
    BY <1>1, <2>2, <2>3, DaemonCalls, CallsKeepClaim
<1>4. ASSUME MintToken PROVE LedgerStep
  <2>1. LedgerCall(p)
    BY <1>1, <1>4 DEF LedgerCall, ScaleSetCall
  <2>2. now' = now /\ recoveryClaim' = recoveryClaim /\ minted' = minted + 1
    BY <1>4 DEF MintToken, aux
  <2> QED
    BY <1>1, <2>1, <2>2, DaemonCalls, CallsKeepClaim
<1>5. CASE RotateAttempt(h)
  <2>1. /\ RotateScaleSetAttempt(h, permits[h].state, generation, rotations[h].pid,
                                 rotations[h].old, rotations[h].new, recoveryClaim.token, p)
        /\ rotations[h] # Null /\ Held(h)
    BY <1>5 DEF RotateAttempt, PendingRotations, p
  <2>2. recoveryClaim # Null /\ PreviousTokenMatches(h, rotations[h].old)
    BY <1>5, <2>1 DEF RotateScaleSetAttempt, RotateAttempt, At, ScaleSetInv, LaneSound, PlaceSound, StartupSound
  <2>3. /\ permits[h].state \in GrantStates \cup {"cleaning", "uncertain"}
        /\ rotations[h].new <= minted
    BY <1>1, <2>1 DEF Durable, RotationSound, LaneStates
  <2>4. /\ rotations[h].pid \in Pids /\ rotations[h].old \in Token
        /\ rotations[h].new \in 1..minted
    BY <1>1, <2>1, <2>3 DEF StoresTypeOK, RotationRow, Token
  <2>5. rotations[h].old \in 1..minted
    <3>1. permits[h].token = rotations[h].old
      BY <2>2, <2>4, NullAssumption DEF PreviousTokenMatches, Token
    <3> QED
      BY <3>1, <2>1, <1>1, OwnedTokens DEF Owns
  <2>6. recoveryClaim.token \in 1..minted
    BY <1>1, <2>2 DEF LedgerSound, TypeOK, RecoveryClaim, Token
  <2>7. OwnershipCall(h, p)
    BY <1>1, <2>1, <2>3, <2>4, <2>5, <2>6 DEF OwnershipCall
  <2>8. now' = now /\ recoveryClaim' = recoveryClaim /\ minted' = minted
    BY <2>1 DEF RotateScaleSetAttempt, aux, env
  <2> QED
    BY <1>1, <2>7, <2>8, DaemonCalls, CallsKeepClaim
<1>6. CASE ObserveGlobalDemand(h)
  <2>1. ObserveDemand(h, "scaleset", now, now)
    BY <1>6 DEF ObserveGlobalDemand
  <2>2. DemandCall(h)
    BY <1>1, <2>1 DEF DemandCall
  <2>3. now' = now /\ recoveryClaim' = recoveryClaim /\ minted' = minted
    BY <2>1 DEF ObserveDemand, aux, env
  <2> QED
    BY <1>1, <2>2, <2>3, DaemonCalls, CallsKeepClaim
<1>7. ASSUME \/ AcquireFull(h, "scaleset", generation)
             \/ AcquireDeferred(h, "scaleset", generation)
      PROVE  LedgerStep
  <2>1. OwnershipCall(h, p)
    BY <1>1, <1>7 DEF OwnershipCall
  <2>2. now' = now /\ recoveryClaim' = recoveryClaim /\ minted' = minted
    BY <1>7 DEF AcquireFull, AcquireDeferred, aux, env
  <2> QED
    BY <1>1, <2>1, <2>2, DaemonCalls, CallsKeepClaim
<1>8. ASSUME acquires[h] # Null,
             AcquireStagedAttempt(h, "reserved", generation, p, acquires[h].target)
      PROVE  LedgerStep
  <2>1. acquires[h].target \in 1..minted
    BY <1>1, <1>8 DEF Durable, StoresTypeOK, AcquireRow, Token
  <2>2. OwnershipCall(h, p)
    BY <1>1, <1>8, <2>1 DEF OwnershipCall
  <2>3. now' = now /\ recoveryClaim' = recoveryClaim /\ minted' = minted
    BY <1>8 DEF AcquireStagedAttempt, Grant, aux
  <2> QED
    BY <1>1, <2>2, <2>3, DaemonCalls, CallsKeepClaim
<1>9. ASSUME TransitionOwned(h, "acquiring", generation, request[h].token, p)
      PROVE  LedgerStep
  <2>1. request[h].token \in 1..minted
    BY <1>1, <1>9, OwnedTokens DEF TransitionOwned
  <2>2. \E t \in 1..minted : OwnedCall(h, t, p)
    BY <1>1, <1>9, <2>1 DEF OwnedCall
  <2>3. now' = now /\ recoveryClaim' = recoveryClaim /\ minted' = minted
    BY <1>9 DEF TransitionOwned, aux, env
  <2> QED
    BY <1>1, <2>2, <2>3, DaemonCalls, CallsKeepClaim
<1>10. At("reserve") /\ IsNext(h) => acquires[h] # Null
  BY DEF ScaleSetInv, LaneSound, PlaceSound, ReservingSound, Reserving, At
<1> QED
  BY <1>2, <1>3, <1>4, <1>5, <1>6, <1>7, <1>8, <1>9, <1>10
     DEF StageRotation, StageAcquire, Reserve, MovePermit, ObserveAcquired, p

-----------------------------------------------------------------------------
(* What is left alone *)

\* The ledger's counters only grow.
Onward ==
    /\ minted \in Nat /\ minted' \in Nat /\ minted <= minted'
    /\ generation \in Nat /\ generation' \in Nat /\ generation <= generation'

KeptRows(h) ==
    /\ request'[h] = request[h] /\ acquires'[h] = acquires[h]
    /\ releases'[h] = releases[h] /\ rotations'[h] = rotations[h]

\* h's permit stays with its attempt.
KeptPermit(h) ==
    /\ Held(h)' <=> Held(h)
    /\ Held(h) => /\ permits'[h].token = permits[h].token
                  /\ permits'[h].pid \in Pids /\ permits'[h].state \in LaneStates

LEMMA RowFacts ==
    ASSUME StoresTypeOK, NEW h \in Holders
    PROVE  /\ request[h] # Null => /\ request[h] \in RequestRow
                                   /\ request[h].state \in ActiveStates \cup {"eligible"}
                                   /\ request[h].token \in Token \cup {Null}
                                   /\ request[h].gen \in Nat /\ request[h].seq \in Nat
           /\ acquires[h] # Null => /\ acquires[h].target \in Token
                                    /\ acquires[h].prev \in Token \cup {Null}
           /\ releases[h] # Null => /\ releases[h].token \in Token /\ releases[h].batch \in Nat
           /\ rotations[h] # Null => /\ rotations[h].old \in Token /\ rotations[h].new \in Token
                                     /\ rotations[h].pid \in Pids
  BY DEF StoresTypeOK, RequestRow, AcquireRow, ReleaseRow, RotationRow

LEMMA BatchFacts ==
    ASSUME StoresTypeOK
    PROVE  /\ DOMAIN batches = 1..Len(batches) /\ Len(batches) \in Nat
           /\ \A b \in DOMAIN batches :
                 /\ batches[b] \in BatchRow /\ batches[b].state \in BatchStates
                 /\ Members(b) \in SUBSET Holders
                 /\ batches[b].tokens \in [Members(b) -> Token]
<1>1. /\ DOMAIN batches = 1..Len(batches) /\ Len(batches) \in Nat
      /\ \A b \in DOMAIN batches : batches[b] \in BatchRow
  BY DEF StoresTypeOK
<1> QED
  BY <1>1 DEF BatchRow, Members

\* An update of one batch's state
LEMMA BatchMoves ==
    ASSUME StoresTypeOK, NEW b \in DOMAIN batches, NEW s \in BatchStates,
           batches' = [batches EXCEPT ![b].state = s]
    PROVE  /\ batches' \in Seq(BatchRow) /\ DOMAIN batches' = DOMAIN batches
           /\ Len(batches') = Len(batches)
           /\ \A c \in DOMAIN batches :
                 /\ batches'[c].tokens = batches[c].tokens
                 /\ batches'[c].state = IF c = b THEN s ELSE batches[c].state
<1> DEFINE row == [batches[b] EXCEPT !.state = s]
<1>1. batches \in Seq(BatchRow) /\ b \in 1..Len(batches) /\ batches[b] \in BatchRow
  BY BatchFacts DEF StoresTypeOK
<1>2. row \in BatchRow /\ row.state = s /\ row.tokens = batches[b].tokens
  BY <1>1 DEF BatchRow
<1>3. batches' = [batches EXCEPT ![b] = row]
  BY <1>1
<1> HIDE DEF row
<1>4. batches' \in Seq(BatchRow) /\ DOMAIN batches' = DOMAIN batches /\ Len(batches') = Len(batches)
  BY <1>1, <1>2, <1>3
<1>5. \A c \in DOMAIN batches : batches'[c] = IF c = b THEN row ELSE batches[c]
  BY <1>1, <1>3
<1> QED
  BY <1>2, <1>4, <1>5

\* The batches that named a request still do, and those that stood open do,
\* but for the one that a step resolves.
LEMMA BatchesMoved ==
    ASSUME StoresTypeOK, NEW b \in DOMAIN batches, NEW s \in BatchStates,
           batches' = [batches EXCEPT ![b].state = s], NEW h \in Holders
    PROVE  /\ Naming(h)' = Naming(h)
           /\ \A c \in DOMAIN batches : Members(c)' = Members(c)
           /\ s # "resolved" \/ h \notin Members(b) =>
                 (InBatch(h) /\ request'[h] = request[h] => InBatch(h)')
  BY BatchMoves DEF Naming, Members, InBatch, Open

LEMMA DurableKept ==
    ASSUME NEW h \in Holders, Durable(h), KeptRows(h), KeptPermit(h), Onward, StoresTypeOK,
           h \in assigned' <=> h \in assigned, Naming(h)' = Naming(h),
           Intended(h) \/ Uncertain(h) => InBatch(h)'
    PROVE  Durable(h)'
<1>1. /\ request[h] # Null => request[h].gen \in Nat
      /\ acquires[h] # Null => acquires[h].target \in Nat
      /\ rotations[h] # Null => rotations[h].new \in Nat
  BY RowFacts DEF Token
<1>2. /\ Intended(h)' = Intended(h) /\ Uncertain(h)' = Uncertain(h)
      /\ Staged(h)' = Staged(h)
  BY DEF Intended, Uncertain, Staged, KeptRows
<1>3. RotationSound(h)'
  BY <1>1 DEF Durable, RotationSound, KeptRows, KeptPermit, Onward
<1>4. Held(h) => Named(h)'
  BY DEF Durable, Named, KeptRows, KeptPermit
<1> QED
  BY <1>1, <1>2, <1>3, <1>4 DEF Durable, KeptRows, KeptPermit, Onward

\* The stores as they are, and every permit with its attempt
LEMMA StoresKept ==
    ASSUME StoresTypeOK, \A h \in Holders : Durable(h), ReleasesSound, Onward,
           UNCHANGED <<stores, assigned>>, \A h \in Holders : KeptPermit(h)
    PROVE  /\ StoresTypeOK' /\ \A h \in Holders : Durable(h)'
           /\ ReleasesSound'
<1>1. /\ request' = request /\ acquires' = acquires /\ releases' = releases
      /\ rotations' = rotations /\ batches' = batches /\ assigned' = assigned
  BY DEF stores
<1>2. StoresTypeOK' /\ ReleasesSound'
  BY <1>1 DEF StoresTypeOK, ReleasesSound, Members
<1>3. ASSUME NEW h \in Holders PROVE Durable(h)'
  <2>1. Naming(h)' = Naming(h) /\ InBatch(h)' = InBatch(h)
    BY <1>1 DEF Naming, InBatch, Members, Open
  <2>2. Intended(h) \/ Uncertain(h) => InBatch(h)'
    BY <2>1 DEF Durable
  <2>3. KeptRows(h)
    BY <1>1 DEF KeptRows
  <2> QED
    BY <1>1, <2>1, <2>2, <2>3, DurableKept
<1> QED
  BY <1>2, <1>3

\* A step that leaves the whole ledger alone
LEMMA LedgerKept ==
    ASSUME ScaleSetInv, UNCHANGED ledgerVars
    PROVE  /\ Onward /\ \A h \in Holders : KeptPermit(h)
           /\ permits' = permits /\ generation' = generation /\ minted' = minted
           /\ recoveryClaim' = recoveryClaim /\ alive' = alive
  BY DEF ScaleSetInv, LedgerSound, LaneSound, TypeOK, ledgerVars, meta, aux, env, Onward, KeptPermit,
         Durable, Held

-----------------------------------------------------------------------------
(* What each place asks for *)

LEMMA ReachNowhere ==
    ASSUME adapter' = Null
    PROVE  PlaceSound'
  BY DEF PlaceSound, StagesThere, IntentsThere, StartupSound, ReservingSound, BatchOfPass,
         SendingSound, MissingSound, AskingSound

LEMMA ReachStart ==
    ASSUME adapter'.pc \in {"configure", "epoch"}, adapter'.todo = {}
    PROVE  PlaceSound'
  BY DEF PlaceSound, StagesThere, IntentsThere, StartupSound, ReservingSound, BatchOfPass,
         SendingSound, MissingSound, AskingSound, Recovering, Reserving, Sending, Asking

LEMMA ReachRecovery ==
    ASSUME adapter'.pc \in {"attest", "claim", "releases", "acquisitions"}, adapter'.todo = {},
           OldIntents',
           adapter'.pc \in {"releases", "acquisitions"} => recoveryClaim' # Null
    PROVE  PlaceSound'
  BY DEF PlaceSound, StagesThere, IntentsThere, StartupSound, ReservingSound, BatchOfPass,
         SendingSound, MissingSound, AskingSound, Recovering, Reserving, Sending, Asking

LEMMA ReachRotations ==
    ASSUME adapter'.pc = "rotations", adapter'.todo = {}, OldIntents', recoveryClaim' # Null,
           NoReleases', \A h \in Holders : acquires'[h] = Null
    PROVE  PlaceSound'
  BY DEF PlaceSound, StagesThere, IntentsThere, StartupSound, ReservingSound, BatchOfPass,
         SendingSound, MissingSound, AskingSound, Recovering, Reserving, Sending, Asking

LEMMA ReachStartup ==
    ASSUME adapter'.pc = "startup", OldIntents', NoReleases', NoRotations', StartupSound'
    PROVE  PlaceSound'
  BY DEF PlaceSound, StagesThere, IntentsThere, ReservingSound, BatchOfPass,
         SendingSound, MissingSound, AskingSound, Recovering, Reserving, Sending, Asking

LEMMA ReachPolling ==
    ASSUME adapter'.pc = "polling", NoReleases', NoRotations', NoIntents'
    PROVE  PlaceSound'
  BY DEF PlaceSound, StagesThere, IntentsThere, StartupSound, ReservingSound, BatchOfPass,
         SendingSound, MissingSound, AskingSound, Recovering, Reserving, Sending, Asking

LEMMA ReachReserving ==
    ASSUME adapter'.pc \in Reserving, NoReleases', NoRotations', NoIntents', ReservingSound'
    PROVE  PlaceSound'
  BY DEF PlaceSound, StagesThere, IntentsThere, StartupSound, BatchOfPass,
         SendingSound, MissingSound, AskingSound, Recovering, Reserving, Sending, Asking

LEMMA ReachSending ==
    ASSUME adapter'.pc \in Sending, NoReleases', NoRotations', IntentsThere', BatchOfPass',
           SendingSound'
    PROVE  PlaceSound'
  BY DEF PlaceSound, StagesThere, StartupSound, ReservingSound,
         MissingSound, AskingSound, Recovering, Reserving, Sending, Asking

LEMMA ReachMissing ==
    ASSUME adapter'.pc = "missing", NoRotations', IntentsThere', BatchOfPass', MissingSound'
    PROVE  PlaceSound'
  BY DEF PlaceSound, StagesThere, StartupSound, ReservingSound,
         SendingSound, AskingSound, Recovering, Reserving, Sending, Asking

LEMMA ReachAsking ==
    ASSUME adapter'.pc \in Asking, NoRotations', NoIntents', AskingSound',
           adapter'.pc = "resend" => NoReleases',
           \A h \in Holders : releases'[h] # Null => releases'[h].batch = 0
    PROVE  PlaceSound'
  BY DEF PlaceSound, StagesThere, IntentsThere, StartupSound, ReservingSound, BatchOfPass,
         SendingSound, MissingSound, Recovering, Reserving, Sending, Asking

\* What the invariant says at a place
LEMMA AtRecovery ==
    ASSUME PlaceSound, adapter # Null, adapter.pc \in Recovering
    PROVE  /\ adapter.todo = {}
           /\ adapter.pc \notin {"configure", "epoch"} => OldIntents
           /\ adapter.pc \in {"releases", "acquisitions", "rotations"} => recoveryClaim # Null
           /\ adapter.pc = "rotations" => NoReleases /\ \A h \in Holders : acquires[h] = Null
  BY DEF PlaceSound, StagesThere, IntentsThere, StartupSound, Recovering

LEMMA AtPolling ==
    ASSUME PlaceSound, adapter # Null,
           adapter.pc \in {"polling"} \cup Reserving \cup {"resend", "unstage"}
    PROVE  NoReleases /\ NoRotations /\ NoIntents
  BY DEF PlaceSound, StagesThere, IntentsThere, Recovering, Reserving, Asking

LEMMA AtSending ==
    ASSUME PlaceSound, adapter # Null, adapter.pc \in Sending
    PROVE  NoReleases /\ NoRotations
  BY DEF PlaceSound, StagesThere, IntentsThere, Recovering, Sending

-----------------------------------------------------------------------------
(* The daemon moves *)

LEMMA IdleFacts ==
    ASSUME NEW p \in Pids, NEW pc \in Phases
    PROVE  /\ Idle(p, pc) \in Adapter /\ Idle(p, pc) # Null
           /\ Idle(p, pc).pid = p /\ Idle(p, pc).pc = pc
           /\ Idle(p, pc).todo = {} /\ Idle(p, pc).taken = {} /\ Idle(p, pc).batch = 0
           /\ Idle(p, pc).answer = {}
<1>1. Idle(p, pc) \in Adapter
  BY DEF Idle, Adapter
<1> QED
  BY <1>1, StoresAssumption DEF Idle

\* Nothing but the place changes.
LEMMA GotoFacts ==
    ASSUME adapter \in Adapter, NEW pc \in Phases, Goto(pc)
    PROVE  /\ adapter' \in Adapter /\ adapter' # Null
           /\ adapter'.pid = adapter.pid /\ adapter'.pc = pc
           /\ adapter'.todo = adapter.todo /\ adapter'.taken = adapter.taken
           /\ adapter'.batch = adapter.batch /\ adapter'.answer = adapter.answer
<1>1. adapter' \in Adapter
  BY DEF Goto, Adapter
<1> QED
  BY <1>1, StoresAssumption DEF Goto, Adapter

LEMMA PollFacts ==
    ASSUME adapter \in Adapter, Poll
    PROVE  /\ adapter' \in Adapter /\ adapter' # Null
           /\ adapter'.pid = adapter.pid /\ adapter'.pc = "polling" /\ adapter'.batch = 0
<1>1. adapter.pid \in Pids /\ "polling" \in Phases
  BY DEF Adapter, Phases
<1> QED
  BY <1>1, IdleFacts DEF Poll

\* The daemon keeps its pid, and no batch goes away.
LEMMA AdapterKept ==
    ASSUME AdapterTypeOK, StoresTypeOK, adapter # Null, adapter' \in Adapter,
           adapter'.pid = adapter.pid, alive' = alive,
           adapter'.batch \in {adapter.batch, 0}, Len(batches') = Len(batches)
    PROVE  AdapterTypeOK'
  BY BatchFacts DEF AdapterTypeOK, Adapter

\* What a step uses of the invariant
LEMMA Here ==
    ASSUME ScaleSetInv, adapter # Null
    PROVE  /\ StoresTypeOK /\ AdapterTypeOK /\ ReleasesSound /\ PlaceSound
           /\ \A h \in Holders : Durable(h)
           /\ TypeOK /\ TokensFenceAttempts
           /\ generation \in Nat /\ minted \in Nat
           /\ adapter \in Adapter /\ adapter.pid \in alive /\ adapter.pid \in Pids
           /\ adapter.todo \subseteq Holders /\ adapter.taken \subseteq Holders
           /\ adapter.answer \subseteq Holders /\ adapter.batch \in Nat
  BY DaemonFacts DEF ScaleSetInv, LedgerSound, LaneSound, TypeOK

-----------------------------------------------------------------------------
(* The daemon starts, dies and recovers *)

LEMMA StartSound ==
    ASSUME ScaleSetInv, NEW p \in Pids, StartDaemon(p)
    PROVE  LaneSound'
<1>1. /\ permits' = permits /\ minted' = minted /\ generation' = generation
      /\ alive' = alive \cup {p} /\ adapter' = Idle(p, "configure")
      /\ UNCHANGED <<stores, assigned>>
  BY DEF StartDaemon, StartProcess, meta
<1>2. /\ StoresTypeOK /\ ReleasesSound /\ minted \in Nat /\ generation \in Nat
      /\ \A h \in Holders : Durable(h)
  BY DEF ScaleSetInv, LedgerSound, LaneSound, TypeOK
<1>3. Onward /\ \A h \in Holders : KeptPermit(h)
  BY <1>1, <1>2 DEF Onward, KeptPermit, Held, Durable
<1>4. StoresTypeOK' /\ (\A h \in Holders : Durable(h)') /\ ReleasesSound'
  BY <1>1, <1>2, <1>3, StoresKept
<1>5. /\ adapter' \in Adapter /\ adapter'.pid = p /\ adapter'.pc = "configure"
      /\ adapter'.todo = {} /\ adapter'.batch = 0
  BY <1>1, IdleFacts DEF Phases
<1>6. Len(batches') \in Nat
  BY <1>1, <1>2, BatchFacts DEF stores
<1>7. AdapterTypeOK'
  BY <1>1, <1>5, <1>6 DEF AdapterTypeOK
<1>8. PlaceSound'
  BY <1>5, ReachStart
<1> QED
  BY <1>4, <1>7, <1>8 DEF LaneSound

LEMMA DeathSound ==
    ASSUME ScaleSetInv, DaemonDies
    PROVE  LaneSound'
<1>1. /\ permits' = permits /\ minted' = minted /\ generation' = generation
      /\ adapter' = Null /\ UNCHANGED <<stores, assigned>>
  BY DEF DaemonDies, CrashProcess, meta
<1>2. /\ StoresTypeOK /\ ReleasesSound /\ minted \in Nat /\ generation \in Nat
      /\ \A h \in Holders : Durable(h)
  BY DEF ScaleSetInv, LedgerSound, LaneSound, TypeOK
<1>3. Onward /\ \A h \in Holders : KeptPermit(h)
  BY <1>1, <1>2 DEF Onward, KeptPermit, Held, Durable
<1>4. StoresTypeOK' /\ (\A h \in Holders : Durable(h)') /\ ReleasesSound'
  BY <1>1, <1>2, <1>3, StoresKept
<1>5. AdapterTypeOK' /\ PlaceSound'
  BY <1>1, ReachNowhere DEF AdapterTypeOK
<1> QED
  BY <1>4, <1>5 DEF LaneSound

\* A step that keeps the stores: what is left is where it leads.
LEMMA WithStoresKept ==
    ASSUME ScaleSetInv, adapter # Null, Onward, \A h \in Holders : KeptPermit(h),
           UNCHANGED <<stores, assigned>>, adapter' \in Adapter, adapter'.pid = adapter.pid,
           alive' = alive, adapter'.batch \in {adapter.batch, 0}, PlaceSound'
    PROVE  LaneSound'
<1>1. StoresTypeOK' /\ (\A h \in Holders : Durable(h)') /\ ReleasesSound'
  BY Here, StoresKept
<1>2. Len(batches') = Len(batches)
  BY DEF stores
<1>3. AdapterTypeOK'
  BY <1>2, Here, AdapterKept
<1> QED
  BY <1>1, <1>3 DEF LaneSound

\* Intents and stages are in the stores.
LEMMA StagesKept ==
    ASSUME UNCHANGED stores
    PROVE  /\ NoReleases' = NoReleases /\ NoRotations' = NoRotations
           /\ NoIntents' = NoIntents
           /\ generation' = generation => OldIntents' = OldIntents
  BY DEF stores, NoReleases, NoRotations, NoIntents, OldIntents, Intended

LEMMA ReconcileKeepsAttempts ==
    ASSUME ScaleSetInv, NEW seen, Reconcile(seen)
    PROVE  /\ Onward /\ \A h \in Holders : KeptPermit(h)
           /\ alive' = alive /\ generation' = generation
<1>1. TypeOK /\ \A h \in Holders : Durable(h)
  BY DEF ScaleSetInv, LedgerSound, LaneSound
<1>2. /\ minted' = minted /\ generation' = generation /\ alive' = alive
      /\ permits' = [h \in Holders |->
           IF h \in Lost(DOMAIN seen)
           THEN [permits[h] EXCEPT !.state = "uncertain", !.gen = generation]
           ELSE permits[h]]
  BY DEF Reconcile, env
<1>3. ASSUME NEW h \in Holders PROVE KeptPermit(h)
  <2>1. CASE h \in Lost(DOMAIN seen)
    <3> DEFINE row == [permits[h] EXCEPT !.state = "uncertain", !.gen = generation]
    <3>1. Held(h) /\ permits[h] \in PermitRow
      BY <1>1, <2>1 DEF Lost, HeldSet, TypeOK, Held
    <3>2. row \in PermitRow
      BY <1>1, <3>1 DEF TypeOK, PermitRow, PermitStates
    <3>3. row.token = permits[h].token /\ row.pid = permits[h].pid /\ row.state = "uncertain"
      BY <3>1 DEF PermitRow
    <3>4. permits'[h] = row
      BY <1>2, <2>1
    <3> HIDE DEF row
    <3> QED
      BY <1>1, <3>1, <3>2, <3>3, <3>4, NullAssumption DEF KeptPermit, Held, Durable, LaneStates
  <2>2. CASE h \notin Lost(DOMAIN seen)
    BY <1>1, <1>2, <2>2 DEF KeptPermit, Held, Durable
  <2> QED
    BY <2>1, <2>2
<1>4. minted \in Nat /\ generation \in Nat /\ minted' = minted /\ generation' = generation
  BY <1>1, <1>2 DEF TypeOK
<1>5. Onward
  BY <1>4 DEF Onward
<1> QED
  BY <1>2, <1>3, <1>5

LEMMA ConfigureSound ==
    ASSUME ScaleSetInv, ConfigureLedger
    PROVE  LaneSound'
<1>1. /\ adapter # Null /\ adapter.pc = "configure" /\ Goto("epoch")
      /\ UNCHANGED <<stores, assigned>>
      /\ permits' = permits /\ minted' = minted /\ generation' = generation /\ alive' = alive
  BY DEF ConfigureLedger, At, SetMaxJobs, env
<1>2. Onward /\ \A h \in Holders : KeptPermit(h)
  BY <1>1, Here DEF Onward, KeptPermit, Held, Durable
<1>3. /\ adapter' \in Adapter /\ adapter'.pid = adapter.pid /\ adapter'.pc = "epoch"
      /\ adapter'.todo = adapter.todo /\ adapter'.batch = adapter.batch
  BY <1>1, Here, GotoFacts DEF Phases
<1>4. PlaceSound'
  BY <1>1, <1>3, Here, AtRecovery, ReachStart DEF Recovering
<1> QED
  BY <1>1, <1>2, <1>3, <1>4, WithStoresKept

LEMMA OpenEpochSound ==
    ASSUME ScaleSetInv, OpenEpoch
    PROVE  LaneSound'
<1>1. /\ adapter # Null /\ adapter.pc = "epoch" /\ Goto("attest")
      /\ UNCHANGED <<stores, assigned>>
      /\ permits' = permits /\ minted' = minted /\ generation' = generation + 1 /\ alive' = alive
  BY DEF OpenEpoch, At, BeginEpoch, env
<1>2. Onward /\ \A h \in Holders : KeptPermit(h)
  BY <1>1, Here DEF Onward, KeptPermit, Held, Durable
<1>3. /\ adapter' \in Adapter /\ adapter'.pid = adapter.pid /\ adapter'.pc = "attest"
      /\ adapter'.todo = adapter.todo /\ adapter'.batch = adapter.batch
  BY <1>1, Here, GotoFacts DEF Phases
<1>4. OldIntents'
  <2>1. \A h \in Holders : request[h] # Null => request[h].gen \in Nat /\ request[h].gen <= generation
    BY <1>1, Here, RowFacts DEF Durable
  <2> QED
    BY <1>1, <2>1, Here DEF OldIntents, Intended, stores
<1>5. PlaceSound'
  BY <1>1, <1>3, <1>4, Here, AtRecovery, ReachRecovery DEF Recovering
<1> QED
  BY <1>1, <1>2, <1>3, <1>5, WithStoresKept

LEMMA AttestSound ==
    ASSUME ScaleSetInv, AttestLedger
    PROVE  LaneSound'
<1>1. adapter # Null /\ adapter.pc = "attest" /\ UNCHANGED <<stores, assigned>>
  BY DEF AttestLedger, At
<1>2. adapter.todo = {} /\ OldIntents
  BY <1>1, Here, AtRecovery DEF Recovering
<1>3. CASE Reconcile(Observed) /\ Goto("claim")
  <2>1. /\ Onward /\ \A h \in Holders : KeptPermit(h)
        /\ alive' = alive /\ generation' = generation
    BY <1>3, ReconcileKeepsAttempts
  <2>2. /\ adapter' \in Adapter /\ adapter'.pid = adapter.pid /\ adapter'.pc = "claim"
        /\ adapter'.todo = adapter.todo /\ adapter'.batch = adapter.batch
    BY <1>1, <1>3, Here, GotoFacts DEF Phases
  <2>3. PlaceSound'
    BY <1>1, <1>2, <2>1, <2>2, StagesKept, ReachRecovery
  <2> QED
    BY <1>1, <2>1, <2>2, <2>3, WithStoresKept
<1>4. CASE Goto("configure") /\ UNCHANGED ledgerVars
  <2>1. /\ Onward /\ (\A h \in Holders : KeptPermit(h)) /\ alive' = alive
    BY <1>4, LedgerKept
  <2>2. /\ adapter' \in Adapter /\ adapter'.pid = adapter.pid /\ adapter'.pc = "configure"
        /\ adapter'.todo = adapter.todo /\ adapter'.batch = adapter.batch
    BY <1>1, <1>4, Here, GotoFacts DEF Phases
  <2>3. PlaceSound'
    BY <1>2, <2>2, ReachStart
  <2> QED
    BY <1>1, <2>1, <2>2, <2>3, WithStoresKept
<1> QED
  BY <1>3, <1>4 DEF AttestLedger

LEMMA ClaimSound ==
    ASSUME ScaleSetInv, EnsureRecoveryClaim
    PROVE  LaneSound'
<1>1. adapter # Null /\ adapter.pc = "claim" /\ UNCHANGED <<stores, assigned>> /\ Goto("releases")
  BY DEF EnsureRecoveryClaim, At
<1>2. adapter.todo = {} /\ OldIntents
  BY <1>1, Here, AtRecovery DEF Recovering
<1>3. /\ permits' = permits /\ minted' \in {minted, minted + 1} /\ generation' = generation
      /\ alive' = alive /\ recoveryClaim' # Null
  <2>1. CASE UNCHANGED ledgerVars /\ recoveryClaim # Null
    BY <2>1 DEF ledgerVars, meta, aux, env
  <2>2. CASE ClaimScaleSetRecovery(adapter.pid)
    <3>1. permits' = permits /\ minted' \in {minted, minted + 1} /\ generation' = generation
          /\ alive' = alive
      BY <2>2 DEF ClaimScaleSetRecovery, meta
    <3>2. recoveryClaim' \in RecoveryClaim
      BY <1>1, <2>2, Here DEF ClaimScaleSetRecovery, TypeOK, RecoveryClaim, Token
    <3> QED
      BY <3>1, <3>2, NullAssumption
  <2> QED
    BY <2>1, <2>2 DEF EnsureRecoveryClaim
<1>4. Onward /\ \A h \in Holders : KeptPermit(h)
  BY <1>1, <1>3, Here DEF Onward, KeptPermit, Held, Durable
<1>5. /\ adapter' \in Adapter /\ adapter'.pid = adapter.pid /\ adapter'.pc = "releases"
      /\ adapter'.todo = adapter.todo /\ adapter'.batch = adapter.batch
  BY <1>1, Here, GotoFacts DEF Phases
<1>6. PlaceSound'
  BY <1>1, <1>2, <1>3, <1>5, StagesKept, ReachRecovery
<1> QED
  BY <1>1, <1>3, <1>4, <1>5, <1>6, WithStoresKept

LEMMA RecoveredSound ==
    ASSUME ScaleSetInv, ReleasesRecovered \/ AcquiresRecovered \/ RecoveryFails
    PROVE  LaneSound'
<1>1. /\ adapter # Null /\ UNCHANGED <<stores, assigned>> /\ UNCHANGED ledgerVars
      /\ adapter.pc \in {"releases", "acquisitions", "rotations"}
  BY DEF ReleasesRecovered, AcquiresRecovered, RecoveryFails, At
<1>2. /\ Onward /\ (\A h \in Holders : KeptPermit(h)) /\ alive' = alive
      /\ generation' = generation /\ recoveryClaim' = recoveryClaim
  BY <1>1, LedgerKept
<1>3. adapter.todo = {} /\ OldIntents /\ recoveryClaim # Null
  BY <1>1, Here, AtRecovery DEF Recovering
<1>4. CASE ReleasesRecovered
  <2>1. /\ adapter' \in Adapter /\ adapter'.pid = adapter.pid /\ adapter'.pc = "acquisitions"
        /\ adapter'.todo = adapter.todo /\ adapter'.batch = adapter.batch
    BY <1>1, <1>4, Here, GotoFacts DEF Phases, ReleasesRecovered
  <2>2. PlaceSound'
    BY <1>1, <1>2, <1>3, <2>1, StagesKept, ReachRecovery
  <2> QED
    BY <1>1, <1>2, <2>1, <2>2, WithStoresKept
<1>5. CASE AcquiresRecovered
  <2>1. /\ adapter' \in Adapter /\ adapter'.pid = adapter.pid /\ adapter'.pc = "rotations"
        /\ adapter'.todo = adapter.todo /\ adapter'.batch = adapter.batch
    BY <1>1, <1>5, Here, GotoFacts DEF Phases, AcquiresRecovered
  <2>2. NoReleases' /\ \A h \in Holders : acquires'[h] = Null
    BY <1>1, <1>5 DEF AcquiresRecovered, NoReleases, stores
  <2>3. PlaceSound'
    BY <1>1, <1>2, <1>3, <2>1, <2>2, StagesKept, ReachRotations
  <2> QED
    BY <1>1, <1>2, <2>1, <2>3, WithStoresKept
<1>6. CASE RecoveryFails
  <2>1. /\ adapter' \in Adapter /\ adapter'.pid = adapter.pid /\ adapter'.pc = "configure"
        /\ adapter'.todo = adapter.todo /\ adapter'.batch = adapter.batch
    BY <1>1, <1>6, Here, GotoFacts DEF Phases, RecoveryFails
  <2>2. PlaceSound'
    BY <1>3, <2>1, ReachStart
  <2> QED
    BY <1>1, <1>2, <2>1, <2>2, WithStoresKept
<1> QED
  BY <1>4, <1>5, <1>6

-----------------------------------------------------------------------------
(* Steps on one request *)

LEMMA OthersDurable ==
    ASSUME StoresTypeOK, \A k \in Holders : Durable(k), NEW h \in Holders, Onward,
           batches' = batches, assigned' = assigned,
           \A k \in Holders \ {h} : KeptRows(k) /\ KeptPermit(k)
    PROVE  \A k \in Holders \ {h} : Durable(k)'
<1>1. ASSUME NEW k \in Holders \ {h} PROVE Durable(k)'
  <2>1. Naming(k)' = Naming(k) /\ InBatch(k)' = InBatch(k)
    BY DEF Naming, InBatch, Members, Open, KeptRows
  <2>2. Intended(k) \/ Uncertain(k) => InBatch(k)'
    BY <2>1 DEF Durable
  <2> QED
    BY <2>1, <2>2, DurableKept
<1> QED
  BY <1>1

\* Releases outside any batch settle none.
LEMMA QuietReleases ==
    ASSUME \A h \in Holders : releases'[h] # Null => releases'[h].batch = 0
    PROVE  ReleasesSound'
  BY DEF ReleasesSound

\* Where a release may be met
LEMMA AtRelease ==
    ASSUME ScaleSetInv, adapter # Null, adapter.pc \in ReleasePhases, NEW h \in Holders,
           releases[h] # Null
    PROVE  adapter.pc \in {"releases", "acquisitions", "missing", "reanswered"}
  BY Here, AtPolling DEF ReleasePhases, NoReleases

LEMMA ReleasePermitSound ==
    ASSUME ScaleSetInv, NEW h \in Holders, ReleasePermit(h)
    PROVE  LaneSound'
<1>1. /\ adapter # Null /\ adapter.pc \in ReleasePhases /\ releases[h] # Null
      /\ UNCHANGED <<stores, assigned, adapter>>
      /\ ReleaseScaleSetStaged(h, releases[h].token, "eligible")
  BY DEF ReleasePermit
<1>2. /\ permits' = [permits EXCEPT ![h] = Null] /\ minted' = minted
      /\ generation' = generation /\ alive' = alive /\ recoveryClaim' = recoveryClaim
  BY <1>1 DEF ReleaseScaleSetStaged, meta, aux, env
<1>3. /\ request' = request /\ acquires' = acquires /\ releases' = releases
      /\ rotations' = rotations /\ batches' = batches /\ assigned' = assigned
      /\ adapter' = adapter
  BY <1>1 DEF stores
<1>4. /\ ~Held(h)' /\ \A k \in Holders \ {h} : permits'[k] = permits[k]
  BY <1>1, <1>2, Here DEF Held, TypeOK
<1>5. Onward
  BY <1>1, <1>2, Here DEF Onward
<1>6. \A k \in Holders \ {h} : KeptRows(k) /\ KeptPermit(k)
  BY <1>1, <1>3, <1>4, Here DEF KeptRows, KeptPermit, Held, Durable
<1>7. \A k \in Holders \ {h} : Durable(k)'
  BY <1>1, <1>3, <1>5, <1>6, Here, OthersDurable
<1>8. Durable(h)'
  <2>1. Durable(h)
    BY <1>1, Here
  <2>2. Naming(h)' = Naming(h) /\ InBatch(h)' = InBatch(h) /\ Staged(h)' = Staged(h)
    BY <1>3 DEF Naming, InBatch, Members, Open, Staged
  <2>3. rotations[h] = Null
    BY <1>1, <2>1 DEF Durable, RotationSound
  <2>4. RotationSound(h)'
    BY <1>3, <2>3 DEF RotationSound
  <2> QED
    BY <1>1, <1>2, <1>3, <1>4, <2>1, <2>2, <2>4 DEF Durable, Intended, Uncertain
<1>9. StoresTypeOK' /\ ReleasesSound'
  BY <1>1, <1>3, Here DEF StoresTypeOK, ReleasesSound, Members
<1>10. AdapterTypeOK'
  BY <1>1, <1>2, <1>3, Here DEF AdapterTypeOK
<1>11. PlaceSound'
  <2>1. adapter.pc \in {"releases", "acquisitions", "missing", "reanswered"} /\ PlaceSound
    BY <1>1, AtRelease, Here
  <2>2. CASE adapter.pc \in {"releases", "acquisitions"}
    BY <1>1, <1>2, <1>3, <2>1, <2>2, StagesKept, AtRecovery, ReachRecovery DEF Recovering
  <2>3. CASE adapter.pc = "missing"
    <3>1. NoRotations' /\ IntentsThere' /\ BatchOfPass' /\ MissingSound'
      BY <1>1, <1>2, <1>3, <2>1, <2>3
         DEF PlaceSound, StagesThere, Recovering, NoRotations, IntentsThere, BatchOfPass, Members,
             MissingSound, Intended, OldIntents, NoIntents
    <3> QED
      BY <1>3, <2>3, <3>1, ReachMissing
  <2>4. CASE adapter.pc = "reanswered"
    <3>1. /\ NoRotations' /\ NoIntents' /\ AskingSound'
          /\ \A k \in Holders : releases'[k] # Null => releases'[k].batch = 0
      BY <1>1, <1>2, <1>3, <2>1, <2>4
         DEF PlaceSound, StagesThere, Recovering, NoRotations, IntentsThere, Members,
             AskingSound, Asking, Intended, Uncertain, NoIntents
    <3> QED
      BY <1>3, <2>4, <3>1, ReachAsking DEF Asking
  <2> QED
    BY <2>1, <2>2, <2>3, <2>4
<1> QED
  BY <1>7, <1>8, <1>9, <1>10, <1>11 DEF LaneSound

LEMMA FinishReleaseSound ==
    ASSUME ScaleSetInv, NEW h \in Holders, FinishRelease(h)
    PROVE  LaneSound'
<1> DEFINE b == releases[h].batch
           row == IF request[h].state = "eligible" THEN request[h]
                  ELSE [request[h] EXCEPT !.state = "eligible", !.gen = generation]
<1>1. /\ adapter # Null /\ adapter.pc \in ReleasePhases /\ releases[h] # Null /\ ~Held(h)
      /\ request' = [request EXCEPT ![h] = row]
      /\ releases' = [releases EXCEPT ![h] = Null]
      /\ batches' = IF b # 0 /\ LastOfBatch(h)
                    THEN [batches EXCEPT ![b].state = "resolved"] ELSE batches
      /\ UNCHANGED ledgerVars /\ acquires' = acquires /\ rotations' = rotations
      /\ assigned' = assigned /\ adapter' = adapter
  BY DEF FinishRelease
<1>2. /\ Onward /\ (\A k \in Holders : KeptPermit(k)) /\ permits' = permits /\ alive' = alive
      /\ generation' = generation /\ recoveryClaim' = recoveryClaim
  BY <1>1, LedgerKept
<1>3. /\ StoresTypeOK /\ Durable(h) /\ generation \in Nat /\ ReleasesSound /\ PlaceSound
      /\ AdapterTypeOK
  BY <1>1, Here
<1>4. request[h] # Null
  BY <1>1, <1>3 DEF Durable, Staged
<1>5. /\ row \in RequestRow /\ row # Null /\ row.state = "eligible"
      /\ row.token = request[h].token /\ row.gen <= generation
  <2>1. CASE request[h].state = "eligible"
    BY <1>3, <1>4, <2>1, RowFacts DEF Durable
  <2>2. CASE request[h].state # "eligible"
    <3>1. request[h] \in RequestRow /\ "eligible" \in ActiveStates \cup {"eligible"}
      BY <1>3, <1>4, RowFacts
    <3>2. row = [request[h] EXCEPT !.state = "eligible", !.gen = generation]
      BY <2>2
    <3> HIDE DEF row
    <3>3. row \in RequestRow
      BY <1>3, <3>1, <3>2 DEF RequestRow
    <3>4. row.state = "eligible" /\ row.gen = generation /\ row.token = request[h].token
      BY <1>3, <3>1, <3>2 DEF RequestRow
    <3> QED
      BY <1>3, <3>3, <3>4, StoresAssumption
  <2> QED
    BY <2>1, <2>2
<1> HIDE DEF row
<1>6. /\ request'[h] = row /\ releases'[h] = Null
      /\ \A k \in Holders \ {h} : request'[k] = request[k] /\ releases'[k] = releases[k]
  BY <1>1, <1>3 DEF StoresTypeOK
<1>7. /\ b # 0 => b \in DOMAIN batches /\ h \in Members(b)
      /\ \A k \in Holders \ {h} : b # 0 /\ k \in Members(b) =>
            \/ releases[k] # Null /\ releases[k].batch = b
            \/ request[k].state \in {"acquired", "eligible"}
  BY <1>1, <1>3 DEF ReleasesSound
<1> HIDE DEF b
<1>8. /\ batches' \in Seq(BatchRow) /\ DOMAIN batches' = DOMAIN batches
      /\ Len(batches') = Len(batches)
      /\ \A c \in DOMAIN batches : Members(c)' = Members(c)
      /\ \A k \in Holders : Naming(k)' = Naming(k)
  <2>1. CASE b # 0 /\ LastOfBatch(h)
    BY <1>1, <1>3, <1>7, <2>1, BatchMoves, BatchesMoved DEF BatchStates
  <2>2. CASE ~(b # 0 /\ LastOfBatch(h))
    BY <1>1, <1>3, <2>2 DEF StoresTypeOK, Members, Naming
  <2> QED
    BY <2>1, <2>2
<1>9. ASSUME NEW k \in Holders \ {h} PROVE Durable(k)'
  <2>1. Durable(k)
    BY <1>1, Here
  <2>2. Intended(k) \/ Uncertain(k) => InBatch(k)'
    <3>1. SUFFICES ASSUME Intended(k) \/ Uncertain(k) PROVE InBatch(k)'
      OBVIOUS
    <3>2. InBatch(k)
      BY <2>1, <3>1 DEF Durable
    <3>3. CASE b # 0 /\ LastOfBatch(h)
      <4>1. k \notin Members(b)
        BY <1>7, <3>1, <3>3 DEF LastOfBatch, Intended, Uncertain, b
      <4> QED
        BY <1>1, <1>3, <1>6, <1>7, <3>2, <3>3, <4>1, BatchesMoved DEF BatchStates
    <3>4. CASE ~(b # 0 /\ LastOfBatch(h))
      BY <1>1, <1>6, <3>2, <3>4 DEF InBatch, Naming, Members, Open
    <3> QED
      BY <3>3, <3>4
  <2>3. KeptRows(k)
    BY <1>1, <1>6 DEF KeptRows
  <2> QED
    BY <1>1, <1>2, <1>3, <1>8, <2>1, <2>2, <2>3, DurableKept
<1>10. Durable(h)'
  <2>1. rotations[h] = Null /\ (h \notin assigned)
    BY <1>1, <1>3 DEF Durable, RotationSound
  <2>2. RotationSound(h)'
    BY <1>1, <2>1 DEF RotationSound
  <2>3. ~Intended(h)' /\ ~Uncertain(h)'
    BY <1>5, <1>6 DEF Intended, Uncertain
  <2>4. ~Held(h)'
    BY <1>1, <1>2 DEF Held
  <2> QED
    BY <1>1, <1>2, <1>3, <1>5, <1>6, <2>1, <2>2, <2>3, <2>4, LedgerKept DEF Durable
<1>11. StoresTypeOK'
  BY <1>1, <1>3, <1>5, <1>8 DEF StoresTypeOK
<1>12. ReleasesSound'
  BY <1>3, <1>5, <1>6, <1>8, BatchFacts DEF ReleasesSound
<1>13. AdapterTypeOK'
  BY <1>1, <1>2, <1>3, <1>8 DEF AdapterTypeOK
<1>14. /\ \A k \in Holders : Intended(k)' => k # h /\ Intended(k)
       /\ \A k \in Holders : Uncertain(k)' => k # h /\ Uncertain(k)
       /\ \A k \in Holders : request[k] # Null => request'[k] # Null
  BY <1>5, <1>6 DEF Intended, Uncertain
<1>15. PlaceSound'
  <2>1. adapter.pc \in {"releases", "acquisitions", "missing", "reanswered"}
    BY <1>1, AtRelease
  <2>2. CASE adapter.pc \in {"releases", "acquisitions"}
    <3>1. OldIntents /\ adapter.todo = {} /\ recoveryClaim # Null
      BY <1>1, <1>3, <2>2, AtRecovery DEF Recovering
    <3>2. OldIntents'
      BY <1>2, <1>6, <1>14, <3>1 DEF OldIntents
    <3> QED
      BY <1>1, <1>2, <2>2, <3>1, <3>2, ReachRecovery
  <2>3. CASE adapter.pc = "missing"
    <3>1. NoRotations /\ IntentsThere /\ BatchOfPass /\ MissingSound
      BY <1>1, <1>3, <2>3 DEF PlaceSound, StagesThere, Recovering
    <3>2. NoRotations'
      BY <1>1, <3>1 DEF NoRotations
    <3>3. IntentsThere'
      BY <1>1, <1>6, <1>14, <2>3, <3>1 DEF IntentsThere, Reserving, Asking
    <3>4. BatchOfPass'
      BY <1>1, <1>3, <1>8, <1>14, <2>3, <3>1, Here DEF BatchOfPass, Sending
    <3>5. MissingSound'
      BY <1>1, <1>5, <1>6, <2>3, <3>1, Here DEF MissingSound
    <3> QED
      BY <1>1, <2>3, <3>2, <3>3, <3>4, <3>5, ReachMissing
  <2>4. CASE adapter.pc = "reanswered"
    <3>1. /\ NoRotations /\ NoIntents /\ AskingSound
          /\ \A k \in Holders : releases[k] # Null => releases[k].batch = 0
      BY <1>1, <1>3, <2>4 DEF PlaceSound, StagesThere, Recovering, IntentsThere, Asking
    <3>2. NoRotations' /\ NoIntents'
      BY <1>1, <1>14, <3>1 DEF NoRotations, NoIntents
    <3>3. AskingSound'
      BY <1>1, <1>3, <1>8, <1>14, <2>4, <3>1, Here, BatchFacts DEF AskingSound, Asking
    <3> QED
      BY <1>1, <1>6, <2>4, <3>1, <3>2, <3>3, ReachAsking DEF Asking
  <2> QED
    BY <2>1, <2>2, <2>3, <2>4
<1> QED
  BY <1>9, <1>10, <1>11, <1>12, <1>13, <1>15 DEF LaneSound

\* A request in a new state of this epoch
LEMMA RestatedRow ==
    ASSUME StoresTypeOK, generation \in Nat, NEW h \in Holders, request[h] # Null,
           NEW s \in ActiveStates \cup {"eligible"},
           request' = [request EXCEPT ![h].state = s, ![h].gen = generation]
    PROVE  /\ request' \in [Holders -> RequestRow \cup {Null}]
           /\ request'[h] # Null /\ request'[h].state = s /\ request'[h].gen = generation
           /\ request'[h].token = request[h].token /\ request'[h].seq = request[h].seq
           /\ \A k \in Holders \ {h} : request'[k] = request[k]
<1>1. request[h] \in RequestRow /\ h \in DOMAIN request
      /\ request \in [Holders -> RequestRow \cup {Null}]
  BY RowFacts DEF StoresTypeOK
<1>2. request'[h] \in RequestRow
  BY <1>1 DEF RequestRow
<1>3. request'[h].state = s /\ request'[h].gen = generation
  BY <1>1 DEF RequestRow
<1>4. request'[h].token = request[h].token /\ request'[h].seq = request[h].seq
  BY <1>1 DEF RequestRow
<1>5. DOMAIN request' = Holders /\ \A k \in Holders \ {h} : request'[k] = request[k]
  BY <1>1
<1>6. request' = [k \in Holders |-> request'[k]]
  BY <1>1
<1>7. request' \in [Holders -> RequestRow \cup {Null}]
  BY <1>1, <1>2, <1>5, <1>6
<1> QED
  BY <1>2, <1>3, <1>4, <1>5, <1>7, StoresAssumption

\* It stays sound, if a doubt has its permit and its batch.
LEMMA RestatedSound ==
    ASSUME ScaleSetInv, adapter # Null, NEW h \in Holders, request[h] # Null,
           NEW s \in ActiveStates \cup {"eligible"},
           request' = [request EXCEPT ![h].state = s, ![h].gen = generation],
           acquires' = acquires, releases' = releases, rotations' = rotations,
           batches' = batches, assigned' = assigned, UNCHANGED ledgerVars,
           s = "uncertain" => Held(h),
           s \in {"acquire_intent", "uncertain"} => InBatch(h)
    PROVE  StoresTypeOK' /\ \A k \in Holders : Durable(k)'
<1>1. /\ StoresTypeOK /\ generation \in Nat /\ Durable(h) /\ minted \in Nat
  BY Here
<1>2. /\ request' \in [Holders -> RequestRow \cup {Null}]
      /\ request'[h] # Null /\ request'[h].state = s /\ request'[h].gen = generation
      /\ request'[h].token = request[h].token
      /\ \A k \in Holders \ {h} : request'[k] = request[k]
  BY <1>1, RestatedRow
<1>3. /\ Onward /\ (\A k \in Holders : KeptPermit(k)) /\ permits' = permits
      /\ generation' = generation /\ minted' = minted
  BY LedgerKept
<1>4. StoresTypeOK'
  BY <1>1, <1>2 DEF StoresTypeOK
<1>5. \A k \in Holders \ {h} : Durable(k)'
  <2>1. \A k \in Holders \ {h} : KeptRows(k) /\ KeptPermit(k)
    BY <1>2, <1>3 DEF KeptRows
  <2> QED
    BY <1>3, <2>1, Here, OthersDurable
<1>6. Durable(h)'
  <2>1. Naming(h)' = Naming(h) /\ InBatch(h)' = InBatch(h) /\ Staged(h)' = Staged(h)
    BY <1>2 DEF Naming, InBatch, Members, Open, Staged
  <2>2. RotationSound(h)' /\ (Held(h) => Named(h)') /\ Held(h)' = Held(h)
    BY <1>1, <1>2, <1>3 DEF Durable, RotationSound, Named, Held
  <2>3. /\ Intended(h)' => s = "acquire_intent"
        /\ Uncertain(h)' => s = "uncertain"
    BY <1>2 DEF Intended, Uncertain
  <2> QED
    BY <1>1, <1>2, <1>3, <2>1, <2>2, <2>3 DEF Durable
<1> QED
  BY <1>4, <1>5, <1>6

LEMMA RecoverAcquireSound ==
    ASSUME ScaleSetInv, NEW h \in Holders, RecoverAcquire(h)
    PROVE  LaneSound'
<1> DEFINE t == RecoveredToken(h)
           row == [request[h] EXCEPT !.token = t]
           release == IF MustRelease(h) THEN [token |-> acquires[h].target, batch |-> 0] ELSE Null
<1>1. /\ adapter # Null /\ adapter.pc = "acquisitions" /\ NoReleases /\ acquires[h] # Null
      /\ AcquireIsSound(h)
      /\ request' = [request EXCEPT ![h].token = t]
      /\ releases' = [releases EXCEPT ![h] = release]
      /\ acquires' = [acquires EXCEPT ![h] = Null]
      /\ UNCHANGED ledgerVars /\ rotations' = rotations /\ batches' = batches
      /\ assigned' = assigned /\ adapter' = adapter
  BY DEF RecoverAcquire, At
<1>2. /\ Onward /\ (\A k \in Holders : KeptPermit(k)) /\ permits' = permits /\ alive' = alive
      /\ generation' = generation /\ recoveryClaim' = recoveryClaim
  BY <1>1, LedgerKept
<1>3. /\ StoresTypeOK /\ Durable(h) /\ generation \in Nat /\ PlaceSound /\ AdapterTypeOK
  BY <1>1, Here
<1>4. request[h] # Null /\ request[h] \in RequestRow /\ acquires[h].target \in Token
  BY <1>1, <1>3, RowFacts DEF Durable, Staged
<1>5. /\ request[h].state = "granted"
      /\ Held(h) => Owns(h, acquires[h].target)
      /\ t = IF Held(h) THEN acquires[h].target ELSE request[h].token
  BY <1>1 DEF AcquireIsSound, RecoveredToken
<1> HIDE DEF t
<1>6. t \in Token \cup {Null} /\ (Held(h) => permits[h].token = t)
  BY <1>3, <1>4, <1>5, RowFacts DEF Owns
<1>7. row \in RequestRow /\ row # Null
  <2>1. row \in RequestRow
    BY <1>4, <1>6 DEF RequestRow
  <2> QED
    BY <2>1, StoresAssumption
<1>8. row.token = t /\ row.state = "granted" /\ row.gen = request[h].gen
  BY <1>4, <1>5 DEF RequestRow
<1>9. request' = [request EXCEPT ![h] = row]
  BY <1>1, <1>3, <1>4 DEF StoresTypeOK, RequestRow
<1> HIDE DEF row
<1>10. /\ release \in ReleaseRow \cup {Null}
       /\ release # Null => release.batch = 0 /\ h \notin assigned
  <2>1. CASE MustRelease(h)
    <3>1. release \in ReleaseRow /\ release.batch = 0
      BY <1>4, <2>1 DEF ReleaseRow
    <3>2. Naming(h) = {}
      BY <2>1 DEF MustRelease, BatchEvidence
    <3> QED
      BY <1>3, <3>1, <3>2 DEF Durable
  <2>2. CASE ~MustRelease(h)
    BY <2>2
  <2> QED
    BY <2>1, <2>2
<1> HIDE DEF release
<1>11. /\ request'[h] = row /\ releases'[h] = release /\ acquires'[h] = Null
       /\ \A k \in Holders \ {h} : KeptRows(k)
  BY <1>1, <1>3, <1>9 DEF StoresTypeOK, KeptRows
<1>12. StoresTypeOK'
  BY <1>1, <1>3, <1>7, <1>9, <1>10 DEF StoresTypeOK
<1>13. \A k \in Holders \ {h} : Durable(k)'
  BY <1>1, <1>2, <1>11, Here, OthersDurable
<1>14. Durable(h)'
  <2>1. Naming(h)' = Naming(h)
    BY <1>1 DEF Naming, Members
  <2>2. rotations[h] = Null
    BY <1>1, <1>3 DEF Durable, RotationSound
  <2>3. RotationSound(h)' /\ Held(h)' = Held(h)
    BY <1>1, <1>2, <2>2 DEF RotationSound, Held
  <2>4. ~Intended(h)' /\ ~Uncertain(h)'
    BY <1>8, <1>11 DEF Intended, Uncertain
  <2>5. Held(h) => Named(h)'
    BY <1>2, <1>6, <1>8, <1>11 DEF Named
  <2> QED
    BY <1>1, <1>2, <1>3, <1>4, <1>7, <1>8, <1>10, <1>11, <2>1, <2>3, <2>4, <2>5 DEF Durable
<1>15. ReleasesSound'
  BY <1>1, <1>10, <1>11, QuietReleases DEF NoReleases, KeptRows
<1>16. AdapterTypeOK'
  BY <1>1, <1>2, <1>3 DEF AdapterTypeOK
<1>17. PlaceSound'
  <2>1. OldIntents /\ adapter.todo = {} /\ recoveryClaim # Null
    BY <1>1, <1>3, AtRecovery DEF Recovering
  <2>2. OldIntents'
    BY <1>2, <1>8, <1>11, <2>1 DEF OldIntents, Intended, KeptRows
  <2> QED
    BY <1>1, <1>2, <2>1, <2>2, ReachRecovery
<1> QED
  BY <1>12, <1>13, <1>14, <1>15, <1>16, <1>17 DEF LaneSound

\* A step at the rotations keeps the place.
LEMMA StillRotating ==
    ASSUME ScaleSetInv, adapter # Null, adapter.pc = "rotations", adapter' = adapter,
           request' = request, releases' = releases, acquires' = acquires,
           generation' = generation, recoveryClaim' = recoveryClaim
    PROVE  PlaceSound'
<1>1. /\ adapter.todo = {} /\ OldIntents /\ recoveryClaim # Null /\ NoReleases
      /\ \A h \in Holders : acquires[h] = Null
  BY Here, AtRecovery DEF Recovering
<1>2. OldIntents' /\ NoReleases'
  BY <1>1 DEF OldIntents, Intended, NoReleases
<1> QED
  BY <1>1, <1>2, ReachRotations

LEMMA StageRotationSound ==
    ASSUME ScaleSetInv, NEW h \in Holders, StageRotation(h)
    PROVE  LaneSound'
<1> DEFINE stage == [old |-> request[h].token, new |-> minted + 1, pid |-> permits[h].pid]
<1>1. /\ adapter # Null /\ adapter.pc = "rotations" /\ rotations[h] = Null
      /\ Active(h) /\ Owns(h, request[h].token) /\ MintToken
      /\ rotations' = [rotations EXCEPT ![h] = stage]
      /\ request' = request /\ acquires' = acquires /\ releases' = releases
      /\ batches' = batches /\ assigned' = assigned /\ adapter' = adapter
  BY DEF StageRotation, At
<1>2. /\ permits' = permits /\ minted' = minted + 1 /\ generation' = generation
      /\ alive' = alive /\ recoveryClaim' = recoveryClaim
  BY <1>1 DEF MintToken, meta, aux
<1>3. /\ StoresTypeOK /\ Durable(h) /\ PlaceSound /\ AdapterTypeOK /\ ReleasesSound
      /\ TypeOK /\ TokensFenceAttempts /\ generation \in Nat /\ minted \in Nat
  BY <1>1, Here
<1>4. /\ Held(h) /\ permits[h].token = request[h].token /\ request[h].token \in Token
      /\ permits[h].pid \in Pids
  BY <1>1, <1>3, OwnedTokens DEF Owns, Durable
<1>5. stage \in RotationRow /\ stage # Null
  <2>1. stage \in RotationRow
    BY <1>3, <1>4 DEF RotationRow, Token
  <2> QED
    BY <2>1, StoresAssumption
<1>6. stage.old = request[h].token /\ stage.new = minted + 1
  OBVIOUS
<1> HIDE DEF stage
<1>7. rotations'[h] = stage /\ \A k \in Holders \ {h} : rotations'[k] = rotations[k]
  BY <1>1, <1>3 DEF StoresTypeOK
<1>8. StoresTypeOK'
  BY <1>1, <1>3, <1>5 DEF StoresTypeOK
<1>9. Onward /\ \A k \in Holders \ {h} : KeptRows(k) /\ KeptPermit(k)
  <2>1. Onward
    BY <1>2, <1>3 DEF Onward
  <2> QED
    BY <1>1, <1>2, <1>7, <2>1, Here DEF KeptRows, KeptPermit, Held, Durable
<1>10. \A k \in Holders \ {h} : Durable(k)'
  BY <1>1, <1>9, Here, OthersDurable
<1>11. Durable(h)'
  <2>1. Naming(h)' = Naming(h) /\ InBatch(h)' = InBatch(h) /\ Held(h)' = Held(h)
    BY <1>1, <1>2 DEF Naming, InBatch, Members, Open, Held
  <2>2. acquires[h] = Null /\ releases[h] = Null /\ request[h] # Null
    BY <1>1, <1>3, AtRecovery DEF Recovering, NoReleases, Active
  <2>3. RotationSound(h)' /\ Named(h)'
    BY <1>1, <1>2, <1>3, <1>4, <1>6, <1>7, <2>1, <2>2 DEF RotationSound, Named
  <2>4. Intended(h)' = Intended(h) /\ Uncertain(h)' = Uncertain(h)
    BY <1>1 DEF Intended, Uncertain
  <2> QED
    BY <1>1, <1>2, <1>3, <1>4, <2>1, <2>2, <2>3, <2>4 DEF Durable
<1>12. ReleasesSound' /\ AdapterTypeOK'
  BY <1>1, <1>2, <1>3 DEF ReleasesSound, Members, AdapterTypeOK
<1>13. PlaceSound'
  BY <1>1, <1>2, StillRotating
<1> QED
  BY <1>8, <1>10, <1>11, <1>12, <1>13 DEF LaneSound

LEMMA RotateAttemptSound ==
    ASSUME ScaleSetInv, NEW h \in Holders, RotateAttempt(h)
    PROVE  LaneSound'
<1> DEFINE was == [claim |-> recoveryClaim.token, pid |-> rotations[h].pid,
                   token |-> rotations[h].old]
           row == [permits[h] EXCEPT !.state = permits[h].state, !.gen = generation,
                      !.pid = adapter.pid, !.token = rotations[h].new, !.rotation = was]
<1>1. /\ adapter # Null /\ adapter.pc = "rotations" /\ rotations[h] # Null /\ Held(h)
      /\ RotateScaleSetAttempt(h, permits[h].state, generation, rotations[h].pid,
                               rotations[h].old, rotations[h].new,
                               recoveryClaim.token, adapter.pid)
      /\ request' = request /\ acquires' = acquires /\ releases' = releases
      /\ rotations' = rotations
      /\ batches' = batches /\ assigned' = assigned /\ adapter' = adapter
  BY DEF RotateAttempt, At, PendingRotations, stores
<1>2. /\ permits' = [permits EXCEPT ![h] = row] /\ minted' = minted
      /\ generation' = generation /\ alive' = alive /\ recoveryClaim' = recoveryClaim
  BY <1>1 DEF RotateScaleSetAttempt, meta, aux, env
<1>3. /\ StoresTypeOK /\ Durable(h) /\ PlaceSound /\ AdapterTypeOK /\ ReleasesSound
      /\ TypeOK /\ generation \in Nat /\ minted \in Nat /\ adapter.pid \in Pids
  BY <1>1, Here
<1>4. /\ recoveryClaim # Null /\ permits[h] \in PermitRow /\ rotations[h].old \in Token
      /\ rotations[h].new \in Token /\ rotations[h].pid \in Pids
  BY <1>1, <1>3, RowFacts, AtRecovery DEF Recovering, TypeOK, Held
<1>5. was \in Rotation
  BY <1>3, <1>4 DEF Rotation, TypeOK, RecoveryClaim
<1> HIDE DEF was
<1>6. row \in PermitRow /\ row # Null
  <2>1. permits[h].state \in PermitStates
    BY <1>4 DEF PermitRow
  <2>2. row \in PermitRow
    BY <1>3, <1>4, <1>5, <2>1, PermitRowUpdates
  <2> QED
    BY <2>2, NullAssumption
<1>7. row.token = rotations[h].new /\ row.pid = adapter.pid /\ row.state = permits[h].state
  BY <1>4 DEF PermitRow
<1> HIDE DEF row
<1>8. permits'[h] = row /\ \A k \in Holders \ {h} : permits'[k] = permits[k]
  BY <1>2, <1>3 DEF TypeOK
<1>9. Onward /\ \A k \in Holders \ {h} : KeptRows(k) /\ KeptPermit(k)
  <2>1. Onward
    BY <1>2, <1>3 DEF Onward
  <2> QED
    BY <1>1, <1>8, <2>1, Here DEF KeptRows, KeptPermit, Held, Durable
<1>10. \A k \in Holders \ {h} : Durable(k)'
  BY <1>1, <1>9, Here, OthersDurable
<1>11. Durable(h)'
  <2>1. Naming(h)' = Naming(h) /\ InBatch(h)' = InBatch(h)
    BY <1>1 DEF Naming, InBatch, Members, Open
  <2>2. Held(h)' /\ permits'[h].pid \in Pids /\ permits'[h].state \in LaneStates
    BY <1>1, <1>3, <1>6, <1>7, <1>8 DEF Held, Durable
  <2>3. RotationSound(h)' /\ Named(h)'
    BY <1>1, <1>2, <1>3, <1>7, <1>8, <2>2 DEF RotationSound, Named, Durable
  <2>4. Intended(h)' = Intended(h) /\ Uncertain(h)' = Uncertain(h)
    BY <1>1 DEF Intended, Uncertain
  <2> QED
    BY <1>1, <1>2, <1>3, <2>1, <2>2, <2>3, <2>4 DEF Durable
<1>12. StoresTypeOK' /\ ReleasesSound' /\ AdapterTypeOK'
  BY <1>1, <1>2, <1>3 DEF StoresTypeOK, ReleasesSound, Members, AdapterTypeOK
<1>13. PlaceSound'
  BY <1>1, <1>2, StillRotating
<1> QED
  BY <1>10, <1>11, <1>12, <1>13 DEF LaneSound

\* Rewriting every batch keeps their number.
LEMMA BatchesRewritten ==
    ASSUME StoresTypeOK, DOMAIN batches' = DOMAIN batches,
           batches' = [b \in DOMAIN batches |-> batches'[b]],
           \A b \in DOMAIN batches : batches'[b] \in BatchRow
    PROVE  batches' \in Seq(BatchRow) /\ Len(batches') = Len(batches)
<1>1. DOMAIN batches = 1..Len(batches) /\ Len(batches) \in Nat
  BY BatchFacts
<1>2. batches' \in [1..Len(batches) -> BatchRow]
  BY <1>1
<1>3. batches' \in Seq(BatchRow)
  BY <1>1, <1>2, SeqDef
<1>4. Len(batches') \in Nat /\ 1..Len(batches') = 1..Len(batches)
  BY <1>1, <1>3, LenProperties
<1> QED
  BY <1>1, <1>3, <1>4

\* finish_staged_attempt_rotations: rows and open batches agree on the new tokens.
LEMMA FinishRotationsSound ==
    ASSUME ScaleSetInv, FinishRotations
    PROVE  LaneSound'
<1>1. /\ adapter # Null /\ adapter.pc = "rotations" /\ PendingRotations = {}
      /\ BatchMembersAgree /\ Goto("startup") /\ UNCHANGED ledgerVars
      /\ request' = [h \in Holders |->
           IF rotations[h] # Null THEN [request[h] EXCEPT !.token = rotations[h].new]
           ELSE request[h]]
      /\ batches' = [b \in DOMAIN batches |->
           IF Open(b)
           THEN [batches[b] EXCEPT !.tokens = [h \in Members(b) |-> ProjectedToken(h)]]
           ELSE batches[b]]
      /\ rotations' = [h \in Holders |-> Null]
      /\ acquires' = acquires /\ releases' = releases /\ assigned' = assigned
  BY DEF FinishRotations, ScanEnded, At
<1>2. /\ Onward /\ permits' = permits /\ alive' = alive
      /\ generation' = generation /\ recoveryClaim' = recoveryClaim /\ minted' = minted
  BY <1>1, LedgerKept
<1>3. /\ StoresTypeOK /\ (\A h \in Holders : Durable(h)) /\ generation \in Nat /\ PlaceSound
      /\ AdapterTypeOK /\ adapter \in Adapter
  BY <1>1, Here
<1>4. /\ OldIntents /\ adapter.todo = {} /\ NoReleases
      /\ \A h \in Holders : acquires[h] = Null
  BY <1>1, <1>3, AtRecovery DEF Recovering
<1>5. ASSUME NEW h \in Holders
      PROVE  /\ request'[h] \in RequestRow \cup {Null}
             /\ request'[h] = Null <=> request[h] = Null
             /\ request[h] # Null => /\ request'[h].state = request[h].state
                                     /\ request'[h].gen = request[h].gen
                                     /\ request'[h].token = ProjectedToken(h)
  <2>1. CASE rotations[h] = Null
    BY <1>1, <1>3, <2>1 DEF StoresTypeOK, ProjectedToken
  <2>2. CASE rotations[h] # Null
    <3> DEFINE row == [request[h] EXCEPT !.token = rotations[h].new]
    <3>1. request[h] # Null /\ request[h] \in RequestRow /\ rotations[h].new \in Token
      BY <1>3, <2>2, RowFacts DEF Durable, Staged
    <3>2. row \in RequestRow
      BY <3>1 DEF RequestRow
    <3>3. row.state = request[h].state /\ row.gen = request[h].gen /\ row.token = rotations[h].new
      BY <3>1 DEF RequestRow
    <3>4. request'[h] = row
      BY <1>1, <2>2
    <3> HIDE DEF row
    <3> QED
      BY <2>2, <3>1, <3>2, <3>3, <3>4, StoresAssumption DEF ProjectedToken
  <2> QED
    BY <2>1, <2>2
<1>6. ASSUME NEW b \in DOMAIN batches
      PROVE  /\ batches'[b] \in BatchRow /\ batches'[b].state = batches[b].state
             /\ DOMAIN batches'[b].tokens = Members(b)
             /\ Open(b) => \A h \in Members(b) : batches'[b].tokens[h] = ProjectedToken(h)
  <2>1. batches[b] \in BatchRow /\ Members(b) \in SUBSET Holders
        /\ batches[b].tokens \in [Members(b) -> Token]
    BY <1>3, BatchFacts
  <2>2. CASE Open(b)
    <3> DEFINE tokens == [h \in Members(b) |-> ProjectedToken(h)]
               row == [batches[b] EXCEPT !.tokens = tokens]
    <3>1. \A h \in Members(b) : ProjectedToken(h) \in Token
      <4>1. SUFFICES ASSUME NEW h \in Members(b) PROVE ProjectedToken(h) \in Token
        OBVIOUS
      <4>2. CASE rotations[h] # Null
        BY <1>3, <2>1, <4>2, RowFacts DEF ProjectedToken
      <4>3. CASE rotations[h] = Null
        BY <1>1, <2>1, <2>2, <4>3 DEF BatchMembersAgree
      <4> QED
        BY <4>2, <4>3
    <3>2. tokens \in [Members(b) -> Token]
      BY <3>1
    <3>3. DOMAIN tokens = Members(b) /\ \A h \in Members(b) : tokens[h] = ProjectedToken(h)
      OBVIOUS
    <3> HIDE DEF tokens
    <3>4. row \in BatchRow
      BY <2>1, <3>2 DEF BatchRow
    <3>5. row.state = batches[b].state /\ row.tokens = tokens
      BY <2>1 DEF BatchRow
    <3>6. batches'[b] = row
      BY <1>1, <2>2 DEF tokens
    <3> HIDE DEF row
    <3> QED
      BY <3>3, <3>4, <3>5, <3>6
  <2>3. CASE ~Open(b)
    BY <1>1, <2>1, <2>3 DEF Members
  <2> QED
    BY <2>2, <2>3
<1>7. DOMAIN batches' = DOMAIN batches /\ batches' = [b \in DOMAIN batches |-> batches'[b]]
  BY <1>1
<1>8. batches' \in Seq(BatchRow) /\ Len(batches') = Len(batches)
  BY <1>3, <1>6, <1>7, BatchesRewritten
<1>9. StoresTypeOK'
  <2>1. request' \in [Holders -> RequestRow \cup {Null}]
    BY <1>1, <1>5
  <2> QED
    BY <1>1, <1>3, <1>8, <2>1 DEF StoresTypeOK
<1>10. ASSUME NEW h \in Holders PROVE Durable(h)'
  <2>1. Durable(h) /\ acquires[h] = Null /\ releases[h] = Null /\ rotations'[h] = Null
    BY <1>1, <1>3, <1>4 DEF NoReleases
  <2>2. Naming(h)' = Naming(h)
    BY <1>6, <1>7 DEF Naming, Members
  <2>3. Intended(h)' = Intended(h) /\ Uncertain(h)' = Uncertain(h) /\ Held(h)' = Held(h)
    BY <1>2, <1>5 DEF Intended, Uncertain, Held
  <2>4. ~Staged(h)' /\ RotationSound(h)'
    BY <1>1, <2>1 DEF Staged, RotationSound
  <2>5. Held(h) => Named(h)'
    <3>1. SUFFICES ASSUME Held(h) PROVE permits[h].token = ProjectedToken(h) /\ request[h] # Null
      BY <1>2, <1>5 DEF Named
    <3>2. CASE rotations[h] # Null
      BY <1>1, <2>1, <3>1, <3>2 DEF PendingRotations, RotationDone, Owns, ProjectedToken, Durable
    <3>3. CASE rotations[h] = Null
      BY <2>1, <3>1, <3>3 DEF Durable, Named, ProjectedToken
    <3> QED
      BY <3>2, <3>3
  <2>6. InBatch(h) /\ request[h] # Null => InBatch(h)'
    <3>1. SUFFICES ASSUME InBatch(h), request[h] # Null PROVE InBatch(h)'
      OBVIOUS
    <3>2. PICK b \in DOMAIN batches : h \in Members(b) /\ Open(b)
      BY <3>1 DEF InBatch, Naming
    <3>3. batches'[b].tokens[h] = request'[h].token /\ batches'[b].state # "resolved"
      BY <1>5, <1>6, <3>1, <3>2 DEF Open
    <3>4. b \in Naming(h)'
      BY <2>2, <3>2 DEF Naming
    <3> QED
      BY <3>3, <3>4 DEF InBatch, Open
  <2>7. Intended(h) \/ Uncertain(h) => InBatch(h)'
    BY <2>1, <2>6 DEF Durable, Intended, Uncertain
  <2> QED
    BY <1>1, <1>2, <1>5, <2>1, <2>2, <2>3, <2>4, <2>5, <2>7 DEF Durable
<1>11. ReleasesSound'
  BY <1>1, <1>4, QuietReleases DEF NoReleases
<1>12. /\ adapter' \in Adapter /\ adapter'.pid = adapter.pid /\ adapter'.pc = "startup"
       /\ adapter'.todo = {} /\ adapter'.batch = adapter.batch
  BY <1>1, <1>3, <1>4, GotoFacts DEF Phases
<1>13. AdapterTypeOK'
  BY <1>1, <1>2, <1>3, <1>8, <1>12, AdapterKept
<1>14. PlaceSound'
  <2>1. OldIntents' /\ NoReleases' /\ NoRotations'
    BY <1>1, <1>2, <1>4, <1>5 DEF OldIntents, Intended, NoReleases, NoRotations
  <2>2. StartupSound'
    BY <1>12 DEF StartupSound, Recovering
  <2> QED
    BY <1>12, <2>1, <2>2, ReachStartup
<1> QED
  BY <1>9, <1>10, <1>11, <1>13, <1>14 DEF LaneSound

-----------------------------------------------------------------------------
(* The listener's startup *)

LEMMA AtStartup ==
    ASSUME PlaceSound, adapter # Null, adapter.pc = "startup"
    PROVE  /\ NoReleases /\ NoRotations /\ OldIntents
           /\ \A h \in adapter.todo :
                 /\ request[h] # Null /\ InBatch(h)
                 /\ request[h].state \in {"granted", "acquire_intent"} => Held(h)
  BY DEF PlaceSound, StagesThere, IntentsThere, StartupSound, Recovering

\* A change of one batch's state that loses no doubt
LEMMA BatchStateSound ==
    ASSUME ScaleSetInv, adapter # Null, NEW b \in DOMAIN batches, NEW s \in BatchStates,
           batches' = [batches EXCEPT ![b].state = s], request' = request,
           acquires' = acquires, releases' = releases, rotations' = rotations,
           assigned' = assigned, UNCHANGED ledgerVars, NoReleases,
           s = "resolved" => \A h \in Members(b) : ~Intended(h) /\ ~Uncertain(h)
    PROVE  /\ StoresTypeOK' /\ (\A h \in Holders : Durable(h)') /\ ReleasesSound'
           /\ Len(batches') = Len(batches)
<1>1. StoresTypeOK /\ \A h \in Holders : Durable(h)
  BY Here
<1>2. Onward /\ \A h \in Holders : KeptPermit(h)
  BY LedgerKept
<1>3. batches' \in Seq(BatchRow) /\ Len(batches') = Len(batches)
  BY <1>1, BatchMoves
<1>4. StoresTypeOK'
  BY <1>1, <1>3 DEF StoresTypeOK
<1>5. ASSUME NEW h \in Holders PROVE Durable(h)'
  <2>1. /\ Naming(h)' = Naming(h)
        /\ s # "resolved" \/ h \notin Members(b) => (InBatch(h) => InBatch(h)')
    BY <1>1, BatchesMoved
  <2>2. Intended(h) \/ Uncertain(h) => InBatch(h)'
    BY <1>1, <2>1 DEF Durable
  <2>3. KeptRows(h)
    BY DEF KeptRows
  <2> QED
    BY <1>1, <1>2, <2>1, <2>2, <2>3, DurableKept
<1>6. ReleasesSound'
  BY QuietReleases DEF NoReleases
<1> QED
  BY <1>3, <1>4, <1>5, <1>6

LEMMA OrphanBatchSound ==
    ASSUME ScaleSetInv, NEW b \in DOMAIN batches, OrphanBatch(b)
    PROVE  LaneSound'
<1>1. /\ adapter # Null /\ adapter.pc = "startup" /\ ScanAt(b)
      /\ batches[b].state = "intended"
      /\ batches' = [batches EXCEPT ![b].state = "uncertain"]
      /\ adapter' = [adapter EXCEPT !.todo = Members(b)]
      /\ UNCHANGED ledgerVars /\ request' = request /\ acquires' = acquires
      /\ releases' = releases /\ rotations' = rotations /\ assigned' = assigned
  BY DEF OrphanBatch, At
<1>2. /\ StoresTypeOK /\ PlaceSound /\ AdapterTypeOK /\ adapter \in Adapter
      /\ \A h \in Holders : Durable(h)
  BY <1>1, Here
<1>3. NoReleases /\ NoRotations /\ OldIntents
  BY <1>1, <1>2, AtStartup
<1>4. "uncertain" \in BatchStates /\ Members(b) \in SUBSET Holders
  BY <1>2, BatchFacts DEF BatchStates
<1>5. /\ StoresTypeOK' /\ (\A h \in Holders : Durable(h)') /\ ReleasesSound'
      /\ Len(batches') = Len(batches)
  BY <1>1, <1>3, <1>4, BatchStateSound
<1>6. adapter' \in Adapter
  BY <1>1, <1>2, <1>4 DEF Adapter
<1>7. /\ adapter'.pid = adapter.pid /\ adapter'.pc = "startup" /\ adapter'.batch = adapter.batch
      /\ adapter'.todo = Members(b)
  BY <1>1, <1>2 DEF Adapter
<1>8. generation' = generation /\ alive' = alive /\ permits' = permits
  BY <1>1, LedgerKept
<1>9. AdapterTypeOK'
  BY <1>1, <1>2, <1>5, <1>6, <1>7, <1>8, AdapterKept
<1>10. ASSUME NEW h \in Members(b)
       PROVE  /\ request[h] # Null /\ InBatch(h)'
              /\ request[h].state \in {"granted", "acquire_intent"} => Held(h)
  <2>1. h \in Holders /\ h \in Members(b) /\ Open(b)
    BY <1>1, <1>4 DEF Open
  <2>2. /\ batches[b].tokens[h] = request[h].token
        /\ IF Held(h) THEN Owns(h, request[h].token) ELSE ~Active(h)
    <3>1. b \in 1..b
      BY <1>2, BatchFacts
    <3>2. MembersValid(b)
      BY <1>1, <2>1, <3>1 DEF ScanAt
    <3> QED
      BY <2>1, <3>2 DEF MembersValid
  <2>3. request[h] # Null
    BY <1>2, <2>1 DEF Durable, Naming
  <2>4. /\ Naming(h)' = Naming(h)
        /\ "uncertain" # "resolved" \/ h \notin Members(b) => (InBatch(h) => InBatch(h)')
    BY <1>1, <1>2, <1>4, <2>1, BatchesMoved
  <2>5. InBatch(h)
    BY <2>1, <2>2 DEF InBatch, Naming
  <2> QED
    BY <2>2, <2>3, <2>4, <2>5 DEF Active, ActiveStates
<1>11. StartupSound'
  BY <1>1, <1>7, <1>8, <1>10 DEF StartupSound, Recovering, Held
<1>12. OldIntents' /\ NoReleases' /\ NoRotations'
  BY <1>1, <1>3, <1>8 DEF OldIntents, Intended, NoReleases, NoRotations
<1>13. PlaceSound'
  BY <1>7, <1>11, <1>12, ReachStartup
<1> QED
  BY <1>5, <1>9, <1>13 DEF LaneSound

\* The rest of a step that restates one request in the listener's startup
LEMMA StillStartingUp ==
    ASSUME ScaleSetInv, adapter # Null, adapter.pc = "startup",
           NEW h \in Holders, NEW s \in {"uncertain", "eligible"}, request[h] # Null,
           request' = [request EXCEPT ![h].state = s, ![h].gen = generation],
           acquires' = acquires, releases' = releases, rotations' = rotations,
           batches' = batches, assigned' = assigned, UNCHANGED ledgerVars,
           s = "uncertain" => Held(h) /\ InBatch(h),
           adapter' \in Adapter, adapter'.pid = adapter.pid, adapter'.pc = "startup",
           adapter'.batch = adapter.batch, adapter'.todo \subseteq adapter.todo \ {h}
    PROVE  LaneSound'
<1>1. /\ StoresTypeOK /\ PlaceSound /\ AdapterTypeOK /\ generation \in Nat
      /\ adapter.todo \subseteq Holders
  BY Here
<1>2. s \in ActiveStates \cup {"eligible"}
  BY DEF ActiveStates
<1>3. StoresTypeOK' /\ \A k \in Holders : Durable(k)'
  BY <1>2, RestatedSound
<1>4. /\ request'[h].state = s /\ request'[h] # Null
      /\ \A k \in Holders \ {h} : request'[k] = request[k]
  BY <1>1, <1>2, RestatedRow
<1>5. NoReleases /\ NoRotations /\ OldIntents
      /\ \A k \in adapter.todo :
                 /\ request[k] # Null /\ InBatch(k)
                 /\ request[k].state \in {"granted", "acquire_intent"} => Held(k)
  BY <1>1, AtStartup
<1>6. generation' = generation /\ alive' = alive /\ permits' = permits
  BY LedgerKept
<1>7. ReleasesSound'
  BY <1>5, QuietReleases DEF NoReleases
<1>8. AdapterTypeOK'
  BY <1>1, <1>6, AdapterKept
<1>9. OldIntents' /\ NoReleases' /\ NoRotations'
  BY <1>4, <1>5, <1>6 DEF OldIntents, Intended, NoReleases, NoRotations
<1>10. ASSUME NEW k \in adapter'.todo
       PROVE  /\ request'[k] # Null /\ InBatch(k)'
              /\ request'[k].state \in {"granted", "acquire_intent"} => Held(k)'
  <2>1. k \in Holders \ {h} /\ k \in adapter.todo
    BY <1>1
  <2> QED
    BY <1>4, <1>5, <1>6, <2>1 DEF InBatch, Naming, Members, Open, Held
<1>11. StartupSound'
  BY <1>10 DEF StartupSound, Recovering
<1>12. PlaceSound'
  BY <1>9, <1>11, ReachStartup
<1> QED
  BY <1>3, <1>7, <1>8, <1>12 DEF LaneSound

LEMMA OrphanMemberSound ==
    ASSUME ScaleSetInv, NEW h \in Holders, OrphanMember(h)
    PROVE  LaneSound'
<1>1. /\ adapter # Null /\ adapter.pc = "startup" /\ h \in adapter.todo
      /\ request' = [request EXCEPT ![h] =
           IF request[h].state \in {"granted", "acquire_intent"}
           THEN [request[h] EXCEPT !.state = "uncertain", !.gen = generation]
           ELSE request[h]]
      /\ adapter' = [adapter EXCEPT !.todo = adapter.todo \ {h}]
      /\ UNCHANGED ledgerVars /\ acquires' = acquires /\ releases' = releases
      /\ rotations' = rotations /\ batches' = batches /\ assigned' = assigned
  BY DEF OrphanMember, At
<1>2. /\ StoresTypeOK /\ PlaceSound /\ AdapterTypeOK /\ adapter \in Adapter
      /\ adapter.todo \subseteq Holders
  BY <1>1, Here
<1>3. /\ NoReleases /\ NoRotations /\ OldIntents
      /\ \A k \in adapter.todo :
                 /\ request[k] # Null /\ InBatch(k)
                 /\ request[k].state \in {"granted", "acquire_intent"} => Held(k)
  BY <1>1, <1>2, AtStartup
<1>4. adapter' \in Adapter
  BY <1>1, <1>2 DEF Adapter
<1>5. /\ adapter'.pid = adapter.pid /\ adapter'.pc = "startup" /\ adapter'.batch = adapter.batch
      /\ adapter'.todo = adapter.todo \ {h}
  BY <1>1, <1>2 DEF Adapter
<1>6. CASE request[h].state \in {"granted", "acquire_intent"}
  <2>1. request' = [request EXCEPT ![h].state = "uncertain", ![h].gen = generation]
    BY <1>1, <1>6
  <2> QED
    BY <1>1, <1>3, <1>4, <1>5, <1>6, <2>1, StillStartingUp
<1>7. CASE request[h].state \notin {"granted", "acquire_intent"}
  <2>1. request' = request
    BY <1>1, <1>2, <1>7 DEF StoresTypeOK
  <2>2. /\ Onward /\ (\A k \in Holders : KeptPermit(k)) /\ alive' = alive /\ permits' = permits
        /\ generation' = generation
    BY <1>1, LedgerKept
  <2>3. UNCHANGED <<stores, assigned>>
    BY <1>1, <2>1 DEF stores
  <2>4. StartupSound'
    BY <1>1, <1>3, <1>5, <2>1, <2>2
       DEF StartupSound, Recovering, InBatch, Naming, Members, Open, Held
  <2>5. PlaceSound'
    BY <1>3, <1>5, <2>2, <2>3, <2>4, StagesKept, ReachStartup
  <2> QED
    BY <1>1, <1>4, <1>5, <2>2, <2>3, <2>5, WithStoresKept
<1> QED
  BY <1>6, <1>7

LEMMA ResetStaleGrantSound ==
    ASSUME ScaleSetInv, NEW h \in Holders, ResetStaleGrant(h)
    PROVE  LaneSound'
<1>1. /\ adapter # Null /\ adapter.pc = "startup" /\ adapter.todo = {} /\ request[h] # Null
      /\ request' = [request EXCEPT ![h].state = "eligible", ![h].gen = generation]
      /\ UNCHANGED ledgerVars /\ acquires' = acquires /\ releases' = releases
      /\ rotations' = rotations /\ batches' = batches /\ assigned' = assigned
      /\ adapter' = adapter
  BY DEF ResetStaleGrant, At, BatchesOrphaned, StaleGrants
<1>2. adapter \in Adapter
  BY <1>1, Here
<1> QED
  BY <1>1, <1>2, StillStartingUp

LEMMA FinishStartupSound ==
    ASSUME ScaleSetInv, FinishStartup
    PROVE  LaneSound'
<1>1. /\ adapter # Null /\ adapter.pc = "startup" /\ StaleGrants = {} /\ Poll
      /\ UNCHANGED <<stores, assigned>> /\ UNCHANGED ledgerVars
  BY DEF FinishStartup, At
<1>2. /\ Onward /\ (\A k \in Holders : KeptPermit(k)) /\ alive' = alive
  BY <1>1, LedgerKept
<1>3. /\ adapter' \in Adapter /\ adapter'.pid = adapter.pid /\ adapter'.pc = "polling"
      /\ adapter'.batch = 0
  BY <1>1, Here, PollFacts
<1>4. NoReleases /\ NoRotations /\ OldIntents
  BY <1>1, Here, AtStartup
<1>5. NoIntents
  <2>1. SUFFICES ASSUME NEW h \in Holders, Intended(h) PROVE FALSE
    BY DEF NoIntents
  <2>2. request[h].gen < generation /\ request[h].gen \in Nat /\ generation \in Nat
    BY <1>1, <1>4, <2>1, Here, RowFacts DEF OldIntents, Intended
  <2>3. h \in StaleGrants
    BY <2>1, <2>2 DEF StaleGrants, Intended
  <2> QED
    BY <1>1, <2>3
<1>6. PlaceSound'
  BY <1>1, <1>3, <1>4, <1>5, StagesKept, ReachPolling
<1> QED
  BY <1>1, <1>2, <1>3, <1>6, WithStoresKept

-----------------------------------------------------------------------------
(* Polls: offers, grants and reservations *)

LEMMA SubmitOfferSound ==
    ASSUME ScaleSetInv, NEW h \in Holders, SubmitOffer(h)
    PROVE  LaneSound'
<1> DEFINE row == [state |-> "eligible", token |-> Null, gen |-> generation,
                   seq |-> Cardinality(Submitted) + 1]
<1>1. /\ adapter # Null /\ adapter.pc = "polling" /\ request[h] = Null
      /\ request' = [request EXCEPT ![h] = row]
      /\ UNCHANGED ledgerVars /\ acquires' = acquires /\ releases' = releases
      /\ rotations' = rotations /\ batches' = batches /\ assigned' = assigned
      /\ adapter' = adapter
  BY DEF SubmitOffer, At, Submitted
<1>2. /\ StoresTypeOK /\ PlaceSound /\ AdapterTypeOK /\ Durable(h) /\ generation \in Nat
      /\ \A k \in Holders : Durable(k)
  BY <1>1, Here
<1>3. Cardinality(Submitted) + 1 \in Nat
  <2>1. Submitted \in SUBSET Holders
    BY DEF Submitted
  <2>2. Cardinality(Submitted) \in Nat
    BY <2>1, FiniteHolders
  <2> QED
    BY <2>2
<1>4. row \in RequestRow /\ row # Null
  <2>1. row \in RequestRow
    BY <1>2, <1>3 DEF RequestRow
  <2> QED
    BY <2>1, StoresAssumption
<1>5. row.state = "eligible" /\ row.gen = generation
  OBVIOUS
<1> HIDE DEF row
<1>6. request'[h] = row /\ \A k \in Holders \ {h} : request'[k] = request[k]
  BY <1>1, <1>2 DEF StoresTypeOK
<1>7. StoresTypeOK'
  BY <1>1, <1>2, <1>4 DEF StoresTypeOK
<1>8. /\ Onward /\ (\A k \in Holders : KeptPermit(k)) /\ permits' = permits
      /\ generation' = generation /\ alive' = alive
  BY <1>1, LedgerKept
<1>9. \A k \in Holders \ {h} : Durable(k)'
  <2>1. \A k \in Holders \ {h} : KeptRows(k) /\ KeptPermit(k)
    BY <1>1, <1>6, <1>8 DEF KeptRows
  <2> QED
    BY <1>1, <1>2, <1>8, <2>1, OthersDurable
<1>10. Durable(h)'
  <2>1. ~Held(h)' /\ acquires[h] = Null /\ rotations[h] = Null /\ releases[h] = Null
    BY <1>1, <1>2, <1>8 DEF Durable, Held, Staged
  <2>2. RotationSound(h)' /\ ~Intended(h)' /\ ~Uncertain(h)' /\ h \notin assigned
    BY <1>1, <1>2, <1>5, <1>6, <2>1 DEF RotationSound, Intended, Uncertain, Durable
  <2> QED
    BY <1>1, <1>2, <1>4, <1>5, <1>6, <1>8, <2>1, <2>2 DEF Durable
<1>11. NoReleases /\ NoRotations /\ NoIntents
  BY <1>1, <1>2, AtPolling
<1>12. ReleasesSound'
  BY <1>1, <1>11, QuietReleases DEF NoReleases
<1>13. AdapterTypeOK'
  BY <1>1, <1>2, <1>8 DEF AdapterTypeOK
<1>14. NoReleases' /\ NoRotations' /\ NoIntents'
  BY <1>1, <1>5, <1>6, <1>11 DEF NoReleases, NoRotations, NoIntents, Intended
<1>15. PlaceSound'
  BY <1>1, <1>14, ReachPolling
<1> QED
  BY <1>7, <1>9, <1>10, <1>12, <1>13, <1>15 DEF LaneSound

LEMMA ObserveGlobalDemandSound ==
    ASSUME ScaleSetInv, NEW h \in Holders, ObserveGlobalDemand(h)
    PROVE  LaneSound'
<1>1. /\ adapter # Null /\ adapter.pc = "polling"
      /\ UNCHANGED <<stores, assigned>> /\ adapter' = adapter
      /\ permits' = permits /\ minted' = minted /\ generation' = generation /\ alive' = alive
  BY DEF ObserveGlobalDemand, At, ObserveDemand, meta, env
<1>2. Onward /\ \A k \in Holders : KeptPermit(k)
  BY <1>1, Here DEF Onward, KeptPermit, Held, Durable
<1>3. PlaceSound'
  BY <1>1, Here, AtPolling, StagesKept, ReachPolling
<1> QED
  BY <1>1, <1>2, <1>3, Here, WithStoresKept

LEMMA GrantOldestSound ==
    ASSUME ScaleSetInv, NEW h \in Holders, GrantOldest(h)
    PROVE  LaneSound'
<1>1. /\ adapter # Null /\ adapter.pc = "polling" /\ request[h] # Null
      /\ request' = [request EXCEPT ![h].state = "granted", ![h].gen = generation]
      /\ UNCHANGED ledgerVars /\ acquires' = acquires /\ releases' = releases
      /\ rotations' = rotations /\ batches' = batches /\ assigned' = assigned
      /\ adapter' = adapter
  BY DEF GrantOldest, At
<1>2. "granted" \in ActiveStates \cup {"eligible"} /\ StoresTypeOK /\ generation \in Nat
  BY <1>1, Here DEF ActiveStates
<1>3. StoresTypeOK' /\ \A k \in Holders : Durable(k)'
  BY <1>1, <1>2, RestatedSound
<1>4. /\ request'[h].state = "granted" /\ \A k \in Holders \ {h} : request'[k] = request[k]
  BY <1>1, <1>2, RestatedRow
<1>5. NoReleases /\ NoRotations /\ NoIntents
  BY <1>1, Here, AtPolling
<1>6. ReleasesSound'
  BY <1>1, <1>5, QuietReleases DEF NoReleases
<1>7. AdapterTypeOK'
  BY <1>1, Here, LedgerKept DEF AdapterTypeOK
<1>8. NoReleases' /\ NoRotations' /\ NoIntents'
  BY <1>1, <1>4, <1>5 DEF NoReleases, NoRotations, NoIntents, Intended
<1>9. PlaceSound'
  BY <1>1, <1>8, ReachPolling
<1> QED
  BY <1>3, <1>6, <1>7, <1>9 DEF LaneSound

LEMMA BeginAcquirePassSound ==
    ASSUME ScaleSetInv, BeginAcquirePass
    PROVE  LaneSound'
<1>1. /\ adapter # Null /\ adapter.pc = "polling"
      /\ UNCHANGED <<stores, assigned>> /\ UNCHANGED ledgerVars
  BY DEF BeginAcquirePass, At
<1>2. PICK S \in Candidates : adapter' = [Idle(adapter.pid, "stage") EXCEPT !.todo = S]
  BY DEF BeginAcquirePass
<1>3. S \in SUBSET Holders /\ \A h \in S : request[h] # Null /\ request[h].state = "granted"
  BY <1>2 DEF Candidates, Granted
<1>4. /\ adapter' \in Adapter /\ adapter'.pid = adapter.pid /\ adapter'.pc = "stage"
      /\ adapter'.todo = S /\ adapter'.taken = {} /\ adapter'.batch = 0
  BY <1>1, <1>2, <1>3, Here DEF Idle, Adapter, Phases
<1>5. /\ Onward /\ (\A k \in Holders : KeptPermit(k)) /\ alive' = alive
  BY <1>1, LedgerKept
<1>6. ReservingSound'
  BY <1>1, <1>3, <1>4 DEF ReservingSound, stores
<1>7. PlaceSound'
  BY <1>1, <1>4, <1>6, Here, AtPolling, StagesKept, ReachReserving DEF Reserving
<1> QED
  BY <1>1, <1>4, <1>5, <1>7, WithStoresKept

\* The candidate of a round is one request.
LEMMA NextIsOne ==
    ASSUME StoresTypeOK, NEW h \in Holders, NEW k \in Holders, IsNext(h), IsNext(k),
           request[h] # Null, request[k] # Null
    PROVE  h = k
<1>1. request[h].seq \in Nat /\ request[k].seq \in Nat
  BY RowFacts
<1> QED
  BY <1>1 DEF IsNext, Ahead

\* A pass that ends leaves the stores as they are.
LEMMA PassEnds ==
    ASSUME ScaleSetInv, adapter # Null, adapter.pc \in Reserving \cup {"unstage"}, Poll,
           UNCHANGED <<stores, assigned>>, UNCHANGED ledgerVars
    PROVE  LaneSound'
<1>1. /\ adapter' \in Adapter /\ adapter'.pid = adapter.pid /\ adapter'.pc = "polling"
      /\ adapter'.batch = 0
  BY Here, PollFacts
<1>2. /\ Onward /\ (\A k \in Holders : KeptPermit(k)) /\ alive' = alive
  BY LedgerKept
<1>3. PlaceSound'
  BY <1>1, Here, AtPolling, StagesKept, ReachPolling
<1> QED
  BY <1>1, <1>2, <1>3, WithStoresKept

LEMMA StageAcquireSound ==
    ASSUME ScaleSetInv, NEW h \in Holders, StageAcquire(h)
    PROVE  LaneSound'
<1>1. /\ adapter # Null /\ adapter.pc = "stage" /\ IsNext(h)
      /\ request' = request /\ releases' = releases /\ rotations' = rotations
      /\ batches' = batches /\ assigned' = assigned
  BY DEF StageAcquire, At
<1>2. CASE Staged(h)
  <2>1. Poll /\ UNCHANGED ledgerVars /\ acquires' = acquires
    BY <1>2 DEF StageAcquire
  <2>2. UNCHANGED <<stores, assigned>>
    BY <1>1, <2>1 DEF stores
  <2> QED
    BY <1>1, <2>1, <2>2, PassEnds DEF Reserving
<1>3. CASE ~Staged(h)
  <2> DEFINE stage == [prev |-> request[h].token, target |-> minted + 1]
  <2>1. MintToken /\ acquires' = [acquires EXCEPT ![h] = stage] /\ Goto("reserve")
    BY <1>3 DEF StageAcquire
  <2>2. /\ StoresTypeOK /\ PlaceSound /\ AdapterTypeOK /\ Durable(h) /\ generation \in Nat
        /\ minted \in Nat /\ (\A k \in Holders : Durable(k)) /\ adapter.todo \subseteq Holders
        /\ adapter.taken \subseteq Holders
    BY <1>1, Here
  <2>3. ReservingSound /\ NoReleases /\ NoRotations /\ NoIntents
    BY <1>1, <2>2, AtPolling DEF PlaceSound, Reserving
  <2>4. \A k \in adapter.todo : request[k] # Null /\ request[k].state = "granted"
    BY <1>1, <2>3 DEF ReservingSound, Reserving
  <2>5. request[h] # Null /\ request[h].token \in Token \cup {Null}
    BY <1>1, <2>2, <2>4, RowFacts DEF IsNext
  <2>6. stage \in AcquireRow /\ stage # Null /\ stage.target = minted + 1
    <3>1. stage \in AcquireRow
      BY <2>2, <2>5 DEF AcquireRow, Token
    <3> QED
      BY <3>1, StoresAssumption
  <2> HIDE DEF stage
  <2>7. acquires'[h] = stage /\ \A k \in Holders \ {h} : acquires'[k] = acquires[k]
    BY <2>1, <2>2 DEF StoresTypeOK
  <2>8. /\ permits' = permits /\ minted' = minted + 1 /\ generation' = generation
        /\ alive' = alive
    BY <2>1 DEF MintToken, meta
  <2>9. StoresTypeOK'
    BY <1>1, <2>1, <2>2, <2>6 DEF StoresTypeOK
  <2>10. Onward /\ \A k \in Holders \ {h} : KeptRows(k) /\ KeptPermit(k)
    <3>1. Onward
      BY <2>2, <2>8 DEF Onward
    <3> QED
      BY <1>1, <2>2, <2>7, <2>8, <3>1 DEF KeptRows, KeptPermit, Held, Durable
  <2>11. \A k \in Holders \ {h} : Durable(k)'
    BY <1>1, <2>2, <2>10, OthersDurable
  <2>12. Durable(h)'
    <3>1. Naming(h)' = Naming(h) /\ InBatch(h)' = InBatch(h) /\ Held(h)' = Held(h)
      BY <1>1, <2>8 DEF Naming, InBatch, Members, Open, Held
    <3>2. Intended(h)' = Intended(h) /\ Uncertain(h)' = Uncertain(h)
      BY <1>1 DEF Intended, Uncertain
    <3>3. RotationSound(h)' /\ (Held(h) => Named(h)')
      BY <1>1, <1>3, <2>2, <2>3, <2>8 DEF RotationSound, Named, NoRotations, Durable, Staged
    <3> QED
      BY <1>1, <2>2, <2>5, <2>6, <2>7, <2>8, <3>1, <3>2, <3>3 DEF Durable
  <2>13. ReleasesSound'
    BY <1>1, <2>3, QuietReleases DEF NoReleases
  <2>14. /\ adapter' \in Adapter /\ adapter'.pid = adapter.pid /\ adapter'.pc = "reserve"
         /\ adapter'.todo = adapter.todo /\ adapter'.taken = adapter.taken
         /\ adapter'.batch = adapter.batch
    BY <1>1, <2>1, Here, GotoFacts DEF Phases
  <2>15. AdapterTypeOK'
    BY <1>1, <2>2, <2>8, <2>14, AdapterKept
  <2>16. ReservingSound'
    <3>1. \A k \in Holders : IsNext(k)' => acquires'[k] # Null
      <4>1. SUFFICES ASSUME NEW k \in Holders, IsNext(k)' PROVE k = h
        BY <2>6, <2>7
      <4>2. IsNext(k)
        BY <1>1, <2>14, <4>1 DEF IsNext, Ahead
      <4>3. request[k] # Null
        BY <2>4, <4>2 DEF IsNext
      <4> QED
        BY <1>1, <2>2, <2>5, <4>2, <4>3, NextIsOne
    <3>2. /\ adapter.todo \cap adapter.taken = {}
          /\ \A k \in adapter.taken : request[k] # Null /\ Owns(k, request[k].token)
      BY <1>1, <2>3 DEF ReservingSound, Reserving
    <3> QED
      BY <1>1, <2>4, <2>8, <2>14, <3>1, <3>2 DEF ReservingSound, Owns, Held
  <2>17. PlaceSound'
    <3>1. NoReleases' /\ NoRotations' /\ NoIntents'
      BY <1>1, <2>3 DEF NoReleases, NoRotations, NoIntents, Intended
    <3> QED
      BY <2>14, <2>16, <3>1, ReachReserving DEF Reserving
  <2> QED
    BY <2>9, <2>11, <2>12, <2>13, <2>15, <2>17 DEF LaneSound
<1> QED
  BY <1>2, <1>3

\* What a reservation uses of the invariant
LEMMA AtReserving ==
    ASSUME ScaleSetInv, adapter # Null, adapter.pc \in Reserving
    PROVE  /\ NoReleases /\ NoRotations /\ NoIntents
           /\ adapter.todo \cap adapter.taken = {}
           /\ \A h \in adapter.todo : request[h] # Null /\ request[h].state = "granted"
           /\ \A h \in adapter.taken : request[h] # Null /\ Owns(h, request[h].token)
           /\ adapter.pc \in {"reserve", "reserved", "refused"} =>
                 \A h \in Holders : IsNext(h) => acquires[h] # Null
           /\ adapter.pc = "reserved" =>
                 \A h \in Holders : IsNext(h) => Owns(h, acquires[h].target)
           /\ adapter.pc = "refused" => \A h \in Holders : IsNext(h) => ~Held(h)
<1>1. PlaceSound
  BY Here
<1>2. ReservingSound
  BY <1>1 DEF PlaceSound
<1> QED
  BY <1>1, <1>2, AtPolling DEF ReservingSound

\* A candidate that stays the candidate is still the only one.
LEMMA StillNext ==
    ASSUME ScaleSetInv, adapter # Null, adapter.pc \in Reserving, NEW h \in Holders, IsNext(h),
           request' = request, adapter'.todo = adapter.todo, NEW k \in Holders, IsNext(k)'
    PROVE  k = h
<1>1. IsNext(k)
  BY DEF IsNext, Ahead
<1>2. request[h] # Null /\ request[k] # Null
  BY <1>1, AtReserving DEF IsNext
<1> QED
  BY <1>1, <1>2, Here, NextIsOne

LEMMA ReserveSound ==
    ASSUME ScaleSetInv, NEW h \in Holders, Reserve(h)
    PROVE  LaneSound'
<1>1. /\ adapter # Null /\ adapter.pc = "reserve" /\ adapter.pc \in Reserving /\ IsNext(h)
      /\ UNCHANGED <<stores, assigned>>
  BY DEF Reserve, At, Reserving
<1>2. /\ request' = request /\ acquires' = acquires /\ releases' = releases
      /\ rotations' = rotations /\ batches' = batches /\ assigned' = assigned
  BY <1>1 DEF stores
<1>3. /\ adapter.todo \cap adapter.taken = {}
      /\ \A k \in adapter.todo : request[k] # Null /\ request[k].state = "granted"
      /\ \A k \in adapter.taken : request[k] # Null /\ Owns(k, request[k].token)
      /\ acquires[h] # Null /\ NoReleases /\ NoRotations /\ NoIntents
  BY <1>1, AtReserving
<1>4. /\ StoresTypeOK /\ PlaceSound /\ AdapterTypeOK /\ Durable(h) /\ generation \in Nat
      /\ minted \in Nat /\ (\A k \in Holders : Durable(k)) /\ adapter \in Adapter
      /\ adapter.taken \subseteq Holders /\ TypeOK /\ adapter.pid \in Pids
  BY <1>1, Here
<1>5. CASE Held(h)
  BY <1>1, <1>5, PassEnds DEF Reserve
<1>6. CASE /\ \/ AcquireFull(h, "scaleset", generation)
              \/ AcquireDeferred(h, "scaleset", generation)
           /\ Goto("refused") /\ ~Held(h)
  <2>1. /\ permits' = permits /\ minted' = minted /\ generation' = generation /\ alive' = alive
    BY <1>6 DEF AcquireFull, AcquireDeferred, meta, env
  <2>2. Onward /\ \A k \in Holders : KeptPermit(k)
    BY <1>4, <2>1 DEF Onward, KeptPermit, Held, Durable
  <2>3. /\ adapter' \in Adapter /\ adapter'.pid = adapter.pid /\ adapter'.pc = "refused"
        /\ adapter'.todo = adapter.todo /\ adapter'.taken = adapter.taken
        /\ adapter'.batch = adapter.batch
    BY <1>4, <1>6, GotoFacts DEF Phases
  <2>4. \A k \in Holders : IsNext(k)' => k = h
    BY <1>1, <1>2, <2>3, StillNext
  <2>5. ReservingSound'
    BY <1>2, <1>3, <1>6, <2>1, <2>3, <2>4 DEF ReservingSound, Owns, Held
  <2>6. PlaceSound'
    BY <1>1, <1>3, <2>3, <2>5, StagesKept, ReachReserving DEF Reserving
  <2> QED
    BY <1>1, <2>1, <2>2, <2>3, <2>6, WithStoresKept
<1>7. CASE /\ AcquireStagedAttempt(h, "reserved", generation, adapter.pid, acquires[h].target)
           /\ Goto("reserved") /\ ~Held(h)
  <2> DEFINE row == [lane |-> "scaleset", state |-> "reserved", gen |-> generation,
                     pid |-> adapter.pid, token |-> acquires[h].target, rotation |-> Null]
  <2>1. /\ permits' = [permits EXCEPT ![h] = row] /\ minted' = minted
        /\ generation' = generation /\ alive' = alive
    BY <1>7 DEF AcquireStagedAttempt, Grant, meta
  <2>2. row \in PermitRow /\ row # Null
    <3>1. row \in PermitRow
      BY <1>3, <1>4, RowFacts DEF PermitRow, Lanes, PermitStates
    <3> QED
      BY <3>1, NullAssumption
  <2>3. row.token = acquires[h].target /\ row.pid \in Pids /\ row.state \in LaneStates
    BY <1>4, ScaleSetAssumption DEF LaneStates
  <2> HIDE DEF row
  <2>4. permits'[h] = row /\ \A k \in Holders \ {h} : permits'[k] = permits[k]
    BY <1>4, <2>1 DEF TypeOK
  <2>5. Onward /\ \A k \in Holders \ {h} : KeptRows(k) /\ KeptPermit(k)
    <3>1. Onward
      BY <1>4, <2>1 DEF Onward
    <3> QED
      BY <1>2, <1>4, <2>4, <3>1 DEF KeptRows, KeptPermit, Held, Durable
  <2>6. \A k \in Holders \ {h} : Durable(k)'
    BY <1>2, <1>4, <2>5, OthersDurable
  <2>7. Durable(h)'
    <3>1. Naming(h)' = Naming(h) /\ InBatch(h)' = InBatch(h)
      BY <1>2 DEF Naming, InBatch, Members, Open
    <3>2. Intended(h)' = Intended(h) /\ Uncertain(h)' = Uncertain(h)
      BY <1>2 DEF Intended, Uncertain
    <3>3. Held(h)' /\ Named(h)' /\ RotationSound(h)'
      BY <1>2, <1>3, <2>2, <2>3, <2>4 DEF Held, Named, RotationSound, NoRotations
    <3>4. request[h] # Null
      BY <1>1, <1>3 DEF IsNext
    <3> QED
      BY <1>2, <1>4, <2>1, <2>3, <2>4, <3>1, <3>2, <3>3, <3>4 DEF Durable
  <2>8. StoresTypeOK'
    BY <1>2, <1>4 DEF StoresTypeOK
  <2>9. ReleasesSound'
    BY <1>2, <1>3, QuietReleases DEF NoReleases
  <2>10. /\ adapter' \in Adapter /\ adapter'.pid = adapter.pid /\ adapter'.pc = "reserved"
         /\ adapter'.todo = adapter.todo /\ adapter'.taken = adapter.taken
         /\ adapter'.batch = adapter.batch
    BY <1>4, <1>7, GotoFacts DEF Phases
  <2>11. AdapterTypeOK'
    BY <1>1, <1>2, <1>4, <2>1, <2>10, AdapterKept
  <2>12. \A k \in Holders : IsNext(k)' => k = h
    BY <1>1, <1>2, <2>10, StillNext
  <2>13. \A k \in adapter.taken : k # h
    BY <1>1, <1>3 DEF IsNext
  <2>14. Owns(h, acquires[h].target)' /\ \A k \in adapter.taken : Owns(k, request[k].token)'
    BY <1>2, <1>3, <1>4, <2>2, <2>3, <2>4, <2>13 DEF Owns, Held
  <2>15. ReservingSound'
    BY <1>2, <1>3, <2>10, <2>12, <2>14 DEF ReservingSound
  <2>16. PlaceSound'
    BY <1>1, <1>3, <2>10, <2>15, StagesKept, ReachReserving DEF Reserving
  <2> QED
    BY <2>6, <2>7, <2>8, <2>9, <2>11, <2>16 DEF LaneSound
<1> QED
  BY <1>5, <1>6, <1>7 DEF Reserve

LEMMA ProjectTokenSound ==
    ASSUME ScaleSetInv, NEW h \in Holders, ProjectToken(h)
    PROVE  LaneSound'
<1> DEFINE t == acquires[h].target
           row == [request[h] EXCEPT !.token = t]
<1>1. /\ adapter # Null /\ adapter.pc = "reserved" /\ adapter.pc \in Reserving /\ IsNext(h)
      /\ request' = [request EXCEPT ![h].token = t]
      /\ adapter' = [adapter EXCEPT !.pc = IF adapter.todo = {h} THEN "record" ELSE "stage",
                                    !.todo = adapter.todo \ {h},
                                    !.taken = adapter.taken \cup {h}]
      /\ UNCHANGED ledgerVars /\ acquires' = acquires /\ releases' = releases
      /\ rotations' = rotations /\ batches' = batches /\ assigned' = assigned
  BY DEF ProjectToken, At, Reserving
<1>2. /\ adapter.todo \cap adapter.taken = {}
      /\ \A k \in adapter.todo : request[k] # Null /\ request[k].state = "granted"
      /\ \A k \in adapter.taken : request[k] # Null /\ Owns(k, request[k].token)
      /\ acquires[h] # Null /\ Owns(h, t) /\ NoReleases /\ NoRotations /\ NoIntents
  BY <1>1, AtReserving
<1>3. /\ StoresTypeOK /\ AdapterTypeOK /\ Durable(h) /\ adapter \in Adapter
      /\ adapter.todo \subseteq Holders /\ adapter.taken \subseteq Holders
      /\ \A k \in Holders : Durable(k)
  BY <1>1, Here
<1>4. request[h] # Null /\ request[h].state = "granted" /\ h \in adapter.todo
  BY <1>1, <1>2 DEF IsNext
<1>5. request[h] \in RequestRow /\ t \in Token
  BY <1>2, <1>3, <1>4, RowFacts
<1> HIDE DEF t
<1>6. row \in RequestRow /\ row # Null
  <2>1. row \in RequestRow
    BY <1>5 DEF RequestRow
  <2> QED
    BY <2>1, StoresAssumption
<1>7. row.token = t /\ row.state = "granted" /\ row.gen = request[h].gen
  BY <1>4, <1>5 DEF RequestRow
<1>8. request' = [request EXCEPT ![h] = row]
  BY <1>1, <1>3, <1>5 DEF StoresTypeOK, RequestRow
<1> HIDE DEF row
<1>9. request'[h] = row /\ \A k \in Holders \ {h} : request'[k] = request[k]
  BY <1>3, <1>8 DEF StoresTypeOK
<1>10. StoresTypeOK'
  BY <1>1, <1>3, <1>6, <1>8 DEF StoresTypeOK
<1>11. /\ Onward /\ (\A k \in Holders : KeptPermit(k)) /\ permits' = permits
       /\ generation' = generation /\ minted' = minted /\ alive' = alive
  BY <1>1, LedgerKept
<1>12. \A k \in Holders \ {h} : Durable(k)'
  <2>1. \A k \in Holders \ {h} : KeptRows(k) /\ KeptPermit(k)
    BY <1>1, <1>9, <1>11 DEF KeptRows
  <2> QED
    BY <1>1, <1>3, <1>11, <2>1, OthersDurable
<1>13. Durable(h)'
  <2>1. Naming(h)' = Naming(h) /\ Held(h)' = Held(h)
    BY <1>1, <1>11 DEF Naming, Members, Held
  <2>2. ~Intended(h)' /\ ~Uncertain(h)'
    BY <1>7, <1>9 DEF Intended, Uncertain
  <2>3. Named(h)' /\ RotationSound(h)'
    BY <1>1, <1>2, <1>7, <1>9, <1>11 DEF Named, RotationSound, NoRotations, Owns
  <2> QED
    BY <1>1, <1>3, <1>4, <1>6, <1>7, <1>9, <1>11, <2>1, <2>2, <2>3 DEF Durable
<1>14. ReleasesSound'
  BY <1>1, <1>2, QuietReleases DEF NoReleases
<1>15. adapter' \in Adapter
  BY <1>1, <1>3 DEF Adapter, Phases
<1>16. /\ adapter'.pid = adapter.pid /\ adapter'.pc \in {"record", "stage"}
       /\ adapter'.batch = adapter.batch
  BY <1>1, <1>3 DEF Adapter
<1>17. adapter'.todo = adapter.todo \ {h} /\ adapter'.taken = adapter.taken \cup {h}
  BY <1>1, <1>3 DEF Adapter
<1>18. AdapterTypeOK'
  BY <1>1, <1>3, <1>11, <1>15, <1>16, AdapterKept
<1>19. ReservingSound'
  <2>1. \A k \in adapter.taken : k # h /\ request'[k] = request[k]
    BY <1>2, <1>3, <1>4, <1>9
  <2>2. \A k \in adapter'.taken : request'[k] # Null /\ Owns(k, request'[k].token)
    BY <1>2, <1>6, <1>7, <1>9, <1>17, <2>1
  <2>3. \A k \in adapter'.todo : request'[k] # Null /\ request'[k].state = "granted"
    BY <1>2, <1>3, <1>9, <1>17
  <2> QED
    BY <1>2, <1>4, <1>11, <1>16, <1>17, <2>2, <2>3 DEF ReservingSound, Owns, Held
<1>20. NoReleases' /\ NoRotations' /\ NoIntents'
  BY <1>1, <1>2, <1>7, <1>9 DEF NoReleases, NoRotations, NoIntents, Intended
<1>21. PlaceSound'
  BY <1>16, <1>19, <1>20, ReachReserving DEF Reserving
<1> QED
  BY <1>10, <1>12, <1>13, <1>14, <1>18, <1>21 DEF LaneSound

LEMMA DropStageSound ==
    ASSUME ScaleSetInv, NEW h \in Holders, DropStage(h)
    PROVE  LaneSound'
<1>1. /\ adapter # Null /\ adapter.pc = "refused" /\ adapter.pc \in Reserving /\ IsNext(h)
      /\ UNCHANGED ledgerVars /\ request' = request /\ releases' = releases
      /\ rotations' = rotations /\ batches' = batches /\ assigned' = assigned
  BY DEF DropStage, At, Reserving
<1>2. CASE Poll /\ acquires' = acquires
  <2>1. UNCHANGED <<stores, assigned>>
    BY <1>1, <1>2 DEF stores
  <2> QED
    BY <1>1, <1>2, <2>1, PassEnds
<1>3. CASE acquires' = [acquires EXCEPT ![h] = Null] /\ AfterReserving
  <2>1. /\ \A k \in adapter.taken : request[k] # Null /\ Owns(k, request[k].token)
        /\ ~Held(h) /\ NoReleases /\ NoRotations /\ NoIntents
    BY <1>1, AtReserving
  <2>2. /\ StoresTypeOK /\ AdapterTypeOK /\ Durable(h) /\ adapter \in Adapter
        /\ adapter.taken \subseteq Holders /\ adapter.pid \in Pids
        /\ \A k \in Holders : Durable(k)
    BY <1>1, Here
  <2>3. acquires'[h] = Null /\ \A k \in Holders \ {h} : acquires'[k] = acquires[k]
    BY <1>3, <2>2 DEF StoresTypeOK
  <2>4. StoresTypeOK'
    BY <1>1, <1>3, <2>2 DEF StoresTypeOK
  <2>5. /\ Onward /\ (\A k \in Holders : KeptPermit(k)) /\ permits' = permits
        /\ generation' = generation /\ minted' = minted /\ alive' = alive
    BY <1>1, LedgerKept
  <2>6. \A k \in Holders \ {h} : Durable(k)'
    <3>1. \A k \in Holders \ {h} : KeptRows(k) /\ KeptPermit(k)
      BY <1>1, <2>3, <2>5 DEF KeptRows
    <3> QED
      BY <1>1, <2>2, <2>5, <3>1, OthersDurable
  <2>7. Durable(h)'
    <3>1. Naming(h)' = Naming(h) /\ InBatch(h)' = InBatch(h) /\ Held(h)' = Held(h)
      BY <1>1, <2>5 DEF Naming, InBatch, Members, Open, Held
    <3>2. Intended(h)' = Intended(h) /\ Uncertain(h)' = Uncertain(h)
      BY <1>1 DEF Intended, Uncertain
    <3>3. RotationSound(h)' /\ (~Staged(h) => ~Staged(h)')
      BY <1>1, <2>1, <2>3 DEF RotationSound, NoRotations, Staged
    <3> QED
      BY <1>1, <2>1, <2>2, <2>3, <2>5, <3>1, <3>2, <3>3 DEF Durable
  <2>8. ReleasesSound'
    BY <1>1, <2>1, QuietReleases DEF NoReleases
  <2>9. NoReleases' /\ NoRotations' /\ NoIntents'
    BY <1>1, <2>1 DEF NoReleases, NoRotations, NoIntents, Intended
  <2>10. CASE adapter.taken = {}
    <3>1. Poll
      BY <1>3, <2>10 DEF AfterReserving, Poll
    <3>2. /\ adapter' \in Adapter /\ adapter'.pid = adapter.pid /\ adapter'.pc = "polling"
          /\ adapter'.batch = 0
      BY <2>2, <3>1, PollFacts
    <3>3. AdapterTypeOK'
      BY <1>1, <2>2, <2>5, <3>2, AdapterKept
    <3>4. PlaceSound'
      BY <2>9, <3>2, ReachPolling
    <3> QED
      BY <2>4, <2>6, <2>7, <2>8, <3>3, <3>4 DEF LaneSound
  <2>11. CASE adapter.taken # {}
    <3>1. adapter' = [adapter EXCEPT !.pc = "record", !.todo = {}]
      BY <1>3, <2>11 DEF AfterReserving
    <3>2. adapter' \in Adapter
      BY <2>2, <3>1 DEF Adapter, Phases
    <3>3. /\ adapter'.pid = adapter.pid /\ adapter'.pc = "record" /\ adapter'.todo = {}
          /\ adapter'.batch = adapter.batch /\ adapter'.taken = adapter.taken
      BY <2>2, <3>1 DEF Adapter
    <3>4. AdapterTypeOK'
      BY <1>1, <2>2, <2>5, <3>2, <3>3, AdapterKept
    <3>5. ReservingSound'
      BY <1>1, <2>1, <2>5, <3>3 DEF ReservingSound, Owns, Held
    <3>6. PlaceSound'
      BY <2>9, <3>3, <3>5, ReachReserving DEF Reserving
    <3> QED
      BY <2>4, <2>6, <2>7, <2>8, <3>4, <3>6 DEF LaneSound
  <2> QED
    BY <2>10, <2>11
<1> QED
  BY <1>2, <1>3 DEF DropStage

-----------------------------------------------------------------------------
(* The batch, its intents and the call *)

LEMMA RecordIntendedSound ==
    ASSUME ScaleSetInv, RecordIntended
    PROVE  LaneSound'
<1> DEFINE tokens == [h \in adapter.taken |-> ReservedToken(h)]
           row == [tokens |-> tokens, state |-> "intended"]
           n == Len(batches) + 1
<1>1. /\ adapter # Null /\ adapter.pc = "record" /\ adapter.pc \in Reserving
      /\ batches' = Append(batches, row)
      /\ adapter' = [adapter EXCEPT !.pc = "unstage", !.batch = n, !.todo = adapter.taken]
      /\ UNCHANGED ledgerVars /\ request' = request /\ acquires' = acquires
      /\ releases' = releases /\ rotations' = rotations /\ assigned' = assigned
  BY DEF RecordIntended, At, Reserving
<1>2. /\ StoresTypeOK /\ AdapterTypeOK /\ adapter \in Adapter /\ adapter.taken \subseteq Holders
      /\ (\A k \in Holders : Durable(k)) /\ TypeOK /\ TokensFenceAttempts
      /\ adapter.pid \in alive
  BY <1>1, Here
<1>3. /\ \A h \in adapter.taken : request[h] # Null /\ Owns(h, request[h].token)
      /\ NoReleases /\ NoRotations /\ NoIntents
  BY <1>1, AtReserving
<1>4. tokens \in [adapter.taken -> Token] /\ \A h \in adapter.taken : tokens[h] = request[h].token
  BY <1>2, <1>3, OwnedTokens DEF ReservedToken
<1> HIDE DEF tokens
<1>5. row \in BatchRow /\ row.state = "intended" /\ row.tokens = tokens
  BY <1>2, <1>4 DEF BatchRow, BatchStates
<1> HIDE DEF row
<1>6. DOMAIN batches = 1..Len(batches) /\ Len(batches) \in Nat /\ batches \in Seq(BatchRow)
  BY <1>2, BatchFacts DEF StoresTypeOK
<1>7. /\ batches' \in Seq(BatchRow) /\ Len(batches') = n /\ DOMAIN batches' = 1..n
      /\ batches'[n] = row /\ \A b \in DOMAIN batches : batches'[b] = batches[b]
  BY <1>1, <1>5, <1>6
<1>8. n \in Nat /\ n \in DOMAIN batches' /\ DOMAIN batches \subseteq DOMAIN batches'
  BY <1>6, <1>7
<1> HIDE DEF n
<1>9. StoresTypeOK'
  BY <1>1, <1>2, <1>7 DEF StoresTypeOK
<1>10. /\ Onward /\ (\A k \in Holders : KeptPermit(k)) /\ permits' = permits
       /\ generation' = generation /\ minted' = minted /\ alive' = alive
  BY <1>1, LedgerKept
<1>11. ASSUME NEW h \in Holders PROVE Durable(h)'
  <2>1. Durable(h)
    BY <1>2
  <2>2. Naming(h) \subseteq Naming(h)' /\ (InBatch(h) => InBatch(h)')
    BY <1>1, <1>7, <1>8 DEF Naming, Members, InBatch, Open
  <2>3. request[h] = Null => Naming(h)' = {}
    <3>1. SUFFICES ASSUME request[h] = Null, NEW b \in Naming(h)' PROVE FALSE
      BY <2>2
    <3>2. b \in 1..n /\ h \in DOMAIN batches'[b].tokens
      BY <1>7, <3>1 DEF Naming, Members
    <3>3. CASE b = n
      BY <1>3, <1>4, <1>5, <1>7, <3>1, <3>2, <3>3
    <3>4. CASE b # n
      <4>1. b \in DOMAIN batches
        BY <1>6, <3>2, <3>4 DEF n
      <4>2. b \in Naming(h)
        BY <1>7, <3>2, <4>1 DEF Naming, Members
      <4> QED
        BY <2>1, <3>1, <4>2 DEF Durable
    <3> QED
      BY <3>3, <3>4
  <2>4. Held(h)' = Held(h) /\ Intended(h)' = Intended(h) /\ Uncertain(h)' = Uncertain(h)
        /\ Named(h)' = Named(h) /\ RotationSound(h)' = RotationSound(h) /\ Staged(h)' = Staged(h)
    BY <1>1, <1>10 DEF Held, Intended, Uncertain, Named, RotationSound, Staged
  <2> QED
    BY <1>1, <1>10, <2>1, <2>2, <2>3, <2>4 DEF Durable
<1>12. ReleasesSound'
  BY <1>1, <1>3, QuietReleases DEF NoReleases
<1>13. adapter' \in Adapter
  BY <1>1, <1>2, <1>8 DEF Adapter, Phases
<1>14. /\ adapter'.pid = adapter.pid /\ adapter'.pc = "unstage" /\ adapter'.todo = adapter.taken
       /\ adapter'.batch = n /\ adapter'.taken = adapter.taken
  BY <1>1, <1>2 DEF Adapter
<1>15. AdapterTypeOK'
  BY <1>2, <1>7, <1>8, <1>10, <1>13, <1>14 DEF AdapterTypeOK
<1>16. NoReleases' /\ NoRotations' /\ NoIntents'
  BY <1>1, <1>3 DEF NoReleases, NoRotations, NoIntents, Intended
<1>17. IntentsThere'
  BY <1>14, <1>16 DEF IntentsThere, Reserving, Asking
<1>18. BatchOfPass'
  BY <1>1, <1>3, <1>4, <1>5, <1>7, <1>8, <1>14 DEF BatchOfPass, Members
<1>19. SendingSound'
  BY <1>1, <1>3, <1>4, <1>5, <1>7, <1>10, <1>14 DEF SendingSound, Open, Owns, Held
<1>20. PlaceSound'
  BY <1>14, <1>16, <1>17, <1>18, <1>19, ReachSending DEF Sending
<1> QED
  BY <1>9, <1>11, <1>12, <1>15, <1>20 DEF LaneSound

\* What the batch's steps use of the invariant
LEMMA AtBatch ==
    ASSUME ScaleSetInv, adapter # Null, adapter.pc \in Sending
    PROVE  /\ NoReleases /\ NoRotations /\ IntentsThere
           /\ adapter.batch \in DOMAIN batches /\ Members(adapter.batch) = adapter.taken
           /\ adapter.todo \subseteq adapter.taken
           /\ adapter.pc = "answered" => adapter.answer \subseteq adapter.taken
           /\ Open(adapter.batch)
           /\ \A h \in adapter.taken :
                 /\ request[h] # Null /\ Owns(h, request[h].token) /\ Held(h) /\ InBatch(h)
                 /\ batches[adapter.batch].tokens[h] = request[h].token
<1>1. PlaceSound
  BY Here
<1>2. NoReleases /\ NoRotations /\ IntentsThere /\ BatchOfPass /\ SendingSound
  BY <1>1, AtSending DEF PlaceSound
<1>3. /\ adapter.batch \in DOMAIN batches /\ Members(adapter.batch) = adapter.taken
      /\ adapter.todo \subseteq adapter.taken
      /\ adapter.pc = "answered" => adapter.answer \subseteq adapter.taken
      /\ Open(adapter.batch)
      /\ \A h \in adapter.taken :
            /\ request[h] # Null /\ Owns(h, request[h].token)
            /\ batches[adapter.batch].tokens[h] = request[h].token
  BY <1>2 DEF BatchOfPass, SendingSound
<1>4. \A h \in adapter.taken : Held(h) /\ InBatch(h)
  BY <1>3 DEF Owns, InBatch, Naming
<1> QED
  BY <1>2, <1>3, <1>4

\* The loop over the members of the batch
LEMMA NextOfFacts ==
    ASSUME adapter \in Adapter, NEW h \in adapter.todo, NEW next \in Phases, NextOf(h, next)
    PROVE  /\ adapter' \in Adapter /\ adapter'.pid = adapter.pid
           /\ adapter'.batch = adapter.batch /\ adapter'.taken = adapter.taken
           /\ \/ /\ adapter.todo = {h} /\ adapter'.pc = next /\ adapter'.todo = adapter.taken
              \/ /\ adapter'.pc = adapter.pc /\ adapter'.todo = adapter.todo \ {h}
<1>1. CASE adapter.todo = {h}
  <2>1. adapter' = [adapter EXCEPT !.pc = next, !.todo = adapter.taken]
    BY <1>1 DEF NextOf
  <2>2. adapter' \in Adapter
    BY <2>1 DEF Adapter
  <2> QED
    BY <1>1, <2>1, <2>2 DEF Adapter
<1>2. CASE adapter.todo # {h}
  <2>1. adapter' = [adapter EXCEPT !.todo = adapter.todo \ {h}]
    BY <1>2 DEF NextOf
  <2>2. adapter' \in Adapter
    BY <2>1 DEF Adapter
  <2> QED
    BY <2>1, <2>2 DEF Adapter
<1> QED
  BY <1>1, <1>2

\* The batch of the pass and its members, while permits and batches stay
LEMMA BatchStays ==
    ASSUME ScaleSetInv, adapter # Null, adapter.pc \in Sending, batches' = batches,
           adapter'.batch = adapter.batch, adapter'.taken = adapter.taken,
           adapter'.todo \subseteq adapter.taken, adapter'.pc \in Sending,
           adapter'.pc = "answered" => adapter'.answer \subseteq adapter.taken,
           \A h \in adapter.taken :
               /\ request'[h] # Null /\ request'[h].token = request[h].token
               /\ Held(h)' /\ permits'[h].token = permits[h].token
    PROVE  /\ BatchOfPass' /\ Open(adapter.batch)'
           /\ \A h \in adapter'.taken :
                 /\ Owns(h, request[h].token)'
                 /\ batches'[adapter'.batch].tokens[h] = request'[h].token
<1>1. /\ adapter.batch \in DOMAIN batches /\ Members(adapter.batch) = adapter.taken
      /\ Open(adapter.batch)
      /\ \A h \in adapter.taken :
            /\ Owns(h, request[h].token)
            /\ batches[adapter.batch].tokens[h] = request[h].token
  BY AtBatch
<1>2. BatchOfPass'
  BY <1>1 DEF BatchOfPass, Sending, Members
<1>3. Open(adapter.batch)'
  BY <1>1 DEF Open
<1>4. \A h \in adapter'.taken :
                 /\ Owns(h, request[h].token)'
                 /\ batches'[adapter'.batch].tokens[h] = request'[h].token
  BY <1>1 DEF Owns, Held
<1> QED
  BY <1>2, <1>3, <1>4

LEMMA UnstageAcquireSound ==
    ASSUME ScaleSetInv, NEW h \in Holders, UnstageAcquire(h)
    PROVE  LaneSound'
<1>1. /\ adapter # Null /\ adapter.pc = "unstage" /\ adapter.pc \in Sending /\ h \in adapter.todo
      /\ UNCHANGED ledgerVars /\ request' = request /\ releases' = releases
      /\ rotations' = rotations /\ batches' = batches /\ assigned' = assigned
  BY DEF UnstageAcquire, At, Sending
<1>2. CASE Poll /\ acquires' = acquires
  <2>1. UNCHANGED <<stores, assigned>>
    BY <1>1, <1>2 DEF stores
  <2> QED
    BY <1>1, <1>2, <2>1, PassEnds
<1>3. CASE acquires' = [acquires EXCEPT ![h] = Null] /\ NextOf(h, "intend")
  <2>1. /\ StoresTypeOK /\ AdapterTypeOK /\ Durable(h) /\ adapter \in Adapter
        /\ adapter.taken \subseteq Holders /\ PlaceSound
        /\ \A k \in Holders : Durable(k)
    BY <1>1, Here
  <2>2. /\ NoReleases /\ NoRotations /\ NoIntents
    BY <1>1, <2>1, AtPolling
  <2>3. /\ adapter.todo \subseteq adapter.taken
        /\ \A k \in adapter.taken : request[k] # Null /\ Held(k) /\ Owns(k, request[k].token)
    BY <1>1, AtBatch
  <2>4. acquires'[h] = Null /\ \A k \in Holders \ {h} : acquires'[k] = acquires[k]
    BY <1>3, <2>1 DEF StoresTypeOK
  <2>5. StoresTypeOK'
    BY <1>1, <1>3, <2>1 DEF StoresTypeOK
  <2>6. /\ Onward /\ (\A k \in Holders : KeptPermit(k)) /\ permits' = permits
        /\ generation' = generation /\ minted' = minted /\ alive' = alive
    BY <1>1, LedgerKept
  <2>7. \A k \in Holders \ {h} : Durable(k)'
    <3>1. \A k \in Holders \ {h} : KeptRows(k) /\ KeptPermit(k)
      BY <1>1, <2>4, <2>6 DEF KeptRows
    <3> QED
      BY <1>1, <2>1, <2>6, <3>1, OthersDurable
  <2>8. Durable(h)'
    <3>1. Naming(h)' = Naming(h) /\ InBatch(h)' = InBatch(h) /\ Held(h)' = Held(h)
      BY <1>1, <2>6 DEF Naming, InBatch, Members, Open, Held
    <3>2. Intended(h)' = Intended(h) /\ Uncertain(h)' = Uncertain(h)
      BY <1>1 DEF Intended, Uncertain
    <3>3. RotationSound(h)' /\ Named(h)' /\ request[h] # Null
      BY <1>1, <2>2, <2>3, <2>6 DEF RotationSound, NoRotations, Named, Owns
    <3> QED
      BY <1>1, <2>1, <2>4, <2>6, <3>1, <3>2, <3>3 DEF Durable
  <2>9. ReleasesSound'
    BY <1>1, <2>2, QuietReleases DEF NoReleases
  <2>10. NoReleases' /\ NoRotations' /\ NoIntents'
    BY <1>1, <2>2 DEF NoReleases, NoRotations, NoIntents, Intended
  <2>11. /\ adapter' \in Adapter /\ adapter'.pid = adapter.pid
         /\ adapter'.batch = adapter.batch /\ adapter'.taken = adapter.taken
         /\ \/ adapter'.pc = "intend" /\ adapter'.todo = adapter.taken
            \/ adapter'.pc = "unstage" /\ adapter'.todo = adapter.todo \ {h}
    BY <1>1, <1>3, <2>1, NextOfFacts DEF Phases
  <2>12. AdapterTypeOK'
    BY <1>1, <2>1, <2>6, <2>11, AdapterKept
  <2>13. adapter'.pc \in Sending /\ adapter'.pc # "answered" /\ adapter'.todo \subseteq adapter.taken
    BY <2>3, <2>11 DEF Sending
  <2>14. \A k \in adapter.taken :
             /\ request'[k] # Null /\ request'[k].token = request[k].token
             /\ Held(k)' /\ permits'[k].token = permits[k].token
    BY <1>1, <2>3, <2>6 DEF Held
  <2>15. /\ BatchOfPass' /\ Open(adapter.batch)'
         /\ \A k \in adapter'.taken :
               /\ Owns(k, request[k].token)'
               /\ batches'[adapter'.batch].tokens[k] = request'[k].token
    BY <1>1, <2>11, <2>13, <2>14, BatchStays
  <2>16. IntentsThere'
    BY <2>10, <2>11 DEF IntentsThere, Reserving, Asking, NoIntents
  <2>17. SendingSound'
    BY <2>11, <2>15 DEF SendingSound
  <2>18. PlaceSound'
    BY <2>10, <2>13, <2>15, <2>16, <2>17, ReachSending
  <2> QED
    BY <2>5, <2>7, <2>8, <2>9, <2>12, <2>18 DEF LaneSound
<1> QED
  BY <1>2, <1>3 DEF UnstageAcquire

\* One member of the batch is restated within the pass.
LEMMA MemberRestated ==
    ASSUME ScaleSetInv, adapter # Null, adapter.pc \in Sending, NEW h \in adapter.taken,
           NEW s \in {"acquire_intent", "uncertain", "acquired"},
           request' = [request EXCEPT ![h].state = s, ![h].gen = generation],
           acquires' = acquires, releases' = releases, rotations' = rotations,
           batches' = batches, assigned' = assigned, UNCHANGED ledgerVars,
           adapter' \in Adapter, adapter'.pid = adapter.pid, adapter'.batch = adapter.batch,
           adapter'.taken = adapter.taken, adapter'.todo \subseteq adapter.taken,
           adapter'.pc \in Sending,
           adapter'.pc = "answered" => adapter'.answer \subseteq adapter.taken
    PROVE  /\ StoresTypeOK' /\ (\A k \in Holders : Durable(k)') /\ ReleasesSound'
           /\ AdapterTypeOK' /\ NoReleases' /\ NoRotations'
           /\ BatchOfPass' /\ Open(adapter.batch)'
           /\ \A k \in adapter'.taken :
                 /\ Owns(k, request[k].token)'
                 /\ batches'[adapter'.batch].tokens[k] = request'[k].token
           /\ request'[h] # Null /\ request'[h].state = s
           /\ \A k \in Holders \ {h} : request'[k] = request[k]
<1>1. /\ StoresTypeOK /\ AdapterTypeOK /\ generation \in Nat /\ adapter.taken \subseteq Holders
  BY Here
<1>2. /\ NoReleases /\ NoRotations
      /\ \A k \in adapter.taken : request[k] # Null /\ Held(k) /\ InBatch(k)
  BY AtBatch
<1>3. h \in Holders /\ request[h] # Null /\ s \in ActiveStates \cup {"eligible"}
  BY <1>1, <1>2 DEF ActiveStates
<1>4. Held(h) /\ InBatch(h)
  BY <1>2
<1>5. StoresTypeOK' /\ \A k \in Holders : Durable(k)'
  BY <1>3, <1>4, RestatedSound
<1>6. /\ request'[h] # Null /\ request'[h].state = s /\ request'[h].token = request[h].token
      /\ \A k \in Holders \ {h} : request'[k] = request[k]
  BY <1>1, <1>3, RestatedRow
<1>7. permits' = permits /\ alive' = alive
  BY LedgerKept
<1>8. ReleasesSound'
  BY <1>2, QuietReleases DEF NoReleases
<1>9. AdapterTypeOK'
  BY <1>1, <1>7, AdapterKept
<1>10. NoReleases' /\ NoRotations'
  BY <1>2 DEF NoReleases, NoRotations
<1>11. \A k \in adapter.taken :
             /\ request'[k] # Null /\ request'[k].token = request[k].token
             /\ Held(k)' /\ permits'[k].token = permits[k].token
  BY <1>1, <1>2, <1>6, <1>7 DEF Held
<1>12. /\ BatchOfPass' /\ Open(adapter.batch)'
       /\ \A k \in adapter'.taken :
               /\ Owns(k, request[k].token)'
               /\ batches'[adapter'.batch].tokens[k] = request'[k].token
  BY <1>11, BatchStays
<1> QED
  BY <1>5, <1>6, <1>8, <1>9, <1>10, <1>12

LEMMA SetIntentSound ==
    ASSUME ScaleSetInv, NEW h \in Holders, SetIntent(h)
    PROVE  LaneSound'
<1>1. /\ adapter # Null /\ adapter.pc = "intend" /\ adapter.pc \in Sending /\ h \in adapter.todo
      /\ request' = [request EXCEPT ![h].state = "acquire_intent", ![h].gen = generation]
      /\ NextOf(h, "send")
      /\ UNCHANGED ledgerVars /\ acquires' = acquires /\ releases' = releases
      /\ rotations' = rotations /\ batches' = batches /\ assigned' = assigned
  BY DEF SetIntent, At, Sending
<1>2. adapter \in Adapter /\ PlaceSound /\ adapter.taken \subseteq Holders
  BY <1>1, Here
<1>3. /\ \A k \in Holders : Intended(k) => k \in adapter.taken
      /\ \A k \in adapter.taken \ adapter.todo : Intended(k)
      /\ adapter.todo \subseteq adapter.taken
  BY <1>1, <1>2, AtBatch DEF PlaceSound, IntentsThere, SendingSound
<1>4. /\ adapter' \in Adapter /\ adapter'.pid = adapter.pid
      /\ adapter'.batch = adapter.batch /\ adapter'.taken = adapter.taken
      /\ \/ adapter.todo = {h} /\ adapter'.pc = "send" /\ adapter'.todo = adapter.taken
         \/ adapter'.pc = "intend" /\ adapter'.todo = adapter.todo \ {h}
  BY <1>1, <1>2, NextOfFacts DEF Phases
<1>5. adapter'.pc \in Sending /\ adapter'.pc # "answered" /\ adapter'.todo \subseteq adapter.taken
      /\ h \in adapter.taken
  BY <1>1, <1>3, <1>4 DEF Sending
<1>6. /\ StoresTypeOK' /\ (\A k \in Holders : Durable(k)') /\ ReleasesSound'
      /\ AdapterTypeOK' /\ NoReleases' /\ NoRotations'
      /\ BatchOfPass' /\ Open(adapter.batch)'
      /\ \A k \in adapter'.taken :
            /\ Owns(k, request[k].token)'
            /\ batches'[adapter'.batch].tokens[k] = request'[k].token
      /\ request'[h] # Null /\ request'[h].state = "acquire_intent"
      /\ \A k \in Holders \ {h} : request'[k] = request[k]
  BY <1>1, <1>4, <1>5, MemberRestated
<1>7. /\ Intended(h)' /\ \A k \in Holders \ {h} : Intended(k)' = Intended(k)
  BY <1>6 DEF Intended
<1>8. IntentsThere'
  BY <1>3, <1>4, <1>5, <1>7 DEF IntentsThere, Reserving, Asking
<1>9. SendingSound'
  BY <1>2, <1>3, <1>4, <1>6, <1>7 DEF SendingSound
<1>10. PlaceSound'
  BY <1>5, <1>6, <1>8, <1>9, ReachSending
<1> QED
  BY <1>6, <1>10 DEF LaneSound

LEMMA MarkUncertainSound ==
    ASSUME ScaleSetInv, NEW h \in Holders, MarkUncertain(h)
    PROVE  LaneSound'
<1>1. /\ adapter # Null /\ adapter.pc = "lost" /\ adapter.pc \in Sending /\ h \in adapter.todo
      /\ request' = [request EXCEPT ![h].state = "uncertain", ![h].gen = generation]
      /\ adapter' = [adapter EXCEPT !.todo = adapter.todo \ {h}]
      /\ UNCHANGED ledgerVars /\ acquires' = acquires /\ releases' = releases
      /\ rotations' = rotations /\ batches' = batches /\ assigned' = assigned
  BY DEF MarkUncertain, At, Sending
<1>2. adapter \in Adapter /\ PlaceSound /\ adapter.taken \subseteq Holders
  BY <1>1, Here
<1>3. /\ \A k \in Holders : Intended(k) => k \in adapter.todo
      /\ adapter.todo \subseteq adapter.taken
  BY <1>1, <1>2, AtBatch DEF PlaceSound, IntentsThere
<1>4. adapter' \in Adapter
  BY <1>1, <1>2 DEF Adapter
<1>5. /\ adapter'.pid = adapter.pid /\ adapter'.pc = "lost"
      /\ adapter'.batch = adapter.batch /\ adapter'.taken = adapter.taken
      /\ adapter'.todo = adapter.todo \ {h}
  BY <1>1, <1>2 DEF Adapter
<1>6. adapter'.pc \in Sending /\ adapter'.pc # "answered" /\ adapter'.todo \subseteq adapter.taken
      /\ h \in adapter.taken
  BY <1>1, <1>3, <1>5 DEF Sending
<1>7. /\ StoresTypeOK' /\ (\A k \in Holders : Durable(k)') /\ ReleasesSound'
      /\ AdapterTypeOK' /\ NoReleases' /\ NoRotations'
      /\ BatchOfPass' /\ Open(adapter.batch)'
      /\ \A k \in adapter'.taken :
            /\ Owns(k, request[k].token)'
            /\ batches'[adapter'.batch].tokens[k] = request'[k].token
      /\ request'[h] # Null /\ request'[h].state = "uncertain"
      /\ \A k \in Holders \ {h} : request'[k] = request[k]
  BY <1>1, <1>4, <1>5, <1>6, MemberRestated
<1>8. IntentsThere'
  BY <1>3, <1>5, <1>7 DEF IntentsThere, Reserving, Asking, Intended
<1>9. SendingSound'
  BY <1>5, <1>7 DEF SendingSound
<1>10. PlaceSound'
  BY <1>6, <1>7, <1>8, <1>9, ReachSending
<1> QED
  BY <1>7, <1>10 DEF LaneSound

LEMMA ResolveUncertainSound ==
    ASSUME ScaleSetInv, ResolveUncertain
    PROVE  LaneSound'
<1>1. /\ adapter # Null /\ adapter.pc = "lost" /\ adapter.pc \in Sending /\ adapter.todo = {}
      /\ batches' = [batches EXCEPT ![adapter.batch].state = "uncertain"] /\ Poll
      /\ UNCHANGED ledgerVars /\ request' = request /\ acquires' = acquires
      /\ releases' = releases /\ rotations' = rotations /\ assigned' = assigned
  BY DEF ResolveUncertain, At, Sending
<1>2. /\ NoReleases /\ NoRotations /\ NoIntents /\ adapter.batch \in DOMAIN batches
  BY <1>1, AtBatch DEF IntentsThere, NoIntents
<1>3. /\ StoresTypeOK /\ AdapterTypeOK /\ adapter \in Adapter /\ "uncertain" \in BatchStates
  BY <1>1, Here DEF BatchStates
<1>4. /\ StoresTypeOK' /\ (\A h \in Holders : Durable(h)') /\ ReleasesSound'
      /\ Len(batches') = Len(batches)
  BY <1>1, <1>2, <1>3, BatchStateSound
<1>5. /\ adapter' \in Adapter /\ adapter'.pid = adapter.pid /\ adapter'.pc = "polling"
      /\ adapter'.batch = 0
  BY <1>1, <1>3, PollFacts
<1>6. alive' = alive
  BY <1>1, LedgerKept
<1>7. AdapterTypeOK'
  BY <1>1, <1>3, <1>4, <1>5, <1>6, AdapterKept
<1>8. NoReleases' /\ NoRotations' /\ NoIntents'
  BY <1>1, <1>2 DEF NoReleases, NoRotations, NoIntents, Intended
<1>9. PlaceSound'
  BY <1>5, <1>8, ReachPolling
<1> QED
  BY <1>4, <1>7, <1>9 DEF LaneSound

\* The service assigns requests that have their permits and a batch.
LEMMA AssignedSound ==
    ASSUME ScaleSetInv, adapter # Null, UNCHANGED stores, UNCHANGED ledgerVars,
           NEW S \in SUBSET Holders, assigned' = assigned \cup S, NoReleases,
           \A h \in S : Held(h) /\ Naming(h) # {}
    PROVE  StoresTypeOK' /\ (\A h \in Holders : Durable(h)') /\ ReleasesSound'
<1>1. /\ request' = request /\ acquires' = acquires /\ releases' = releases
      /\ rotations' = rotations /\ batches' = batches
  BY DEF stores
<1>2. StoresTypeOK /\ \A h \in Holders : Durable(h)
  BY Here
<1>3. permits' = permits /\ generation' = generation /\ minted' = minted
  BY LedgerKept
<1>4. StoresTypeOK'
  BY <1>1, <1>2 DEF StoresTypeOK
<1>5. ReleasesSound'
  BY <1>1, QuietReleases DEF NoReleases
<1>6. ASSUME NEW h \in Holders PROVE Durable(h)'
  <2>1. /\ Naming(h)' = Naming(h) /\ InBatch(h)' = InBatch(h) /\ Held(h)' = Held(h)
        /\ Staged(h)' = Staged(h) /\ Named(h)' = Named(h)
    BY <1>1, <1>3 DEF Naming, InBatch, Members, Open, Held, Staged, Named
  <2>2. /\ Intended(h)' = Intended(h) /\ Uncertain(h)' = Uncertain(h)
        /\ RotationSound(h)' = RotationSound(h)
    BY <1>1, <1>3 DEF Intended, Uncertain, RotationSound, Held
  <2>3. releases[h] = Null
    BY DEF NoReleases
  <2>4. h \in assigned' => Held(h) /\ Naming(h) # {}
    BY <1>2 DEF Durable
  <2> QED
    BY <1>1, <1>2, <1>3, <2>1, <2>2, <2>3, <2>4 DEF Durable
<1> QED
  BY <1>4, <1>5, <1>6

LEMMA SendAcquireSound ==
    ASSUME ScaleSetInv, SendAcquire
    PROVE  LaneSound'
<1>1. /\ adapter # Null /\ adapter.pc = "send" /\ adapter.pc \in Sending
      /\ UNCHANGED ledgerVars /\ UNCHANGED stores
  BY DEF SendAcquire, At, Sending
<1>2. PICK S \in SUBSET adapter.taken :
          /\ adapter.taken \cap assigned \subseteq S
          /\ assigned' = assigned \cup S
          /\ \/ adapter' = [adapter EXCEPT !.pc = "answered", !.answer = S, !.todo = {}]
             \/ adapter' = [adapter EXCEPT !.pc = "lost"]
  BY DEF SendAcquire, Call
<1>3. /\ StoresTypeOK /\ AdapterTypeOK /\ adapter \in Adapter /\ PlaceSound
      /\ adapter.taken \subseteq Holders
  BY <1>1, Here
<1>4. /\ NoReleases /\ NoRotations /\ adapter.todo \subseteq adapter.taken
      /\ \A h \in adapter.taken : Held(h) /\ InBatch(h) /\ request[h] # Null
  BY <1>1, AtBatch
<1>5. /\ adapter.todo = adapter.taken /\ \A h \in adapter.taken : Intended(h)
      /\ \A h \in Holders : Intended(h) => h \in adapter.todo
  BY <1>1, <1>3 DEF PlaceSound, SendingSound, IntentsThere
<1>6. StoresTypeOK' /\ (\A h \in Holders : Durable(h)') /\ ReleasesSound'
  <2>1. S \in SUBSET Holders /\ \A h \in S : Held(h) /\ Naming(h) # {}
    BY <1>2, <1>3, <1>4 DEF InBatch
  <2> QED
    BY <1>1, <1>2, <1>4, <2>1, AssignedSound
<1>7. adapter' \in Adapter
  BY <1>2, <1>3 DEF Adapter, Phases
<1>8. /\ adapter'.pid = adapter.pid /\ adapter'.batch = adapter.batch
      /\ adapter'.taken = adapter.taken
      /\ \/ adapter'.pc = "answered" /\ adapter'.answer = S /\ adapter'.todo = {}
         \/ adapter'.pc = "lost" /\ adapter'.todo = adapter.todo
  BY <1>2, <1>3 DEF Adapter
<1>9. permits' = permits /\ alive' = alive
  BY <1>1, LedgerKept
<1>10. /\ request' = request /\ batches' = batches
  BY <1>1 DEF stores
<1>11. AdapterTypeOK'
  BY <1>1, <1>3, <1>7, <1>8, <1>9, <1>10, AdapterKept
<1>12. /\ adapter'.pc \in Sending /\ adapter'.todo \subseteq adapter.taken
       /\ adapter'.pc = "answered" => adapter'.answer \subseteq adapter.taken
  BY <1>2, <1>4, <1>8 DEF Sending
<1>13. \A k \in adapter.taken :
             /\ request'[k] # Null /\ request'[k].token = request[k].token
             /\ Held(k)' /\ permits'[k].token = permits[k].token
  BY <1>4, <1>9, <1>10 DEF Held
<1>14. /\ BatchOfPass' /\ Open(adapter.batch)'
       /\ \A k \in adapter'.taken :
             /\ Owns(k, request[k].token)'
             /\ batches'[adapter'.batch].tokens[k] = request'[k].token
  BY <1>1, <1>8, <1>10, <1>12, <1>13, BatchStays
<1>15. \A h \in Holders : Intended(h)' = Intended(h)
  BY <1>10 DEF Intended
<1>16. IntentsThere'
  BY <1>5, <1>8, <1>15 DEF IntentsThere, Reserving, Asking
<1>17. SendingSound'
  <2>1. adapter'.pc = "answered" =>
            /\ \A h \in adapter'.taken : Intended(h)'
            /\ assigned' \cap adapter'.taken \subseteq adapter'.answer
    BY <1>2, <1>3, <1>5, <1>8, <1>15
  <2> QED
    BY <1>8, <1>14, <2>1 DEF SendingSound
<1>18. PlaceSound'
  BY <1>1, <1>4, <1>12, <1>14, <1>16, <1>17, StagesKept, ReachSending
<1> QED
  BY <1>6, <1>11, <1>18 DEF LaneSound

-----------------------------------------------------------------------------
(* The answer is applied *)

\* What the steps that apply the answer to a repeated call use
LEMMA AtAsking ==
    ASSUME ScaleSetInv, adapter # Null, adapter.pc \in Asking
    PROVE  /\ NoRotations /\ NoIntents /\ AskingSound
           /\ adapter.pc = "resend" => NoReleases
           /\ \A h \in Holders : releases[h] # Null => releases[h].batch = 0
           /\ adapter.batch \in DOMAIN batches
           /\ \A h \in adapter.taken : request[h] # Null
           /\ adapter.pc = "reanswered" => adapter.answer \subseteq adapter.taken
<1>1. PlaceSound
  BY Here
<1> QED
  BY <1>1 DEF PlaceSound, StagesThere, IntentsThere, AskingSound, Recovering, Asking, NoReleases

LEMMA SetAcquiredSound ==
    ASSUME ScaleSetInv, NEW h \in Holders, SetAcquired(h)
    PROVE  LaneSound'
<1>1. /\ adapter # Null /\ adapter.pc \in {"answered", "reanswered"} /\ h \in adapter.answer
      /\ request' = [request EXCEPT ![h].state = "acquired", ![h].gen = generation]
      /\ UNCHANGED ledgerVars /\ acquires' = acquires /\ releases' = releases
      /\ rotations' = rotations /\ batches' = batches /\ assigned' = assigned
      /\ adapter' = adapter
  BY DEF SetAcquired
<1>2. /\ StoresTypeOK /\ AdapterTypeOK /\ adapter \in Adapter /\ PlaceSound
      /\ adapter.taken \subseteq Holders /\ generation \in Nat
  BY <1>1, Here
<1>3. CASE adapter.pc = "answered"
  <2>1. adapter.pc \in Sending
    BY <1>3 DEF Sending
  <2>2. /\ adapter.answer \subseteq adapter.taken /\ adapter.todo \subseteq adapter.taken
    BY <1>1, <1>3, <2>1, AtBatch
  <2>3. h \in adapter.taken
    BY <1>1, <2>2
  <2>4. /\ adapter' \in Adapter /\ adapter'.pid = adapter.pid /\ adapter'.batch = adapter.batch
        /\ adapter'.taken = adapter.taken /\ adapter'.todo \subseteq adapter.taken
        /\ adapter'.pc \in Sending
        /\ adapter'.pc = "answered" => adapter'.answer \subseteq adapter.taken
    BY <1>1, <1>2, <2>1, <2>2
  <2>5. /\ StoresTypeOK' /\ (\A k \in Holders : Durable(k)') /\ ReleasesSound'
        /\ AdapterTypeOK' /\ NoReleases' /\ NoRotations'
        /\ BatchOfPass' /\ Open(adapter.batch)'
        /\ \A k \in adapter'.taken :
              /\ Owns(k, request[k].token)'
              /\ batches'[adapter'.batch].tokens[k] = request'[k].token
        /\ request'[h] # Null /\ request'[h].state = "acquired"
        /\ \A k \in Holders \ {h} : request'[k] = request[k]
    BY <1>1, <2>1, <2>3, <2>4, MemberRestated
  <2>6. /\ \A k \in Holders : Intended(k) => k \in adapter.taken
        /\ \A k \in adapter.taken : Intended(k) \/ request[k].state = "acquired"
        /\ assigned \cap adapter.taken \subseteq adapter.answer
    BY <1>1, <1>2, <1>3, <2>1 DEF PlaceSound, IntentsThere, SendingSound
  <2>7. IntentsThere'
    BY <1>1, <1>3, <2>3, <2>5, <2>6 DEF IntentsThere, Reserving, Asking, Intended
  <2>8. \A k \in adapter.taken : Intended(k)' \/ request'[k].state = "acquired"
    BY <1>2, <2>5, <2>6 DEF Intended
  <2>9. SendingSound'
    BY <1>1, <1>3, <2>5, <2>6, <2>8 DEF SendingSound
  <2>10. PlaceSound'
    BY <2>4, <2>5, <2>7, <2>9, ReachSending
  <2> QED
    BY <2>5, <2>10 DEF LaneSound
<1>4. CASE adapter.pc = "reanswered"
  <2>1. adapter.pc \in Asking
    BY <1>4 DEF Asking
  <2>2. /\ NoRotations /\ NoIntents /\ AskingSound
        /\ \A k \in Holders : releases[k] # Null => releases[k].batch = 0
        /\ request[h] # Null
    BY <1>1, <1>4, <2>1, AtAsking
  <2>3. "acquired" \in ActiveStates \cup {"eligible"}
    BY DEF ActiveStates
  <2>4. StoresTypeOK' /\ \A k \in Holders : Durable(k)'
    BY <1>1, <2>2, <2>3, RestatedSound
  <2>5. /\ request'[h] # Null /\ request'[h].state = "acquired"
        /\ \A k \in Holders \ {h} : request'[k] = request[k]
    BY <1>1, <1>2, <2>2, <2>3, RestatedRow
  <2>6. ReleasesSound'
    BY <1>1, <2>2, QuietReleases
  <2>7. AdapterTypeOK'
    BY <1>1, <1>2, LedgerKept DEF AdapterTypeOK
  <2>8. /\ NoRotations' /\ NoIntents'
        /\ \A k \in Holders : releases'[k] # Null => releases'[k].batch = 0
    BY <1>1, <2>2, <2>5 DEF NoRotations, NoIntents, Intended
  <2>9. \A k \in Holders : /\ request[k] # Null => request'[k] # Null
                           /\ Uncertain(k)' => Uncertain(k)
    BY <2>5 DEF Uncertain
  <2>10. Members(adapter.batch) \in SUBSET Holders /\ Members(adapter.batch)' = Members(adapter.batch)
    BY <1>1, <1>2, <2>1, AtAsking, BatchFacts DEF Members
  <2>11. AskingSound'
    BY <1>1, <1>2, <1>4, <2>1, <2>2, <2>9, <2>10 DEF AskingSound
  <2>12. PlaceSound'
    BY <1>1, <1>4, <2>1, <2>8, <2>11, ReachAsking
  <2> QED
    BY <2>4, <2>6, <2>7, <2>12 DEF LaneSound
<1> QED
  BY <1>1, <1>3, <1>4

\* The permit of an acquired row takes its state, epoch and owner, not a token.
LEMMA TransitionKeeps ==
    ASSUME ScaleSetInv, adapter # Null, NEW h \in Holders, NEW t,
           TransitionOwned(h, "acquiring", generation, t, adapter.pid)
    PROVE  /\ Onward /\ \A k \in Holders : KeptPermit(k)
           /\ alive' = alive /\ generation' = generation
<1> DEFINE row == [permits[h] EXCEPT !.state = "acquiring", !.gen = generation,
                                     !.pid = adapter.pid]
<1>1. /\ TypeOK /\ (\A k \in Holders : Durable(k)) /\ minted \in Nat /\ generation \in Nat
      /\ adapter.pid \in Pids
  BY Here
<1>2. /\ permits' = [permits EXCEPT ![h] = row] /\ Held(h)
      /\ minted' = minted /\ generation' = generation /\ alive' = alive
  BY DEF TransitionOwned, Owns, meta, env
<1>3. permits[h] \in PermitRow
  BY <1>1, <1>2 DEF TypeOK, Held
<1>4. row \in PermitRow
  BY <1>1, <1>3 DEF PermitRow, PermitStates
<1>5. row.token = permits[h].token /\ row.pid = adapter.pid /\ row.state = "acquiring"
  BY <1>3 DEF PermitRow
<1> HIDE DEF row
<1>6. permits'[h] = row /\ \A k \in Holders \ {h} : permits'[k] = permits[k]
  BY <1>1, <1>2 DEF TypeOK
<1>7. KeptPermit(h)
  BY <1>1, <1>2, <1>4, <1>5, <1>6, NullAssumption, ScaleSetAssumption
     DEF KeptPermit, Held, LaneStates
<1>8. \A k \in Holders \ {h} : KeptPermit(k)
  BY <1>1, <1>6 DEF KeptPermit, Held, Durable
<1>9. Onward
  BY <1>1, <1>2 DEF Onward
<1> QED
  BY <1>2, <1>7, <1>8, <1>9

LEMMA MovePermitSound ==
    ASSUME ScaleSetInv, NEW h \in Holders, MovePermit(h)
    PROVE  LaneSound'
<1>1. /\ adapter # Null /\ adapter.pc \in {"answered", "reanswered"}
      /\ TransitionOwned(h, "acquiring", generation, request[h].token, adapter.pid)
      /\ UNCHANGED <<stores, assigned>> /\ adapter' = adapter
  BY DEF MovePermit
<1>2. /\ Onward /\ \A k \in Holders : KeptPermit(k)
      /\ alive' = alive /\ generation' = generation
  BY <1>1, TransitionKeeps
<1>3. /\ request' = request /\ batches' = batches /\ releases' = releases
      /\ assigned' = assigned
  BY <1>1 DEF stores
<1>4. adapter \in Adapter /\ PlaceSound /\ adapter.taken \subseteq Holders
  BY <1>1, Here
<1>5. CASE adapter.pc = "answered"
  <2>1. adapter.pc \in Sending
    BY <1>5 DEF Sending
  <2>2. /\ adapter.answer \subseteq adapter.taken /\ adapter.todo \subseteq adapter.taken
        /\ NoReleases /\ NoRotations
        /\ \A k \in adapter.taken : request[k] # Null /\ Held(k)
    BY <1>1, <1>5, <2>1, AtBatch
  <2>3. \A k \in adapter.taken :
             /\ request'[k] # Null /\ request'[k].token = request[k].token
             /\ Held(k)' /\ permits'[k].token = permits[k].token
    BY <1>2, <1>3, <1>4, <2>2 DEF KeptPermit
  <2>4. /\ adapter'.batch = adapter.batch /\ adapter'.taken = adapter.taken
        /\ adapter'.todo \subseteq adapter.taken /\ adapter'.pc \in Sending
        /\ adapter'.pc = "answered" => adapter'.answer \subseteq adapter.taken
    BY <1>1, <2>1, <2>2
  <2>5. /\ BatchOfPass' /\ Open(adapter.batch)'
        /\ \A k \in adapter'.taken :
             /\ Owns(k, request[k].token)'
             /\ batches'[adapter'.batch].tokens[k] = request'[k].token
    BY <1>1, <1>3, <2>1, <2>3, <2>4, BatchStays
  <2>6. /\ \A k \in Holders : Intended(k) => k \in adapter.taken
        /\ \A k \in adapter.taken : Intended(k) \/ request[k].state = "acquired"
        /\ assigned \cap adapter.taken \subseteq adapter.answer
    BY <1>1, <1>4, <1>5, <2>1 DEF PlaceSound, IntentsThere, SendingSound
  <2>7. \A k \in Holders : Intended(k)' = Intended(k)
    BY <1>3 DEF Intended
  <2>8. IntentsThere'
    BY <1>1, <1>5, <2>6, <2>7 DEF IntentsThere, Reserving, Asking
  <2>9. SendingSound'
    BY <1>1, <1>3, <1>4, <1>5, <2>5, <2>6, <2>7 DEF SendingSound
  <2>10. PlaceSound'
    BY <1>1, <2>2, <2>4, <2>5, <2>8, <2>9, StagesKept, ReachSending
  <2> QED
    BY <1>1, <1>2, <1>4, <2>10, WithStoresKept
<1>6. CASE adapter.pc = "reanswered"
  <2>1. adapter.pc \in Asking
    BY <1>6 DEF Asking
  <2>2. /\ NoRotations /\ NoIntents /\ AskingSound
        /\ \A k \in Holders : releases[k] # Null => releases[k].batch = 0
    BY <1>1, <2>1, AtAsking
  <2>3. AskingSound'
    BY <1>1, <1>3, <2>2 DEF AskingSound, Members, Uncertain
  <2>4. PlaceSound'
    BY <1>1, <1>3, <1>6, <2>1, <2>2, <2>3, StagesKept, ReachAsking
  <2> QED
    BY <1>1, <1>2, <1>4, <2>4, WithStoresKept
<1> QED
  BY <1>1, <1>5, <1>6

LEMMA ObserveAcquiredSound ==
    ASSUME ScaleSetInv, NEW b \in DOMAIN batches, NEW h \in Holders, ObserveAcquired(b, h)
    PROVE  LaneSound'
<1>1. /\ adapter # Null /\ adapter.pc = "polling"
      /\ TransitionOwned(h, "acquiring", generation, request[h].token, adapter.pid)
      /\ UNCHANGED <<stores, assigned>> /\ adapter' = adapter
  BY DEF ObserveAcquired, At
<1>2. /\ Onward /\ (\A k \in Holders : KeptPermit(k)) /\ alive' = alive
  BY <1>1, TransitionKeeps
<1>3. PlaceSound'
  BY <1>1, Here, AtPolling, StagesKept, ReachPolling
<1> QED
  BY <1>1, <1>2, <1>3, Here, WithStoresKept

LEMMA StageMissingSound ==
    ASSUME ScaleSetInv, StageMissing
    PROVE  LaneSound'
<1> DEFINE missing == adapter.taken \ adapter.answer
<1>1. /\ adapter # Null /\ adapter.pc = "answered" /\ adapter.pc \in Sending
      /\ AnswerApplied /\ Goto("missing")
      /\ releases' = [h \in Holders |->
             IF h \in missing THEN [token |-> request[h].token, batch |-> adapter.batch]
             ELSE releases[h]]
      /\ UNCHANGED ledgerVars /\ request' = request /\ acquires' = acquires
      /\ rotations' = rotations /\ batches' = batches /\ assigned' = assigned
  BY DEF StageMissing, At, Sending
<1>2. /\ StoresTypeOK /\ AdapterTypeOK /\ adapter \in Adapter /\ PlaceSound
      /\ adapter.taken \subseteq Holders /\ adapter.batch \in Nat
      /\ TypeOK /\ TokensFenceAttempts /\ \A h \in Holders : Durable(h)
  BY <1>1, Here
<1>3. /\ NoReleases /\ NoRotations
      /\ adapter.batch \in DOMAIN batches /\ Members(adapter.batch) = adapter.taken
      /\ adapter.todo \subseteq adapter.taken /\ adapter.answer \subseteq adapter.taken
      /\ \A h \in adapter.taken :
            request[h] # Null /\ Owns(h, request[h].token) /\ Held(h) /\ InBatch(h)
  BY <1>1, AtBatch
<1>4. /\ \A h \in Holders : Intended(h) => h \in adapter.taken
      /\ assigned \cap adapter.taken \subseteq adapter.answer
  BY <1>1, <1>2 DEF PlaceSound, IntentsThere, SendingSound
<1>5. \A h \in adapter.answer : request[h].state = "acquired"
  BY <1>1 DEF AnswerApplied
<1> HIDE DEF missing
<1>6. missing \subseteq Holders /\ missing \subseteq adapter.taken
      /\ \A h \in adapter.taken : h \in missing \/ h \in adapter.answer
  BY <1>2 DEF missing
<1>7. \A h \in missing : request[h].token \in Token
  BY <1>2, <1>3, <1>6, OwnedTokens
<1>8. \A h \in missing : /\ releases'[h] \in ReleaseRow /\ releases'[h] # Null
                         /\ releases'[h].batch = adapter.batch
  <2>1. ASSUME NEW h \in missing
        PROVE  /\ releases'[h] \in ReleaseRow /\ releases'[h].batch = adapter.batch
    <3> DEFINE row == [token |-> request[h].token, batch |-> adapter.batch]
    <3>1. row \in ReleaseRow /\ row.batch = adapter.batch
      BY <1>2, <1>7 DEF ReleaseRow
    <3>2. releases'[h] = row
      BY <1>1, <1>6
    <3> HIDE DEF row
    <3> QED
      BY <3>1, <3>2
  <2> QED
    BY <2>1, StoresAssumption
<1>9. \A h \in Holders \ missing : releases'[h] = Null
  BY <1>1, <1>3 DEF NoReleases
<1>10. releases' \in [Holders -> ReleaseRow \cup {Null}]
  <2>1. releases' = [h \in Holders |-> releases'[h]]
    BY <1>1
  <2>2. \A h \in Holders : releases'[h] \in ReleaseRow \cup {Null}
    BY <1>8, <1>9
  <2> QED
    BY <2>1, <2>2
<1>11. StoresTypeOK'
  BY <1>1, <1>2, <1>10 DEF StoresTypeOK
<1>12. /\ permits' = permits /\ generation' = generation /\ minted' = minted /\ alive' = alive
  BY <1>1, LedgerKept
<1>13. ASSUME NEW h \in Holders PROVE Durable(h)'
  <2>1. /\ Naming(h)' = Naming(h) /\ InBatch(h)' = InBatch(h) /\ Held(h)' = Held(h)
        /\ Named(h)' = Named(h)
    BY <1>1, <1>12 DEF Naming, InBatch, Members, Open, Held, Named
  <2>2. Intended(h)' = Intended(h) /\ Uncertain(h)' = Uncertain(h)
    BY <1>1 DEF Intended, Uncertain
  <2>3. RotationSound(h)'
    BY <1>1, <1>3 DEF RotationSound, NoRotations
  <2>4. releases'[h] # Null => request[h] # Null /\ h \notin assigned
    BY <1>3, <1>4, <1>6, <1>9 DEF missing
  <2>5. request[h] = Null => ~Staged(h)'
    BY <1>1, <1>2, <2>4 DEF Durable, Staged
  <2>6. releases[h] = Null
    BY <1>3 DEF NoReleases
  <2> QED
    BY <1>1, <1>2, <1>12, <2>1, <2>2, <2>3, <2>4, <2>5, <2>6 DEF Durable
<1>14. \A k \in adapter.taken :
           \/ releases'[k] # Null /\ releases'[k].batch = adapter.batch
           \/ request'[k].state \in {"acquired", "eligible"}
  BY <1>1, <1>5, <1>6, <1>8
<1>15. ReleasesSound'
  <2>1. ASSUME NEW h \in Holders, releases'[h] # Null
        PROVE  h \in adapter.taken /\ releases'[h].batch = adapter.batch
    BY <1>6, <1>8, <1>9, <2>1
  <2>2. DOMAIN batches' = DOMAIN batches
        /\ DOMAIN batches'[adapter.batch].tokens = adapter.taken
    BY <1>1, <1>3 DEF Members
  <2> QED
    BY <1>3, <1>14, <2>1, <2>2 DEF ReleasesSound, Members
<1>16. /\ adapter' \in Adapter /\ adapter'.pid = adapter.pid /\ adapter'.pc = "missing"
       /\ adapter'.batch = adapter.batch /\ adapter'.taken = adapter.taken
       /\ adapter'.todo = adapter.todo /\ adapter'.answer = adapter.answer
  BY <1>1, <1>2, GotoFacts DEF Phases
<1>17. AdapterTypeOK'
  BY <1>1, <1>2, <1>12, <1>16, AdapterKept
<1>18. NoRotations'
  BY <1>1, <1>3 DEF NoRotations
<1>19. IntentsThere'
  <2>1. \A h \in Holders : Intended(h)' => releases'[h] # Null
    BY <1>1, <1>4, <1>5, <1>6, <1>8 DEF Intended
  <2> QED
    BY <1>16, <2>1 DEF IntentsThere, Reserving, Asking
<1>20. BatchOfPass'
  BY <1>1, <1>3, <1>16 DEF BatchOfPass, Members
<1>21. MissingSound'
  BY <1>14, <1>16 DEF MissingSound
<1>22. PlaceSound'
  BY <1>16, <1>18, <1>19, <1>20, <1>21, ReachMissing
<1> QED
  BY <1>11, <1>13, <1>15, <1>17, <1>22 DEF LaneSound

\* The pass ends by settling a batch without doubts.
LEMMA SettledSound ==
    ASSUME ScaleSetInv, adapter # Null, NEW b \in DOMAIN batches,
           batches' = [batches EXCEPT ![b].state = "resolved"],
           (adapter' = adapter /\ adapter.pc = "polling") \/ Poll,
           request' = request, acquires' = acquires, releases' = releases,
           rotations' = rotations, assigned' = assigned, UNCHANGED ledgerVars,
           NoReleases, NoRotations, NoIntents, \A h \in Members(b) : ~Uncertain(h)
    PROVE  LaneSound'
<1>1. /\ StoresTypeOK /\ AdapterTypeOK /\ adapter \in Adapter /\ "resolved" \in BatchStates
  BY Here DEF BatchStates
<1>2. \A h \in Members(b) : ~Intended(h) /\ ~Uncertain(h)
  BY <1>1, BatchFacts DEF NoIntents
<1>3. /\ StoresTypeOK' /\ (\A h \in Holders : Durable(h)') /\ ReleasesSound'
      /\ Len(batches') = Len(batches)
  BY <1>1, <1>2, BatchStateSound
<1>4. /\ adapter' \in Adapter /\ adapter'.pid = adapter.pid /\ adapter'.pc = "polling"
      /\ adapter'.batch \in {adapter.batch, 0}
  BY <1>1, PollFacts
<1>5. alive' = alive
  BY LedgerKept
<1>6. AdapterTypeOK'
  BY <1>1, <1>3, <1>4, <1>5, AdapterKept
<1>7. NoReleases' /\ NoRotations' /\ NoIntents'
  BY DEF NoReleases, NoRotations, NoIntents, Intended
<1>8. PlaceSound'
  BY <1>4, <1>7, ReachPolling
<1> QED
  BY <1>3, <1>6, <1>8 DEF LaneSound

LEMMA FinishAcquirePassSound ==
    ASSUME ScaleSetInv, FinishAcquirePass
    PROVE  LaneSound'
<1>1. /\ adapter # Null /\ adapter.pc = "missing" /\ NoReleases
      /\ batches' = [batches EXCEPT ![adapter.batch].state = "resolved"] /\ Poll
      /\ UNCHANGED ledgerVars /\ request' = request /\ acquires' = acquires
      /\ releases' = releases /\ rotations' = rotations /\ assigned' = assigned
  BY DEF FinishAcquirePass, At
<1>2. PlaceSound /\ adapter.taken \subseteq Holders
  BY <1>1, Here
<1>3. /\ adapter.batch \in DOMAIN batches /\ Members(adapter.batch) = adapter.taken
      /\ \A h \in adapter.taken :
             releases[h] # Null \/ request[h].state \in {"acquired", "eligible"}
  BY <1>1, <1>2 DEF PlaceSound, BatchOfPass, MissingSound
<1>4. NoRotations /\ NoIntents
  BY <1>1, <1>2 DEF PlaceSound, StagesThere, IntentsThere, Recovering, NoReleases, NoIntents
<1>5. \A h \in Members(adapter.batch) : ~Uncertain(h)
  BY <1>1, <1>2, <1>3 DEF NoReleases, Uncertain
<1> QED
  BY <1>1, <1>3, <1>4, <1>5, SettledSound

-----------------------------------------------------------------------------
(* Open batches are settled, or asked for again *)

LEMMA ResolveObservedSound ==
    ASSUME ScaleSetInv, NEW b \in DOMAIN batches, ResolveObserved(b)
    PROVE  LaneSound'
<1>1. /\ adapter # Null /\ adapter.pc = "polling" /\ InDoubt(b) = {}
      /\ batches' = [batches EXCEPT ![b].state = "resolved"] /\ adapter' = adapter
      /\ UNCHANGED ledgerVars /\ request' = request /\ acquires' = acquires
      /\ releases' = releases /\ rotations' = rotations /\ assigned' = assigned
  BY DEF ResolveObserved, At
<1>2. NoReleases /\ NoRotations /\ NoIntents
  BY <1>1, Here, AtPolling
<1>3. \A h \in Members(b) : ~Uncertain(h)
  BY <1>1 DEF InDoubt, Uncertain
<1> QED
  BY <1>1, <1>2, <1>3, SettledSound

LEMMA ReacquireSound ==
    ASSUME ScaleSetInv, NEW b \in DOMAIN batches, Reacquire(b)
    PROVE  LaneSound'
<1>1. /\ adapter # Null /\ adapter.pc = "polling"
      /\ adapter' = [Idle(adapter.pid, "resend") EXCEPT !.taken = InDoubt(b), !.batch = b]
      /\ UNCHANGED <<stores, assigned>> /\ UNCHANGED ledgerVars
  BY DEF Reacquire, At
<1>2. /\ StoresTypeOK /\ AdapterTypeOK /\ PlaceSound /\ ReleasesSound
      /\ adapter.pid \in Pids /\ adapter.pid \in alive /\ \A h \in Holders : Durable(h)
  BY <1>1, Here
<1>3. /\ b \in 1..Len(batches) /\ Len(batches) \in Nat /\ Members(b) \in SUBSET Holders
  BY <1>2, BatchFacts
<1>4. \A h \in Members(b) : request[h] # Null
  BY <1>2, <1>3 DEF Durable, Naming
<1>5. InDoubt(b) \in SUBSET Holders /\ InDoubt(b) \subseteq Members(b)
  BY <1>3 DEF InDoubt
<1>6. adapter' \in Adapter
  <2>1. adapter' = [pid |-> adapter.pid, pc |-> "resend", todo |-> {}, taken |-> InDoubt(b),
                    batch |-> b, answer |-> {}]
    BY <1>1 DEF Idle
  <2>2. b \in Nat
    BY <1>3
  <2> QED
    BY <1>2, <1>5, <2>1, <2>2 DEF Adapter, Phases
<1>7. /\ adapter'.pid = adapter.pid /\ adapter'.pc = "resend" /\ adapter'.batch = b
      /\ adapter'.taken = InDoubt(b)
  BY <1>1 DEF Idle
<1>8. /\ Onward /\ (\A h \in Holders : KeptPermit(h)) /\ alive' = alive
  BY <1>1, LedgerKept
<1>9. StoresTypeOK' /\ (\A h \in Holders : Durable(h)') /\ ReleasesSound'
  BY <1>1, <1>2, <1>8, StoresKept
<1>10. request' = request /\ batches' = batches /\ releases' = releases
  BY <1>1 DEF stores
<1>11. AdapterTypeOK'
  BY <1>2, <1>3, <1>6, <1>7, <1>8, <1>10 DEF AdapterTypeOK
<1>12. AskingSound'
  <2>1. \A h \in Members(b) : Uncertain(h) <=> h \in InDoubt(b)
    BY <1>4 DEF Uncertain, InDoubt
  <2> QED
    BY <1>4, <1>5, <1>7, <1>10, <2>1 DEF AskingSound, Members, Uncertain
<1>13. NoReleases /\ NoRotations /\ NoIntents
  BY <1>1, <1>2, AtPolling
<1>14. NoReleases' /\ NoRotations' /\ NoIntents'
  BY <1>1, <1>13, StagesKept
<1>15. PlaceSound'
  BY <1>7, <1>12, <1>14, ReachAsking DEF Asking, NoReleases
<1> QED
  BY <1>9, <1>11, <1>15 DEF LaneSound

LEMMA SendAgainSound ==
    ASSUME ScaleSetInv, SendAgain
    PROVE  LaneSound'
<1>1. /\ adapter # Null /\ adapter.pc = "resend" /\ adapter.pc \in Asking
      /\ UNCHANGED ledgerVars /\ UNCHANGED stores
  BY DEF SendAgain, At, Asking
<1>2. PICK S \in SUBSET adapter.taken :
          /\ adapter.taken \cap assigned \subseteq S
          /\ assigned' = assigned \cup S
          /\ \/ adapter' = [adapter EXCEPT !.pc = "reanswered", !.answer = S, !.todo = {}]
             \/ adapter' = Idle(adapter.pid, "polling")
  BY DEF SendAgain, Call
<1>3. /\ StoresTypeOK /\ AdapterTypeOK /\ adapter \in Adapter
      /\ adapter.taken \subseteq Holders /\ \A h \in Holders : Durable(h)
  BY <1>1, Here
<1>4. NoReleases /\ NoRotations /\ NoIntents /\ AskingSound
  BY <1>1, AtAsking
<1>5. /\ adapter.taken \subseteq Members(adapter.batch) /\ adapter.batch \in DOMAIN batches
      /\ \A h \in adapter.taken : Uncertain(h) /\ request[h] # Null
      /\ \A h \in Members(adapter.batch) : Uncertain(h) => h \in adapter.taken
  BY <1>1, <1>4 DEF AskingSound
<1>6. \A h \in adapter.taken : Held(h) /\ Naming(h) # {}
  BY <1>3, <1>4, <1>5 DEF Durable, NoReleases, Naming
<1>7. StoresTypeOK' /\ (\A h \in Holders : Durable(h)') /\ ReleasesSound'
  <2>1. S \in SUBSET Holders /\ \A h \in S : Held(h) /\ Naming(h) # {}
    BY <1>2, <1>3, <1>6
  <2> QED
    BY <1>1, <1>2, <1>4, <2>1, AssignedSound
<1>8. alive' = alive /\ request' = request /\ batches' = batches /\ releases' = releases
  BY <1>1, LedgerKept DEF stores
<1>9. NoReleases' /\ NoRotations' /\ NoIntents'
  BY <1>1, <1>4, StagesKept
<1>10. CASE adapter' = Idle(adapter.pid, "polling")
  <2>1. /\ adapter' \in Adapter /\ adapter'.pid = adapter.pid /\ adapter'.pc = "polling"
        /\ adapter'.batch = 0
    BY <1>3, <1>10, PollFacts DEF Poll
  <2>2. AdapterTypeOK'
    BY <1>1, <1>3, <1>8, <2>1, AdapterKept
  <2>3. PlaceSound'
    BY <1>9, <2>1, ReachPolling
  <2> QED
    BY <1>7, <2>2, <2>3 DEF LaneSound
<1>11. CASE adapter' = [adapter EXCEPT !.pc = "reanswered", !.answer = S, !.todo = {}]
  <2>1. adapter' \in Adapter
    BY <1>2, <1>3, <1>11 DEF Adapter, Phases
  <2>2. /\ adapter'.pid = adapter.pid /\ adapter'.pc = "reanswered"
        /\ adapter'.batch = adapter.batch /\ adapter'.taken = adapter.taken
        /\ adapter'.answer = S
    BY <1>3, <1>11 DEF Adapter
  <2>3. AdapterTypeOK'
    BY <1>1, <1>3, <1>8, <2>1, <2>2, AdapterKept
  <2>4. AskingSound'
    BY <1>2, <1>5, <1>8, <2>2 DEF AskingSound, Members, Uncertain
  <2>5. PlaceSound'
    BY <1>9, <2>2, <2>4, ReachAsking DEF Asking, NoReleases
  <2> QED
    BY <1>7, <2>3, <2>5 DEF LaneSound
<1> QED
  BY <1>2, <1>10, <1>11

LEMMA StageMissingAgainSound ==
    ASSUME ScaleSetInv, NEW h \in Holders, StageMissingAgain(h)
    PROVE  LaneSound'
<1> DEFINE row == [token |-> request[h].token, batch |-> 0]
<1>1. /\ adapter # Null /\ adapter.pc = "reanswered" /\ adapter.pc \in Asking
      /\ NoReleases /\ h \in adapter.taken \ adapter.answer
      /\ request[h].state = "uncertain"
      /\ releases' = [releases EXCEPT ![h] = row]
      /\ UNCHANGED ledgerVars /\ request' = request /\ acquires' = acquires
      /\ rotations' = rotations /\ batches' = batches /\ assigned' = assigned
      /\ adapter' = adapter
  BY DEF StageMissingAgain, At, Asking
<1>2. /\ StoresTypeOK /\ AdapterTypeOK /\ (\A k \in Holders : Durable(k))
      /\ TypeOK /\ TokensFenceAttempts
  BY <1>1, Here
<1>3. /\ NoRotations /\ NoIntents /\ AskingSound /\ request[h] # Null
  BY <1>1, AtAsking
<1>4. h \notin assigned
  BY <1>1, <1>3 DEF AskingSound
<1>5. request[h].token \in Token
  <2>1. InBatch(h)
    BY <1>1, <1>2, <1>3 DEF Durable, Uncertain
  <2>2. PICK b \in Naming(h) : batches[b].tokens[h] = request[h].token
    BY <2>1 DEF InBatch
  <2>3. b \in DOMAIN batches /\ h \in Members(b)
    BY DEF Naming
  <2> QED
    BY <1>2, <2>2, <2>3, BatchFacts
<1>6. row \in ReleaseRow /\ row.batch = 0
  BY <1>5 DEF ReleaseRow
<1> HIDE DEF row
<1>7. releases'[h] = row /\ row # Null /\ \A k \in Holders \ {h} : releases'[k] = releases[k]
  BY <1>1, <1>2, <1>6, StoresAssumption DEF StoresTypeOK
<1>8. StoresTypeOK'
  BY <1>1, <1>2, <1>6 DEF StoresTypeOK
<1>9. /\ Onward /\ (\A k \in Holders : KeptPermit(k)) /\ permits' = permits
      /\ generation' = generation /\ minted' = minted /\ alive' = alive
  BY <1>1, LedgerKept
<1>10. \A k \in Holders \ {h} : Durable(k)'
  <2>1. \A k \in Holders \ {h} : KeptRows(k) /\ KeptPermit(k)
    BY <1>1, <1>7, <1>9 DEF KeptRows
  <2> QED
    BY <1>1, <1>2, <1>9, <2>1, OthersDurable
<1>11. Durable(h)'
  <2>1. /\ Naming(h)' = Naming(h) /\ InBatch(h)' = InBatch(h) /\ Held(h)' = Held(h)
        /\ Named(h)' = Named(h)
    BY <1>1, <1>9 DEF Naming, InBatch, Members, Open, Held, Named
  <2>2. Intended(h)' = Intended(h) /\ Uncertain(h)' = Uncertain(h)
    BY <1>1 DEF Intended, Uncertain
  <2>3. RotationSound(h)'
    BY <1>1, <1>3 DEF RotationSound, NoRotations
  <2> QED
    BY <1>1, <1>2, <1>3, <1>4, <1>7, <1>9, <2>1, <2>2, <2>3 DEF Durable
<1>12. \A k \in Holders : releases'[k] # Null => releases'[k].batch = 0
  BY <1>1, <1>6, <1>7 DEF NoReleases
<1>13. ReleasesSound'
  BY <1>12, QuietReleases
<1>14. AdapterTypeOK'
  BY <1>1, <1>2, <1>9 DEF AdapterTypeOK
<1>15. AskingSound' /\ NoRotations' /\ NoIntents'
  BY <1>1, <1>3 DEF AskingSound, Members, Uncertain, NoRotations, NoIntents, Intended
<1>16. PlaceSound'
  BY <1>1, <1>12, <1>15, ReachAsking
<1> QED
  BY <1>8, <1>10, <1>11, <1>13, <1>14, <1>16 DEF LaneSound

LEMMA FinishReacquireSound ==
    ASSUME ScaleSetInv, FinishReacquire
    PROVE  LaneSound'
<1>1. /\ adapter # Null /\ adapter.pc = "reanswered" /\ adapter.pc \in Asking
      /\ AnswerApplied /\ NoReleases
      /\ \A h \in adapter.taken \ adapter.answer : request[h].state = "eligible"
      /\ batches' = [batches EXCEPT ![adapter.batch].state = "resolved"] /\ Poll
      /\ UNCHANGED ledgerVars /\ request' = request /\ acquires' = acquires
      /\ releases' = releases /\ rotations' = rotations /\ assigned' = assigned
  BY DEF FinishReacquire, At, Asking
<1>2. /\ NoRotations /\ NoIntents /\ AskingSound /\ adapter.batch \in DOMAIN batches
  BY <1>1, AtAsking
<1>3. \A h \in adapter.taken : request[h].state \in {"acquired", "eligible"}
  BY <1>1 DEF AnswerApplied
<1>4. \A h \in Members(adapter.batch) : ~Uncertain(h)
  BY <1>1, <1>2, <1>3 DEF AskingSound, Uncertain
<1> QED
  BY <1>1, <1>2, <1>4, SettledSound

-----------------------------------------------------------------------------
(* Every step *)

LEMMA InitSound == ScaleSetInit => ScaleSetInv
<1> SUFFICES ASSUME ScaleSetInit PROVE ScaleSetInv
  OBVIOUS
<1>1. LedgerInit
  BY DEF ScaleSetInit
<1>2. \A h \in Holders : ~Held(h)
  BY <1>1, ScaleSetAssumption DEF LedgerInit, HeldSet
<1>3. LedgerSound
  BY <1>1, InitTypeOK, InitTokens DEF LedgerSound, LedgerInit
<1>4. /\ \A h \in Holders : /\ request[h] = Null /\ acquires[h] = Null
                            /\ releases[h] = Null /\ rotations[h] = Null
      /\ batches = <<>> /\ assigned = {} /\ adapter = Null
  BY DEF ScaleSetInit
<1>5. StoresTypeOK /\ AdapterTypeOK /\ ReleasesSound
  <2>1. batches \in Seq(BatchRow)
    BY <1>4
  <2> QED
    BY <1>4, <2>1 DEF ScaleSetInit, StoresTypeOK, AdapterTypeOK, ReleasesSound
<1>6. ASSUME NEW h \in Holders PROVE Durable(h)
  <2>1. Naming(h) = {}
    BY <1>4 DEF Naming
  <2> QED
    BY <1>2, <1>4, <2>1 DEF Durable, Staged, RotationSound, Intended, Uncertain
<1>7. PlaceSound
  BY <1>4 DEF PlaceSound, StagesThere, IntentsThere, StartupSound, ReservingSound, BatchOfPass,
              SendingSound, MissingSound, AskingSound
<1> QED
  BY <1>3, <1>5, <1>6, <1>7 DEF ScaleSetInv, LaneSound

\* A step of the stores, of the daemon's place or of the service alone
LEMMA AloneKeepsToLedger ==
    ASSUME ScaleSetInv, UNCHANGED ledgerVars
    PROVE  LedgerStep
<1>1. now' = now /\ recoveryClaim' = recoveryClaim /\ minted' = minted
  BY DEF ledgerVars, aux, env
<1> QED
  BY <1>1, CallsKeepClaim DEF ScaleSetInv

LEMMA StepsKeepToLedger ==
    ASSUME ScaleSetInv, ScaleSetNext
    PROVE  LedgerStep
<1>1. CASE (\E p \in Pids : StartDaemon(p)) \/ DaemonDies
  BY <1>1, StartKeepsToLedger
<1>2. CASE ConfigureLedger \/ OpenEpoch \/ AttestLedger \/ EnsureRecoveryClaim
  <2>1. adapter # Null
    BY <1>2 DEF ConfigureLedger, OpenEpoch, AttestLedger, EnsureRecoveryClaim, At
  <2> QED
    BY <1>2, <2>1, PassKeepsToLedger
<1>3. CASE PassStep /\ ~(ConfigureLedger \/ OpenEpoch \/ AttestLedger \/ EnsureRecoveryClaim)
  <2>1. UNCHANGED ledgerVars
    BY <1>3 DEF PassStep, ReleasesRecovered, AcquiresRecovered, FinishRotations, RecoveryFails,
                FinishStartup, BeginAcquirePass, RecordIntended, SendAcquire, ResolveUncertain,
                StageMissing, FinishAcquirePass, SendAgain, FinishReacquire
  <2> QED
    BY <2>1, AloneKeepsToLedger
<1>4. ASSUME NEW h \in Holders,
             \/ ReleasePermit(h) \/ StageRotation(h) \/ RotateAttempt(h)
             \/ ObserveGlobalDemand(h) \/ StageAcquire(h) \/ Reserve(h) \/ MovePermit(h)
             \/ \E b \in DOMAIN batches : ObserveAcquired(b, h)
      PROVE  LedgerStep
  <2>1. adapter # Null
    BY <1>4 DEF ReleasePermit, StageRotation, RotateAttempt, ObserveGlobalDemand, StageAcquire,
                Reserve, MovePermit, ObserveAcquired, At
  <2> QED
    BY <1>4, <2>1, RequestsKeepToLedger
<1>5. ASSUME NEW h \in Holders,
             \/ FinishRelease(h) \/ RecoverAcquire(h) \/ OrphanMember(h) \/ ResetStaleGrant(h)
             \/ SubmitOffer(h) \/ GrantOldest(h) \/ ProjectToken(h) \/ DropStage(h)
             \/ UnstageAcquire(h) \/ SetIntent(h) \/ MarkUncertain(h) \/ SetAcquired(h)
             \/ StageMissingAgain(h)
      PROVE  LedgerStep
  <2>1. UNCHANGED ledgerVars
    BY <1>5 DEF FinishRelease, RecoverAcquire, OrphanMember, ResetStaleGrant, SubmitOffer,
                GrantOldest, ProjectToken, DropStage, UnstageAcquire, SetIntent, MarkUncertain,
                SetAcquired, StageMissingAgain
  <2> QED
    BY <2>1, AloneKeepsToLedger
<1>6. ASSUME NEW b \in DOMAIN batches, OrphanBatch(b) \/ ResolveObserved(b) \/ Reacquire(b)
      PROVE  LedgerStep
  <2>1. UNCHANGED ledgerVars
    BY <1>6 DEF OrphanBatch, ResolveObserved, Reacquire
  <2> QED
    BY <2>1, AloneKeepsToLedger
<1>7. ASSUME NEW h \in Holders, StartupStep(h) \/ RequestStep(h) PROVE LedgerStep
  BY <1>4, <1>5, <1>7 DEF StartupStep, RequestStep
<1>8. ASSUME NEW b \in DOMAIN batches, BatchStep(b) PROVE LedgerStep
  BY <1>4, <1>6, <1>8 DEF BatchStep
<1> QED
  BY <1>1, <1>2, <1>3, <1>7, <1>8 DEF ScaleSetNext

LEMMA StepsKeepLane ==
    ASSUME ScaleSetInv, ScaleSetNext
    PROVE  LaneSound'
<1>1. CASE (\E p \in Pids : StartDaemon(p)) \/ DaemonDies
  BY <1>1, StartSound, DeathSound
<1>2. CASE PassStep
  BY <1>2, ConfigureSound, OpenEpochSound, AttestSound, ClaimSound, RecoveredSound,
     FinishRotationsSound, FinishStartupSound, BeginAcquirePassSound, RecordIntendedSound,
     SendAcquireSound, ResolveUncertainSound, StageMissingSound, FinishAcquirePassSound,
     SendAgainSound, FinishReacquireSound
     DEF PassStep
<1>3. ASSUME NEW h \in Holders, StartupStep(h) PROVE LaneSound'
  BY <1>3, ReleasePermitSound, FinishReleaseSound, RecoverAcquireSound, StageRotationSound,
     RotateAttemptSound, OrphanMemberSound, ResetStaleGrantSound
     DEF StartupStep
<1>4. ASSUME NEW h \in Holders, RequestStep(h) PROVE LaneSound'
  BY <1>4, SubmitOfferSound, ObserveGlobalDemandSound, GrantOldestSound, StageAcquireSound,
     ReserveSound, ProjectTokenSound, DropStageSound, UnstageAcquireSound, SetIntentSound,
     MarkUncertainSound, SetAcquiredSound, MovePermitSound, StageMissingAgainSound
     DEF RequestStep
<1>5. ASSUME NEW b \in DOMAIN batches, BatchStep(b) PROVE LaneSound'
  BY <1>5, OrphanBatchSound, ObserveAcquiredSound, ResolveObservedSound, ReacquireSound
     DEF BatchStep
<1> QED
  BY <1>1, <1>2, <1>3, <1>4, <1>5 DEF ScaleSetNext

LEMMA StutterKeepsLane ==
    ASSUME ScaleSetInv, UNCHANGED scaleVars
    PROVE  LaneSound'
<1>1. /\ request' = request /\ acquires' = acquires /\ releases' = releases
      /\ rotations' = rotations /\ batches' = batches /\ assigned' = assigned
      /\ adapter' = adapter /\ UNCHANGED ledgerVars /\ UNCHANGED <<stores, assigned>>
  BY DEF scaleVars, stores
<1>2. /\ Onward /\ (\A h \in Holders : KeptPermit(h)) /\ permits' = permits
      /\ generation' = generation /\ recoveryClaim' = recoveryClaim /\ alive' = alive
  BY <1>1, LedgerKept
<1>3. /\ StoresTypeOK /\ AdapterTypeOK /\ ReleasesSound /\ PlaceSound
      /\ \A h \in Holders : Durable(h)
  BY DEF ScaleSetInv, LaneSound
<1>4. StoresTypeOK' /\ (\A h \in Holders : Durable(h)') /\ ReleasesSound'
  BY <1>1, <1>2, <1>3, StoresKept
<1>5. AdapterTypeOK'
  BY <1>1, <1>2, <1>3 DEF AdapterTypeOK
<1>6. /\ NoReleases' = NoReleases /\ NoRotations' = NoRotations
      /\ NoIntents' = NoIntents /\ OldIntents' = OldIntents
  BY <1>1, <1>2, StagesKept
<1>7. \A h \in Holders : /\ Intended(h)' = Intended(h) /\ InBatch(h)' = InBatch(h)
                         /\ Held(h)' = Held(h)
  BY <1>1, <1>2 DEF Intended, InBatch, Naming, Members, Open, Held
<1>8. StagesThere'
  BY <1>1, <1>3, <1>6 DEF PlaceSound, StagesThere
<1>9. IntentsThere'
  BY <1>1, <1>3, <1>6, <1>7 DEF PlaceSound, IntentsThere
<1>10. StartupSound'
  BY <1>1, <1>2, <1>3 DEF PlaceSound, StartupSound, InBatch, Naming, Members, Open, Held
<1>11. ReservingSound'
  BY <1>1, <1>2, <1>3 DEF PlaceSound, ReservingSound, IsNext, Ahead, Owns, Held
<1>12. BatchOfPass' /\ SendingSound'
  BY <1>1, <1>2, <1>3 DEF PlaceSound, BatchOfPass, SendingSound, Members, Open, Owns, Held,
                          Intended
<1>13. MissingSound' /\ AskingSound'
  BY <1>1, <1>2, <1>3 DEF PlaceSound, MissingSound, AskingSound, Members, Uncertain
<1> QED
  BY <1>4, <1>5, <1>8, <1>9, <1>10, <1>11, <1>12, <1>13 DEF LaneSound, PlaceSound

LEMMA StepSound == ScaleSetInv /\ [ScaleSetNext]_scaleVars => ScaleSetInv' /\ LedgerStep
<1> SUFFICES ASSUME ScaleSetInv, [ScaleSetNext]_scaleVars PROVE ScaleSetInv' /\ LedgerStep
  OBVIOUS
<1>1. LaneSound'
  BY StepsKeepLane, StutterKeepsLane
<1>2. LedgerStep
  <2>1. CASE UNCHANGED scaleVars
    BY <2>1, AloneKeepsToLedger DEF scaleVars
  <2> QED
    BY <2>1, StepsKeepToLedger
<1>3. /\ TypeOK /\ TokensFenceAttempts /\ now >= 1 /\ [LedgerNext]_ledgerVars /\ now' = now
      /\ (recoveryClaim # Null => recoveryClaim.token <= minted)'
  BY <1>2 DEF ScaleSetInv, LedgerSound, LedgerStep
<1>4. TypeOK'
  BY <1>3, NextTypeOK
<1>5. TokensFenceAttempts'
  BY <1>3, <1>4, LedgerMoves, TokensStep
<1> QED
  BY <1>1, <1>2, <1>3, <1>4, <1>5 DEF ScaleSetInv, LedgerSound

\* The inductive invariant holds in every behaviour of the lane.
THEOREM ScaleSetInvariant == ScaleSetSpec => []ScaleSetInv
<1>1. ScaleSetInit => ScaleSetInv
  BY InitSound
<1>2. ScaleSetInv /\ [ScaleSetNext]_scaleVars => ScaleSetInv'
  BY StepSound
<1> QED
  BY <1>1, <1>2, PTL DEF ScaleSetSpec

\* The lane keeps to the protocol of the host permit ledger: each of its steps
\* is a call that PermitLedger allows of a live process, or leaves the ledger
\* alone.  All that is proved of LedgerSpec is so true of the lane's ledger.
THEOREM ScaleSetKeepsToTheLedger == ScaleSetSpec => LedgerSpec
<1>1. ScaleSetInit => LedgerInit
  BY DEF ScaleSetInit
<1>2. ScaleSetInv /\ [ScaleSetNext]_scaleVars => [LedgerNext]_ledgerVars
  BY StepSound DEF LedgerStep
<1> QED
  BY <1>1, <1>2, ScaleSetInvariant, PTL DEF ScaleSetSpec, LedgerSpec

\* Every row of the lane's stores is of its table, and the daemon is alive, at
\* a place of its pass, with a batch that exists.
THEOREM ScaleSetTypeCorrect == ScaleSetSpec => []ScaleSetTypeOK
<1>1. ScaleSetInv => ScaleSetTypeOK
  <2> SUFFICES ASSUME ScaleSetInv PROVE ScaleSetTypeOK
    OBVIOUS
  <2>1. TypeOK /\ StoresTypeOK /\ AdapterTypeOK
    BY DEF ScaleSetInv, LedgerSound, LaneSound
  <2>2. \A b \in DOMAIN batches :
           /\ batches[b].state \in BatchStates
           /\ Members(b) \subseteq Holders
           /\ \A h \in Members(b) : batches[b].tokens[h] \in Token
    BY <2>1, BatchFacts
  <2>3. adapter # Null =>
           /\ adapter.pid \in alive /\ adapter.pc \in Phases
           /\ adapter.todo \cup adapter.taken \cup adapter.answer \subseteq Holders
           /\ adapter.batch \in 0..Len(batches)
    BY <2>1, DaemonFacts, BatchFacts DEF AdapterTypeOK
  <2> QED
    BY <2>1, <2>2, <2>3 DEF ScaleSetTypeOK, StoresTypeOK
<1> QED
  BY <1>1, ScaleSetInvariant, PTL

\* A job the service assigned to the scale set has its permit, whatever answer
\* was lost and between whatever two commits of acquire_pass, of the recovery
\* or of reacquire_batch the daemon died.
THEOREM ScaleSetAssignedKeepsPermit == ScaleSetSpec => []AssignedKeepsPermit
<1>1. ScaleSetInv => AssignedKeepsPermit
  BY DEF ScaleSetInv, LaneSound, StoresTypeOK, Durable, AssignedKeepsPermit
<1> QED
  BY <1>1, ScaleSetInvariant, PTL

-----------------------------------------------------------------------------
(* Calls the service answered with an assignment *)

\* h's call was intended, and nothing has said that h was not acquired.
Asked(h) == Intended(h) \/ Uncertain(h) \/ (request[h] # Null /\ request[h].state = "acquired")

LEMMA AskedIsKnown ==
    ASSUME NEW h, Durable(h)
    PROVE  Asked(h) <=> CallIsKnown(h)
  BY DEF Asked, CallIsKnown, Durable, Intended, Uncertain, InBatch

\* Only a request that is part of the call becomes assigned.
LEMMA NewlyAssigned ==
    ASSUME ScaleSetInv, SendAcquire \/ SendAgain, NEW h \in assigned', h \notin assigned
    PROVE  Asked(h)'
<1>1. adapter # Null /\ adapter.pc \in {"send", "resend"} /\ h \in adapter.taken
      /\ request' = request
  BY DEF SendAcquire, SendAgain, At, Call, stores
<1>2. Intended(h) \/ Uncertain(h)
  BY <1>1 DEF ScaleSetInv, LaneSound, PlaceSound, SendingSound, AskingSound, Sending, Asking
<1> QED
  BY <1>1, <1>2 DEF Asked, Intended, Uncertain

\* A step that writes the demand row of another request only, or none
LEMMA AskedElsewhere ==
    ASSUME NEW h, Asked(h), request'[h] = request[h]
    PROVE  Asked(h)'
  BY DEF Asked, Intended, Uncertain

\* The steps that write demand rows.  A release is of a request that was not
\* acquired, a grant and a token are of one not asked for yet.
LEMMA StartupKeepsAsked ==
    ASSUME ScaleSetInv, NEW k \in Holders, StartupStep(k),
           NEW h \in Holders, h \in assigned, Asked(h)
    PROVE  Asked(h)' \/ HalfOrphaned(h)
<1>1. /\ StoresTypeOK /\ Durable(h) /\ generation \in Nat
      /\ request \in [Holders -> RequestRow \cup {Null}]
  BY DEF ScaleSetInv, LedgerSound, TypeOK, LaneSound, StoresTypeOK
<1>2. /\ request[h] # Null /\ request[h] \in RequestRow
      /\ request[h].state \in {"acquire_intent", "uncertain", "acquired"}
  BY <1>1 DEF Asked, Intended, Uncertain
<1>3. CASE ReleasePermit(k) \/ StageRotation(k) \/ RotateAttempt(k)
  <2>1. request' = request
    BY <1>3 DEF ReleasePermit, StageRotation, RotateAttempt, stores
  <2> QED
    BY <2>1, AskedElsewhere
<1>4. CASE FinishRelease(k)
  <2>1. k # h
    BY <1>1, <1>4 DEF FinishRelease, Durable
  <2>2. request'[h] = request[h]
    BY <1>1, <1>4, <2>1 DEF FinishRelease
  <2> QED
    BY <2>2, AskedElsewhere
<1>5. CASE RecoverAcquire(k)
  <2>1. k # h
    BY <1>2, <1>5 DEF RecoverAcquire, AcquireIsSound
  <2>2. request'[h] = request[h]
    BY <1>1, <1>5, <2>1 DEF RecoverAcquire
  <2> QED
    BY <2>2, AskedElsewhere
<1>6. CASE OrphanMember(k)
  <2>1. request' = [request EXCEPT ![k] =
           IF request[k].state \in {"granted", "acquire_intent"}
           THEN [request[k] EXCEPT !.state = "uncertain", !.gen = generation]
           ELSE request[k]]
    BY <1>6 DEF OrphanMember
  <2>2. CASE k = h /\ request[h].state = "acquire_intent"
    <3>1. request' = [request EXCEPT ![h].state = "uncertain", ![h].gen = generation]
      BY <2>1, <2>2
    <3>2. "uncertain" \in ActiveStates \cup {"eligible"}
      BY DEF ActiveStates
    <3>3. request'[h] # Null /\ request'[h].state = "uncertain"
      BY <1>1, <1>2, <3>1, <3>2, RestatedRow
    <3> QED
      BY <3>3 DEF Asked, Uncertain
  <2>3. CASE k # h \/ request[h].state # "acquire_intent"
    <3>1. request'[h] = request[h]
      BY <1>1, <1>2, <2>1, <2>3
    <3> QED
      BY <3>1, AskedElsewhere
  <2> QED
    BY <2>2, <2>3
<1>7. CASE ResetStaleGrant(k)
  <2>1. CASE k # h
    <3>1. request'[h] = request[h]
      BY <1>1, <1>7, <2>1 DEF ResetStaleGrant
    <3> QED
      BY <3>1, AskedElsewhere
  <2>2. CASE k = h
    <3>1. /\ At("startup") /\ adapter.todo = {} /\ request[h].state = "acquire_intent"
          /\ \A b \in DOMAIN batches : batches[b].state # "intended"
      BY <1>2, <1>7, <2>2 DEF ResetStaleGrant, BatchesOrphaned, StaleGrants
    <3>2. PICK b \in Naming(h) : Open(b)
      BY <1>1, <1>2, <3>1 DEF Durable, Intended, InBatch
    <3>3. b \in DOMAIN batches
      BY DEF Naming
    <3>4. batches[b].state \in BatchStates
      BY <1>1, <3>3, BatchFacts
    <3>5. batches[b].state = "uncertain"
      BY <3>1, <3>2, <3>3, <3>4 DEF Open, BatchStates
    <3> QED
      BY <3>1, <3>2, <3>5 DEF HalfOrphaned
  <2> QED
    BY <2>1, <2>2
<1> QED
  BY <1>3, <1>4, <1>5, <1>6, <1>7 DEF StartupStep

LEMMA RequestKeepsAsked ==
    ASSUME ScaleSetInv, NEW k \in Holders, RequestStep(k), NEW h \in Holders, Asked(h)
    PROVE  Asked(h)'
<1>1. /\ StoresTypeOK /\ PlaceSound /\ generation \in Nat
      /\ request \in [Holders -> RequestRow \cup {Null}]
  BY DEF ScaleSetInv, LedgerSound, TypeOK, LaneSound, StoresTypeOK
<1>2. /\ request[h] # Null /\ request[h] \in RequestRow
      /\ request[h].state \in {"acquire_intent", "uncertain", "acquired"}
  BY <1>1 DEF Asked, Intended, Uncertain
<1>3. ASSUME request' = request PROVE Asked(h)'
  BY <1>3, AskedElsewhere
<1>4. CASE ObserveGlobalDemand(k) \/ StageAcquire(k) \/ Reserve(k) \/ DropStage(k)
           \/ UnstageAcquire(k) \/ MovePermit(k) \/ StageMissingAgain(k)
  BY <1>3, <1>4 DEF ObserveGlobalDemand, StageAcquire, Reserve, DropStage, UnstageAcquire,
                    MovePermit, StageMissingAgain, stores
<1>5. CASE SubmitOffer(k) \/ GrantOldest(k) \/ ProjectToken(k)
  <2>1. k # h
    <3>1. CASE SubmitOffer(k) \/ GrantOldest(k)
      BY <1>2, <3>1 DEF SubmitOffer, Submitted, GrantOldest
    <3>2. CASE ProjectToken(k)
      <4>1. k \in adapter.todo /\ adapter # Null /\ adapter.pc \in Reserving
        BY <3>2 DEF ProjectToken, IsNext, At, Reserving
      <4>2. request[k].state = "granted"
        BY <1>1, <4>1 DEF PlaceSound, ReservingSound
      <4> QED
        BY <1>2, <4>2
    <3> QED
      BY <1>5, <3>1, <3>2
  <2>2. request'[h] = request[h]
    BY <1>1, <1>5, <2>1 DEF SubmitOffer, GrantOldest, ProjectToken
  <2> QED
    BY <2>2, AskedElsewhere
<1>6. CASE SetIntent(k) \/ MarkUncertain(k) \/ SetAcquired(k)
  <2>1. PICK s \in {"acquire_intent", "uncertain", "acquired"} :
            request' = [request EXCEPT ![k].state = s, ![k].gen = generation]
    BY <1>6 DEF SetIntent, MarkUncertain, SetAcquired
  <2>2. CASE k # h
    <3>1. request'[h] = request[h]
      BY <1>1, <2>1, <2>2
    <3> QED
      BY <3>1, AskedElsewhere
  <2>3. CASE k = h
    <3>1. s \in ActiveStates \cup {"eligible"}
      BY DEF ActiveStates
    <3>2. request'[h] # Null /\ request'[h].state = s
      BY <1>1, <1>2, <2>1, <2>3, <3>1, RestatedRow
    <3> QED
      BY <3>2 DEF Asked, Intended, Uncertain
  <2> QED
    BY <2>2, <2>3
<1> QED
  BY <1>4, <1>5, <1>6 DEF RequestStep

LEMMA RotationsKeepAsked ==
    ASSUME ScaleSetInv, FinishRotations, NEW h \in Holders, Asked(h)
    PROVE  Asked(h)'
<1>1. StoresTypeOK /\ request[h] # Null
  BY DEF ScaleSetInv, LaneSound, Asked, Intended, Uncertain
<1>2. request[h] \in RequestRow
  BY <1>1, RowFacts
<1>3. CASE rotations[h] = Null
  <2>1. request'[h] = request[h]
    BY <1>3 DEF FinishRotations
  <2> QED
    BY <2>1, AskedElsewhere
<1>4. CASE rotations[h] # Null
  <2>1. rotations[h].new \in Token
    BY <1>1, <1>4, RowFacts
  <2>2. request'[h] = [request[h] EXCEPT !.token = rotations[h].new]
    BY <1>4 DEF FinishRotations
  <2>3. request'[h] \in RequestRow
    BY <1>2, <2>1, <2>2 DEF RequestRow
  <2>4. request'[h].state = request[h].state
    BY <1>2, <2>2 DEF RequestRow
  <2>5. request'[h] # Null
    BY <2>3, StoresAssumption
  <2> QED
    BY <2>4, <2>5 DEF Asked, Intended, Uncertain
<1> QED
  BY <1>3, <1>4

\* Every other step leaves the demand rows alone; only the two calls assign.
LEMMA StepKeepsAsked ==
    ASSUME ScaleSetInv, [ScaleSetNext]_scaleVars,
           NEW h \in Holders, h \in assigned', h \in assigned => Asked(h)
    PROVE  Asked(h)' \/ HalfOrphaned(h)
<1>1. ASSUME request' = request, assigned' = assigned PROVE Asked(h)'
  BY <1>1, AskedElsewhere
<1>2. ASSUME NEW k \in Holders, StartupStep(k) PROVE Asked(h)' \/ HalfOrphaned(h)
  <2>1. assigned' = assigned
    BY <1>2 DEF StartupStep, ReleasePermit, FinishRelease, RecoverAcquire, StageRotation,
                RotateAttempt, OrphanMember, ResetStaleGrant
  <2> QED
    BY <1>2, <2>1, StartupKeepsAsked
<1>3. ASSUME NEW k \in Holders, RequestStep(k) PROVE Asked(h)'
  <2>1. assigned' = assigned
    BY <1>3 DEF RequestStep, SubmitOffer, ObserveGlobalDemand, GrantOldest, StageAcquire,
                Reserve, ProjectToken, DropStage, UnstageAcquire, SetIntent, MarkUncertain,
                SetAcquired, MovePermit, StageMissingAgain
  <2> QED
    BY <1>3, <2>1, RequestKeepsAsked
<1>4. ASSUME NEW b, BatchStep(b) PROVE Asked(h)'
  <2>1. request' = request /\ assigned' = assigned
    BY <1>4 DEF BatchStep, OrphanBatch, ObserveAcquired, ResolveObserved, Reacquire, stores
  <2> QED
    BY <1>1, <2>1
<1>5. CASE SendAcquire \/ SendAgain
  <2>1. request' = request
    BY <1>5 DEF SendAcquire, SendAgain, stores
  <2> QED
    BY <1>5, <2>1, AskedElsewhere, NewlyAssigned
<1>6. CASE FinishRotations
  <2>1. assigned' = assigned
    BY <1>6 DEF FinishRotations
  <2> QED
    BY <1>6, <2>1, RotationsKeepAsked
<1>7. CASE PassStep /\ ~SendAcquire /\ ~SendAgain /\ ~FinishRotations
  <2>1. request' = request /\ assigned' = assigned
    BY <1>7 DEF PassStep, ConfigureLedger, OpenEpoch, AttestLedger, EnsureRecoveryClaim,
                ReleasesRecovered, AcquiresRecovered, RecoveryFails, FinishStartup,
                BeginAcquirePass, RecordIntended, ResolveUncertain, StageMissing,
                FinishAcquirePass, FinishReacquire, stores
  <2> QED
    BY <1>1, <2>1
<1>8. ASSUME NEW p, StartDaemon(p) \/ DaemonDies \/ UNCHANGED scaleVars PROVE Asked(h)'
  <2>1. request' = request /\ assigned' = assigned
    BY <1>8 DEF StartDaemon, DaemonDies, scaleVars, stores
  <2> QED
    BY <1>1, <2>1
<1> QED
  BY <1>2, <1>3, <1>4, <1>5, <1>6, <1>7, <1>8 DEF ScaleSetNext

\* Once the service has assigned a job the stores know of its call, as acquired or
\* in an open batch that names the attempt, and one step alone forgets it: the
\* reset of a row that an earlier startup left intended in an uncertain batch.
THEOREM ScaleSetAssignedCallIsKept == ScaleSetSpec => AssignedCallIsKept
<1>1. ScaleSetInv /\ ScaleSetInv' /\ [ScaleSetNext]_scaleVars =>
          \A h \in assigned' :
              (h \in assigned => CallIsKnown(h)) => CallIsKnown(h)' \/ HalfOrphaned(h)
  <2> SUFFICES ASSUME ScaleSetInv, ScaleSetInv', [ScaleSetNext]_scaleVars,
                      NEW h \in assigned', h \in assigned => CallIsKnown(h)
               PROVE  CallIsKnown(h)' \/ HalfOrphaned(h)
    OBVIOUS
  <2>1. h \in Holders
    BY DEF ScaleSetInv, LaneSound, StoresTypeOK
  <2>2. Durable(h) /\ Durable(h)'
    BY <2>1 DEF ScaleSetInv, LaneSound
  <2>3. Asked(h) <=> CallIsKnown(h)
    BY <2>2, AskedIsKnown
  <2>4. Asked(h)' => CallIsKnown(h)'
    BY <2>2 DEF Asked, CallIsKnown, Durable, Intended, Uncertain, InBatch
  <2> QED
    BY <2>1, <2>3, <2>4, StepKeepsAsked
<1> QED
  BY <1>1, ScaleSetInvariant, PTL DEF ScaleSetSpec, AssignedCallIsKept

\* The token of every permit is in the request's row, in its staged acquire or
\* in its staged rotation: no permit is left that recovery cannot name.
THEOREM ScaleSetPermitIsNamed == ScaleSetSpec => []PermitIsNamed
<1>1. ScaleSetInv => PermitIsNamed
  BY DEF ScaleSetInv, LaneSound, Durable, Named, HeldSet, PermitIsNamed
<1> QED
  BY <1>1, ScaleSetInvariant, PTL

=============================================================================
