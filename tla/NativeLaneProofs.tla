-------------------------- MODULE NativeLaneProofs --------------------------
(***************************************************************************)
(* The native lane keeps to the permit ledger's protocol, and its jobs are *)
(* executed under their own permit: proofs for any number of slots, jobs,  *)
(* processes and crashes.                                                  *)
(*                                                                         *)
(* The invariant says, slot by slot, what the process, its teardown thread *)
(* and its marker know of the ledger.  A step of one slot carries the      *)
(* tokens of that slot or mints one, and tokens are never shared, so it    *)
(* cannot disturb what another slot knows.                                 *)
(***************************************************************************)
EXTENDS NativeLane, PermitFenceProofs

\* Handler positions, by what the process has by then
Asking == {"offered", "admitting", "departing"}

Unrecorded == {"owned", "sent", "acquired"}

Recorded == {"recorded", "running", "concluding", "clearing"}

Leaving == {"joining", "unacked", "dropping"}

Attempting == Unrecorded \cup Recorded \cup Leaving

\* No container of slot s is on the host.
Bare(s) == \A h \in Holders : <<h, s>> \notin containers

\* Whoever holds h under t, it is process p.
BelongsTo(h, t, p) == Owns(h, t) => permits[h].pid = p

\* What the process of slot s relies on
SlotSound(s) ==
    slot[s] # Null =>
        LET h == slot[s].holder
            t == slot[s].token
            pc == slot[s].pc
        IN  /\ slot[s].pid \in alive
            /\ pc # "idle" => h \in Holders
            /\ pc \in Attempting => t \in 1..minted /\ BelongsTo(h, t, slot[s].pid)
            /\ pc \notin Attempting => t = Null
            /\ pc \in Asking \cup Unrecorded => marker[s] = Null
            /\ pc \in Recorded => marker[s] = [holder |-> h, token |-> t]
            /\ pc \in {"recorded", "running"} => Owns(h, t)
            /\ pc = "clearing" => ~Owns(h, t)
            /\ pc \in {"recorded", "concluding", "clearing"} => Bare(s)

\* What the teardown thread of slot s relies on
WorkerSound(s) ==
    worker[s] # Null =>
        LET h == worker[s].holder
            t == worker[s].token
            step == worker[s].step
        IN  /\ slot[s] # Null
            /\ slot[s].pc \in Leaving \cup {"idle"}
            /\ marker[s] = [holder |-> h, token |-> t]
            /\ BelongsTo(h, t, slot[s].pid)
            /\ step \in {"tearing", "finalizing"} => Owns(h, t)
            /\ step = "clearing" => ~Owns(h, t)
            /\ step \in {"finalizing", "clearing"} => Bare(s)

\* What the marker of slot s tells
MarkerSound(s) ==
    /\ marker[s] # Null => marker[s].token <= minted
    /\ \A h \in Holders : <<h, s>> \in containers => marker[s] # Null /\ marker[s].holder = h

\* The tokens slot s can name.  Its thread's token is its marker's.
Names(s) ==
    ((IF slot[s] # Null THEN {slot[s].token} ELSE {})
       \cup (IF marker[s] # Null THEN {marker[s].token} ELSE {})) \ {Null}

\* Two slots share neither a process nor a token.
Apart(s, r) ==
    /\ slot[s] # Null /\ slot[r] # Null => slot[s].pid # slot[r].pid
    /\ Names(s) \cap Names(r) = {}

\* What the daemon's process relies on
DaemonSound ==
    daemon # Null =>
        /\ daemon.pid \in alive
        /\ \A s \in Slots : slot[s] # Null => slot[s].pid # daemon.pid

\* What the recovery relies on.  Once it has its claim, the job is this
\* daemon's or it is closed: no slot can be executing it.
RecoverySound ==
    recovery # Null =>
        LET h == recovery.holder
            t == recovery.token
        IN  /\ Up
            /\ slot[recovery.slot] = Null
            /\ marker[recovery.slot] = [holder |-> h, token |-> t]
            /\ recovery.step = "claimed" =>
                  \/ Owns(h, t) /\ permits[h].pid = daemon.pid
                  \/ ~Held(h) /\ Closed(h)
            /\ recovery.step # "claimed" => Bare(recovery.slot)
            /\ recovery.step = "released" => ~Owns(h, t)

\* The inductive invariant of the lane
LaneInv ==
    /\ TypeOK /\ TokensFenceAttempts /\ now >= 1
    /\ NativeTypeOK
    /\ \A s \in Slots : SlotSound(s) /\ WorkerSound(s) /\ MarkerSound(s)
    /\ \A s, r \in Slots : s # r => Apart(s, r)
    /\ DaemonSound
    /\ RecoverySound

-----------------------------------------------------------------------------
(* What the ledger calls of the lane do to the permits *)

\* Every permit stays with its attempt and its process.
Quiet ==
    /\ minted' = minted
    /\ \A h \in Holders :
          /\ Held(h)' <=> Held(h)
          /\ Held(h) => permits'[h].token = permits[h].token /\ permits'[h].pid = permits[h].pid

\* A call of process p under token t gives h's permit up, or keeps it.
Moves(h, t, p) ==
    /\ minted' = minted
    /\ Owns(h, t)
    /\ \A k \in Holders \ {h} : permits'[k] = permits[k]
    /\ Held(h)' => permits'[h].token = t /\ permits'[h].pid \in {permits[h].pid, p}

\* Process p begins a new attempt of h, which nobody else alive holds.
Takes(h, p) ==
    /\ minted' = minted + 1
    /\ Held(h)' /\ permits'[h].token = minted + 1 /\ permits'[h].pid = p
    /\ Held(h) => permits[h].pid \notin alive \/ permits[h].pid = p
    /\ \A k \in Holders \ {h} : permits'[k] = permits[k]

LEMMA SameIsQuiet ==
    ASSUME permits' = permits, minted' = minted
    PROVE  Quiet
  BY DEF Quiet, Held

\* A token that was minted and given up does not come back.
LEMMA GoneStays ==
    ASSUME TypeOK, NEW k \in Holders, NEW u \in 1..minted, ~Owns(k, u),
           NEW p, NEW h \in Holders, NEW t,
           Quiet \/ Moves(h, t, p) \/ Takes(h, p)
    PROVE  ~Owns(k, u)'
<1>0. minted \in Nat /\ u \in Nat /\ u <= minted
  BY DEF TypeOK
<1>1. CASE Quiet
  BY <1>1 DEF Quiet, Owns
<1>2. CASE Moves(h, t, p)
  BY <1>2 DEF Moves, Owns, Held
<1>3. CASE Takes(h, p)
  BY <1>0, <1>3 DEF Takes, Owns, Held
<1> QED
  BY <1>1, <1>2, <1>3

\* A permit of another live process, under a token the call does not carry,
\* stays as it is.
LEMMA OthersKeep ==
    ASSUME TypeOK, NEW k \in Holders, NEW u, Owns(k, u),
           NEW p, NEW h \in Holders, NEW t,
           \/ Quiet
           \/ Moves(h, t, p) /\ u # t
           \/ Takes(h, p) /\ permits[k].pid \in alive /\ permits[k].pid # p
    PROVE  Owns(k, u)' /\ permits'[k].pid = permits[k].pid
<1>1. CASE Quiet
  BY <1>1 DEF Quiet, Owns
<1>2. CASE Moves(h, t, p) /\ u # t
  BY <1>2 DEF Moves, Owns, Held
<1>3. CASE Takes(h, p) /\ permits[k].pid \in alive /\ permits[k].pid # p
  BY <1>3 DEF Takes, Owns, Held
<1> QED
  BY <1>1, <1>2, <1>3

\* Calls that rewrite the row of the attempt they carry
LEMMA RewritesMove ==
    ASSUME TypeOK, NEW h \in Holders, NEW t, NEW p \in Pids, NEW g,
           \/ \E s \in {"running", "cleaning"} : TransitionOwned(h, s, g, t, p)
           \/ RetainUncertain(h, g, t)
           \/ RetainUncertainAfterCleanup(h, t, p)
    PROVE  Moves(h, t, p) /\ Owns(h, t)' /\ alive' = alive
<1>1. Owns(h, t) /\ permits[h] \in PermitRow /\ generation \in Nat
  BY DEF TransitionOwned, RetainUncertain, RetainUncertainAfterCleanup, Owns, Held, TypeOK
<1>2. PICK s \in {"running", "cleaning", "uncertain"} :
          \/ permits' = [permits EXCEPT ![h] = [@ EXCEPT !.state = s, !.gen = generation]]
          \/ permits' = [permits EXCEPT ![h] =
                 [@ EXCEPT !.state = s, !.gen = generation, !.pid = p]]
  BY DEF TransitionOwned, RetainUncertain, RetainUncertainAfterCleanup
<1>3. s \in PermitStates
  BY DEF PermitStates
<1>4. /\ [permits[h] EXCEPT !.state = s, !.gen = generation] \in PermitRow
      /\ [permits[h] EXCEPT !.state = s, !.gen = generation, !.pid = p] \in PermitRow
  BY <1>1, <1>3, PermitRowUpdates
<1>5. /\ permits'[h] \in PermitRow /\ permits'[h].token = permits[h].token
      /\ permits'[h].pid \in {permits[h].pid, p}
      /\ \A k \in Holders \ {h} : permits'[k] = permits[k]
  <2>1. /\ \/ permits'[h] = [permits[h] EXCEPT !.state = s, !.gen = generation]
           \/ permits'[h] = [permits[h] EXCEPT !.state = s, !.gen = generation, !.pid = p]
        /\ \A k \in Holders \ {h} : permits'[k] = permits[k]
    BY <1>2 DEF TypeOK
  <2>2. permits'[h] \in PermitRow
    BY <1>4, <2>1
  <2>3. permits'[h].token = permits[h].token /\ permits'[h].pid \in {permits[h].pid, p}
    BY <1>1, <2>1 DEF PermitRow
  <2> QED
    BY <2>1, <2>2, <2>3
<1>6. minted' = minted /\ alive' = alive
  BY DEF TransitionOwned, RetainUncertain, RetainUncertainAfterCleanup, env
<1> QED
  BY <1>1, <1>5, <1>6, NullAssumption DEF Moves, Owns, Held

LEMMA ReleaseMoves ==
    ASSUME TypeOK, NEW h \in Holders, NEW t, NEW p, NEW target,
           ReleaseOwned(h, t, target)
    PROVE  Moves(h, t, p) /\ ~Owns(h, t)' /\ alive' = alive
  BY DEF ReleaseOwned, Moves, Owns, Held, TypeOK, env

LEMMA NativeReleaseMoves ==
    ASSUME TypeOK, NEW h \in Holders, NEW t, NEW p, NEW target,
           ReleaseNativeOwned(h, t, target)
    PROVE  (Moves(h, t, p) \/ Quiet) /\ ~Owns(h, t)' /\ alive' = alive
<1>1. minted' = minted /\ alive' = alive
  BY DEF ReleaseNativeOwned, env
<1>2. CASE Owns(h, t)
  BY <1>1, <1>2 DEF ReleaseNativeOwned, Moves, Owns, Held, TypeOK
<1>3. CASE ~Owns(h, t)
  BY <1>1, <1>3, SameIsQuiet DEF ReleaseNativeOwned, Owns, Held
<1> QED
  BY <1>1, <1>2, <1>3

\* A cleanup claim takes the row over, or closes the demand of an absent one.
LEMMA ClaimMoves ==
    ASSUME TypeOK, NEW h \in Holders, NEW t, NEW p \in Pids,
           ClaimRecordedTerminalCleanup(h, "native", t, p)
    PROVE  /\ Moves(h, t, p) \/ Quiet
           /\ \/ Owns(h, t)' /\ permits'[h].pid = p
              \/ ~Held(h)' /\ Closed(h)'
           /\ alive' = alive
<1>1. minted' = minted /\ alive' = alive
  BY DEF ClaimRecordedTerminalCleanup, env
<1>2. CASE /\ Owns(h, t)
           /\ permits' = [permits EXCEPT ![h] =
                  [@ EXCEPT !.state = "cleaning", !.gen = generation, !.pid = p]]
  <2>1. permits[h] \in PermitRow /\ generation \in Nat /\ "cleaning" \in PermitStates
    BY <1>2 DEF Owns, Held, TypeOK, PermitStates
  <2>2. [permits[h] EXCEPT !.state = "cleaning", !.gen = generation, !.pid = p] \in PermitRow
    BY <2>1, PermitRowUpdates
  <2>3. /\ permits'[h] \in PermitRow /\ permits'[h].token = permits[h].token
        /\ permits'[h].pid = p /\ \A k \in Holders \ {h} : permits'[k] = permits[k]
    BY <1>2, <2>1, <2>2 DEF TypeOK, PermitRow
  <2> QED
    BY <1>1, <1>2, <2>3, NullAssumption DEF Moves, Owns, Held
<1>3. CASE RecordedRelease(h, "native") /\ UNCHANGED <<permits, demands>>
  BY <1>1, <1>3, SameIsQuiet DEF RecordedRelease, Held, Closed, Known
<1>4. CASE /\ ~Held(h)
           /\ demands' = [demands EXCEPT ![h] =
                  [EnsuredDemand(h, "native", now, now, "terminal")
                      EXCEPT !.state = "terminal", !.updated = now]]
           /\ permits' = permits
  <2>1. EnsuredDemand(h, "native", now, now, "terminal") \in DemandRow /\ now \in Nat
    <3>1. "native" \in Lanes /\ "terminal" \in DemandStates /\ now \in Nat
      BY DEF Lanes, DemandStates, TypeOK
    <3> QED
      BY <3>1, EnsuredIsRow
  <2>2. "terminal" \in DemandStates
    BY DEF DemandStates
  <2>3. [EnsuredDemand(h, "native", now, now, "terminal")
            EXCEPT !.state = "terminal", !.updated = now] \in DemandRow
    BY <2>1, <2>2, DemandRowUpdates
  <2>4. demands'[h] \in DemandRow /\ demands'[h].state = "terminal"
    BY <1>4, <2>1, <2>3 DEF TypeOK, DemandRow
  <2> QED
    BY <1>1, <1>4, <2>4, SameIsQuiet, NullAssumption DEF Held, Closed, Known, ClosedStates
<1> QED
  BY <1>1, <1>2, <1>3, <1>4 DEF ClaimRecordedTerminalCleanup

\* Admission and adoption
LEMMA GuardTakes ==
    ASSUME TypeOK, NEW h \in Holders, NEW p \in Pids, NEW g,
           \/ AcquireAttempt(h, "native", "acquiring", g, p)
           \/ AdoptForRedelivery(h, "native", "acquiring", g, p)
    PROVE  Takes(h, p) /\ alive' = alive
<1>0. /\ minted \in Nat /\ minted + 1 \in Token /\ generation \in Nat
      /\ "acquiring" \in PermitStates /\ "native" \in Lanes
  BY DEF TypeOK, Token, PermitStates, Lanes
<1>1. CASE AcquireAttempt(h, "native", "acquiring", g, p)
  <2> DEFINE row == [lane |-> "native", state |-> "acquiring", gen |-> g, pid |-> p,
                     token |-> minted + 1, rotation |-> Null]
  <2>1. /\ ~Held(h) /\ permits' = [permits EXCEPT ![h] = row] /\ minted' = minted + 1
        /\ alive' = alive /\ g = generation
    BY <1>1 DEF AcquireAttempt, Grant, MayAttempt
  <2>2. row \in PermitRow /\ row.token = minted + 1 /\ row.pid = p
    BY <1>0, <2>1 DEF PermitRow
  <2> HIDE DEF row
  <2> QED
    BY <1>0, <2>1, <2>2, NullAssumption DEF Takes, Held, TypeOK
<1>2. CASE AdoptForRedelivery(h, "native", "acquiring", g, p)
  <2> DEFINE row == [permits[h] EXCEPT !.state = "acquiring", !.gen = g, !.pid = p,
                                       !.token = minted + 1, !.rotation = Null]
  <2>1. /\ Held(h) /\ permits' = [permits EXCEPT ![h] = row] /\ minted' = minted + 1
        /\ alive' = alive /\ g = generation /\ permits[h] \in PermitRow
        /\ permits[h].pid \in alive => permits[h].pid = p
    BY <1>2 DEF AdoptForRedelivery, Adoptable, RetainedBySameProcess, Held, TypeOK
  <2>2. row \in PermitRow
    BY <1>0, <2>1, PermitRowUpdates
  <2>3. row.token = minted + 1 /\ row.pid = p
    BY <1>0, <2>1, <2>2 DEF PermitRow
  <2> HIDE DEF row
  <2> QED
    BY <1>0, <2>1, <2>2, <2>3, NullAssumption DEF Takes, Held, TypeOK
<1> QED
  BY <1>1, <1>2

LEMMA ReconcileIsQuiet ==
    ASSUME TypeOK, NEW seen, Reconcile(seen)
    PROVE  Quiet /\ alive' = alive
<1>1. minted' = minted /\ alive' = alive /\ generation \in Nat /\ "uncertain" \in PermitStates
  BY DEF Reconcile, env, TypeOK, PermitStates
<1>2. ASSUME NEW h \in Holders
      PROVE  /\ Held(h)' <=> Held(h)
             /\ Held(h) => permits'[h].token = permits[h].token /\ permits'[h].pid = permits[h].pid
  <2>1. CASE h \in Lost(DOMAIN seen)
    <3>1. Held(h) /\ permits[h] \in PermitRow
      BY <2>1 DEF Lost, HeldSet, Held, TypeOK
    <3>2. permits'[h] = [permits[h] EXCEPT !.state = "uncertain", !.gen = generation]
      BY <2>1 DEF Reconcile
    <3>3. [permits[h] EXCEPT !.state = "uncertain", !.gen = generation] \in PermitRow
      BY <1>1, <3>1, PermitRowUpdates
    <3> QED
      BY <3>1, <3>2, <3>3, NullAssumption DEF Held, PermitRow
  <2>2. CASE h \notin Lost(DOMAIN seen)
    BY <2>2 DEF Reconcile, Held
  <2> QED
    BY <2>1, <2>2
<1> QED
  BY <1>1, <1>2 DEF Quiet

-----------------------------------------------------------------------------
(* The calls of the lane are calls any live process may make *)

LEMMA GuardCallsLedger ==
    ASSUME TypeOK, now >= 1, NEW h \in Holders, NEW p \in alive, NEW g,
           \/ ObserveDemand(h, "native", now, now)
           \/ ParkDemand(h)
           \/ AcquireFull(h, "native", g)
           \/ AcquireDeferred(h, "native", g)
           \/ AcquireAttempt(h, "native", "acquiring", g, p)
           \/ AdoptForRedelivery(h, "native", "acquiring", g, p)
    PROVE  LedgerNext
<1>0. "native" \in LanesOf[h] /\ "acquiring" \in GrantStates
  BY NativeLaneAssumption
<1>1. CASE ObserveDemand(h, "native", now, now) \/ ParkDemand(h)
  <2>1. now \in 1..now
    BY DEF TypeOK
  <2>2. DemandCall(h)
    BY <1>0, <1>1, <2>1 DEF DemandCall
  <2> QED
    BY <2>2 DEF LedgerNext
<1>2. CASE \/ AcquireFull(h, "native", g)
           \/ AcquireDeferred(h, "native", g)
           \/ AcquireAttempt(h, "native", "acquiring", g, p)
           \/ AdoptForRedelivery(h, "native", "acquiring", g, p)
  <2>1. g \in 0..generation
    <3>1. g = generation
      BY <1>2 DEF AcquireFull, AcquireDeferred, AcquireAttempt, Grant, MayAttempt,
                  AdoptForRedelivery
    <3> QED
      BY <3>1 DEF TypeOK
  <2>2. OwnershipCall(h, p)
    BY <1>0, <1>2, <2>1 DEF OwnershipCall
  <2> QED
    BY <2>2 DEF LedgerNext
<1> QED
  BY <1>1, <1>2

LEMMA OwnerCallsLedger ==
    ASSUME TypeOK, NEW h \in Holders, NEW p \in alive, NEW t \in 1..minted, NEW g,
           \/ \E s \in {"running", "cleaning"} : TransitionOwned(h, s, g, t, p)
           \/ RetainUncertain(h, g, t)
           \/ RetainUncertainAfterCleanup(h, t, p)
           \/ ReleaseOwned(h, t, "eligible")
           \/ \E target \in ClosedStates : ReleaseNativeOwned(h, t, target)
           \/ ClaimRecordedTerminalCleanup(h, "native", t, p)
    PROVE  LedgerNext
<1>0. "native" \in LanesOf[h] /\ {"running", "cleaning"} \subseteq GrantStates \cup {"cleaning"}
  BY NativeLaneAssumption
<1>1. generation \in 0..generation
  BY DEF TypeOK
<1>2. OwnedCall(h, t, p)
  <2>1. CASE \E s \in {"running", "cleaning"} : TransitionOwned(h, s, g, t, p)
    <3>1. g = generation
      BY <2>1 DEF TransitionOwned
    <3> QED
      BY <1>0, <1>1, <2>1, <3>1 DEF OwnedCall
  <2>2. CASE RetainUncertain(h, g, t)
    <3>1. g = generation
      BY <2>2 DEF RetainUncertain
    <3> QED
      BY <1>1, <2>2, <3>1 DEF OwnedCall
  <2>3. CASE \/ RetainUncertainAfterCleanup(h, t, p)
             \/ ReleaseOwned(h, t, "eligible")
             \/ \E target \in ClosedStates : ReleaseNativeOwned(h, t, target)
             \/ ClaimRecordedTerminalCleanup(h, "native", t, p)
    BY <1>0, <2>3 DEF OwnedCall
  <2> QED
    BY <2>1, <2>2, <2>3
<1> QED
  BY <1>2 DEF LedgerNext

\* The clock of the ledger does not go back.
LEMMA ClockRuns ==
    ASSUME TypeOK, now >= 1, [LedgerNext]_ledgerVars
    PROVE  now' >= 1
<1>0. now \in Nat
  BY DEF TypeOK
<1>1. ASSUME NEW h, NEW p, OwnershipCall(h, p) PROVE now' = now
  <2>1. ASSUME NEW lane, NEW s, NEW g, NEW t,
               \/ AcquireFull(h, lane, g) \/ AcquireDeferred(h, lane, g)
               \/ AcquireAttempt(h, lane, s, g, p) \/ AcquireStagedAttempt(h, s, g, p, t)
               \/ AdoptForRedelivery(h, lane, s, g, p)
        PROVE  now' = now
    BY <2>1 DEF AcquireFull, AcquireDeferred, AcquireAttempt, AcquireStagedAttempt, Grant,
                AdoptForRedelivery, env
  <2>2. ASSUME NEW s, NEW g, NEW prevPid, NEW prev, NEW target, NEW claim,
               RotateScaleSetAttempt(h, s, g, prevPid, prev, target, claim, p)
        PROVE  now' = now
    BY <2>2 DEF RotateScaleSetAttempt, env
  <2> QED
    BY <1>1, <2>1, <2>2 DEF OwnershipCall
<1>2. ASSUME NEW h, NEW p, NEW t, DemandCall(h) \/ OwnedCall(h, t, p) PROVE now' = now
  BY <1>2 DEF DemandCall, ObserveDemand, ParkDemand, CancelDemand, OwnedCall, TransitionOwned,
              RetainUncertain, RetainRecordedFailure, RetainUncertainAfterCleanup, ReleaseOwned,
              ReleaseScaleSetStaged, ReleaseNativeOwned, ClaimRecordedTerminalCleanup, env
<1>3. ASSUME NEW p, LedgerCall(p) PROVE now' = now
  BY <1>3 DEF LedgerCall, SetMaxJobs, SetMaxJobsIfUnset, BeginEpoch, ScaleSetCall, MintToken,
              ClaimScaleSetRecovery, ReleaseRecoveryClaim, Reconcile, env
<1>4. ASSUME NEW p, StartProcess(p) \/ CrashProcess(p) \/ UNCHANGED ledgerVars PROVE now' = now
  BY <1>4 DEF StartProcess, CrashProcess, ledgerVars, env
<1>5. CASE Tick
  BY <1>0, <1>5 DEF Tick
<1> QED
  BY <1>1, <1>2, <1>3, <1>4, <1>5 DEF LedgerNext

-----------------------------------------------------------------------------
(* A step of one slot, as the others see it *)

\* A call of slot s's process carries a token of its own, or begins an attempt.
OwnEffect(s) ==
    \/ Quiet
    \/ \E h \in Holders, t \in Names(s) : Moves(h, t, slot[s].pid)
    \/ \E h \in Holders : Takes(h, slot[s].pid)

SlotStep(s) ==
    /\ slot[s] # Null /\ slot'[s] # Null /\ slot'[s].pid = slot[s].pid
    /\ \A r \in Slots \ {s} :
          /\ slot'[r] = slot[r] /\ worker'[r] = worker[r] /\ marker'[r] = marker[r]
          /\ \A h \in Holders : <<h, r>> \in containers' <=> <<h, r>> \in containers
    /\ UNCHANGED <<alive, daemon, recovery>>
    /\ OwnEffect(s)
    /\ \A t \in Names(s)' : t \in Names(s) \/ (t = minted' /\ minted' = minted + 1)

\* Names are minted tokens.
LEMMA NamesAreMinted ==
    ASSUME LaneInv, NEW s \in Slots
    PROVE  Names(s) \subseteq 1..minted
<1>1. SlotSound(s) /\ MarkerSound(s)
  BY DEF LaneInv
<1>2. marker[s] # Null => marker[s].token \in Nat \ {0} /\ marker[s].token <= minted
  BY <1>1 DEF MarkerSound, LaneInv, NativeTypeOK, Marker, Token
<1>3. slot[s] # Null => slot[s].token \in 1..minted \cup {Null}
  BY <1>1 DEF SlotSound
<1>4. minted \in Nat
  BY DEF LaneInv, TypeOK
<1> QED
  BY <1>2, <1>3, <1>4 DEF Names

\* What the step of slot s leaves of the permits that other tokens name
LEMMA SlotStepKeeps ==
    ASSUME LaneInv, NEW s \in Slots, SlotStep(s), NEW k \in Holders, NEW u \in 1..minted
    PROVE  /\ ~Owns(k, u) => ~Owns(k, u)'
           /\ Owns(k, u) /\ u \notin Names(s) /\ permits[k].pid \in alive \ {slot[s].pid}
                 => Owns(k, u)' /\ permits'[k].pid = permits[k].pid
           /\ minted' \in Nat /\ minted' >= minted
<1>0. TypeOK /\ minted \in Nat
  BY DEF LaneInv, TypeOK
<1>1. CASE Quiet
  BY <1>0, <1>1, GoneStays, OthersKeep DEF Quiet
<1>2. ASSUME NEW h \in Holders, NEW t \in Names(s), Moves(h, t, slot[s].pid)
      PROVE  /\ ~Owns(k, u) => ~Owns(k, u)'
             /\ Owns(k, u) /\ u \notin Names(s)
                   => Owns(k, u)' /\ permits'[k].pid = permits[k].pid
             /\ minted' = minted
  <2>1. minted' = minted
    BY <1>2 DEF Moves
  <2>2. ~Owns(k, u) => ~Owns(k, u)'
    BY <1>2 DEF Moves, Owns, Held
  <2>3. Owns(k, u) /\ u # t => Owns(k, u)' /\ permits'[k].pid = permits[k].pid
    BY <1>2 DEF Moves, Owns, Held
  <2> QED
    BY <2>1, <2>2, <2>3
<1>3. ASSUME NEW h \in Holders, Takes(h, slot[s].pid)
      PROVE  /\ ~Owns(k, u) => ~Owns(k, u)'
             /\ Owns(k, u) /\ permits[k].pid \in alive \ {slot[s].pid}
                   => Owns(k, u)' /\ permits'[k].pid = permits[k].pid
             /\ minted' = minted + 1
  <2>1. minted' = minted + 1
    BY <1>3 DEF Takes
  <2>2. ~Owns(k, u) => ~Owns(k, u)'
    BY <1>0, <1>3 DEF Takes, Owns, Held
  <2>3. Owns(k, u) /\ permits[k].pid \in alive \ {slot[s].pid}
            => Owns(k, u)' /\ permits'[k].pid = permits[k].pid
    BY <1>3 DEF Takes, Owns, Held
  <2> QED
    BY <2>1, <2>2, <2>3
<1> QED
  BY <1>0, <1>1, <1>2, <1>3 DEF SlotStep, OwnEffect

\* A slot keeps what it relies on if the step leaves its own state alone and
\* what its process has with its process.
LEMMA UntouchedSlot ==
    ASSUME LaneInv, NEW r \in Slots, slot'[r] = slot[r], worker'[r] = worker[r],
           marker'[r] = marker[r],
           \A h \in Holders : <<h, r>> \in containers' => <<h, r>> \in containers,
           slot[r] # Null => slot[r].pid \in alive',
           minted' \in Nat, minted' >= minted,
           \A k \in Holders, u \in Names(r) :
              /\ ~Owns(k, u) => ~Owns(k, u)'
              /\ slot[r] # Null /\ BelongsTo(k, u, slot[r].pid)
                    => /\ BelongsTo(k, u, slot[r].pid)'
                       /\ Owns(k, u) => Owns(k, u)'
    PROVE  SlotSound(r)' /\ WorkerSound(r)' /\ MarkerSound(r)'
<1>0. /\ SlotSound(r) /\ WorkerSound(r) /\ MarkerSound(r)
      /\ minted \in Nat /\ Names(r) \subseteq 1..minted
      /\ marker \in [Slots -> Marker \cup {Null}] /\ worker \in [Slots -> Worker \cup {Null}]
  BY NamesAreMinted DEF LaneInv, TypeOK, NativeTypeOK
<1>1. /\ slot'[r] = slot[r] /\ worker'[r] = worker[r] /\ marker'[r] = marker[r]
      /\ \A h \in Holders : <<h, r>> \in containers' => <<h, r>> \in containers
      /\ slot[r] # Null => slot[r].pid \in alive'
  OBVIOUS
<1>2. Bare(r) => Bare(r)'
  BY <1>1 DEF Bare
<1>3. ASSUME NEW k \in Holders, NEW u \in Names(r)
      PROVE  /\ ~Owns(k, u) => ~Owns(k, u)'
             /\ slot[r] # Null /\ BelongsTo(k, u, slot[r].pid) /\ slot[r].pid \in alive
                   => /\ BelongsTo(k, u, slot[r].pid)'
                      /\ Owns(k, u) => Owns(k, u)'
             /\ u \in 1..minted'
  BY <1>0, <1>3
<1>4. SlotSound(r)'
  <2> SUFFICES ASSUME slot[r] # Null PROVE SlotSound(r)'
    BY <1>1 DEF SlotSound
  <2>0. PICK row : row = slot[r]
    OBVIOUS
  <2> DEFINE h == row.holder
             t == row.token
             pc == row.pc
  <2>1. /\ row.pid \in alive
        /\ pc # "idle" => h \in Holders
        /\ pc \in Attempting => t \in 1..minted /\ BelongsTo(h, t, row.pid)
        /\ pc \notin Attempting => t = Null
        /\ pc \in Asking \cup Unrecorded => marker[r] = Null
        /\ pc \in Recorded => marker[r] = [holder |-> h, token |-> t]
        /\ pc \in {"recorded", "running"} => Owns(h, t)
        /\ pc = "clearing" => ~Owns(h, t)
        /\ pc \in {"recorded", "concluding", "clearing"} => Bare(r)
    BY <1>0, <2>0 DEF SlotSound
  <2>2. pc \in Attempting => h \in Holders /\ t \in Names(r)
    <3>1. pc \in Attempting => pc # "idle"
      BY DEF Attempting, Unrecorded, Recorded, Leaving
    <3> QED
      BY <1>0, <2>0, <2>1, <3>1, NullAssumption DEF Names
  <2>3. {"recorded", "running", "clearing"} \subseteq Attempting
    BY DEF Attempting, Unrecorded, Recorded, Leaving
  <2>4. /\ pc \in Attempting => t \in 1..minted' /\ BelongsTo(h, t, row.pid)'
        /\ pc \in {"recorded", "running"} => Owns(h, t)'
        /\ pc = "clearing" => ~Owns(h, t)'
    <3> SUFFICES ASSUME pc \in Attempting
                 PROVE  /\ t \in 1..minted' /\ BelongsTo(h, t, row.pid)'
                        /\ Owns(h, t)' <=> Owns(h, t)
      BY <2>1, <2>3
    <3> HIDE DEF h, t, pc
    <3>1. h \in Holders /\ t \in Names(r) /\ BelongsTo(h, t, row.pid)
      BY <2>1, <2>2
    <3> QED
      BY <1>1, <1>3, <2>0, <2>1, <3>1 DEF BelongsTo
  <2> QED
    BY <1>1, <1>2, <2>0, <2>1, <2>4 DEF SlotSound
<1>5. WorkerSound(r)'
  <2> SUFFICES ASSUME worker[r] # Null PROVE WorkerSound(r)'
    BY <1>1 DEF WorkerSound
  <2>0. PICK h, t : h = worker[r].holder /\ t = worker[r].token
    OBVIOUS
  <2>1. worker[r] \in Worker /\ marker[r] = [holder |-> h, token |-> t]
    BY <1>0, <2>0 DEF WorkerSound
  <2>2. h \in Holders /\ t \in Names(r)
    <3>1. h \in Holders /\ t \in Token /\ t # Null
      BY <2>0, <2>1, NullAssumption DEF Worker, Token
    <3>2. marker[r] \in Marker /\ marker[r].token = t
      BY <2>1, <3>1 DEF Marker
    <3> QED
      BY <3>1, <3>2, AbsentAssumption DEF Names
  <2>3. slot[r] # Null /\ slot[r].pid \in alive /\ BelongsTo(h, t, slot[r].pid)
    BY <1>0, <2>0 DEF WorkerSound, SlotSound
  <2>4. BelongsTo(h, t, slot[r].pid)' /\ (Owns(h, t)' <=> Owns(h, t))
    BY <1>1, <1>3, <2>2, <2>3
  <2> QED
    BY <1>0, <1>1, <1>2, <2>0, <2>4 DEF WorkerSound
<1>6. MarkerSound(r)'
  <2>1. marker[r] # Null => marker[r].token \in Names(r)
    BY <1>0, NullAssumption DEF Names, Marker, Token
  <2>2. marker[r] # Null => marker[r].token \in 1..minted'
    <3> SUFFICES ASSUME marker[r] # Null PROVE marker[r].token \in 1..minted'
      OBVIOUS
    <3>1. marker[r].holder \in Holders
      BY <1>0 DEF Marker
    <3> QED
      BY <1>3, <2>1, <3>1
  <2> QED
    BY <1>0, <1>1, <2>2 DEF MarkerSound
<1> QED
  BY <1>4, <1>5, <1>6

\* The other slots keep what they rely on.
LEMMA OtherSlotsSound ==
    ASSUME LaneInv, NEW s \in Slots, SlotStep(s), NEW r \in Slots, r # s
    PROVE  SlotSound(r)' /\ WorkerSound(r)' /\ MarkerSound(r)'
<1>0. SlotSound(r) /\ Apart(s, r) /\ minted \in Nat /\ Names(r) \subseteq 1..minted
  BY NamesAreMinted DEF LaneInv, TypeOK
<1>1. /\ slot'[r] = slot[r] /\ worker'[r] = worker[r] /\ marker'[r] = marker[r]
      /\ \A h \in Holders : <<h, r>> \in containers' <=> <<h, r>> \in containers
      /\ alive' = alive /\ slot[s] # Null
      /\ slot[r] # Null => slot[r].pid \in alive'
  BY <1>0 DEF SlotStep, SlotSound
<1>2. minted' \in Nat /\ minted' >= minted
  BY <1>0 DEF SlotStep, OwnEffect, Quiet, Moves, Takes
<1>3. ASSUME NEW k \in Holders, NEW u \in Names(r)
      PROVE  /\ ~Owns(k, u) => ~Owns(k, u)'
             /\ slot[r] # Null /\ BelongsTo(k, u, slot[r].pid)
                   => /\ BelongsTo(k, u, slot[r].pid)'
                      /\ Owns(k, u) => Owns(k, u)'
  <2>1. u \in 1..minted /\ u \notin Names(s)
    BY <1>0, <1>3 DEF Apart
  <2>2. slot[r] # Null => slot[r].pid # slot[s].pid
    BY <1>0, <1>1 DEF Apart
  <2>3. /\ ~Owns(k, u) => ~Owns(k, u)'
        /\ Owns(k, u) /\ u \notin Names(s) /\ permits[k].pid \in alive \ {slot[s].pid}
              => Owns(k, u)' /\ permits'[k].pid = permits[k].pid
    BY <2>1, SlotStepKeeps
  <2>4. ASSUME slot[r] # Null, BelongsTo(k, u, slot[r].pid)
        PROVE  BelongsTo(k, u, slot[r].pid)' /\ (Owns(k, u) => Owns(k, u)')
    <3>1. CASE Owns(k, u)
      BY <1>1, <2>1, <2>2, <2>3, <2>4, <3>1 DEF BelongsTo
    <3>2. CASE ~Owns(k, u)
      BY <2>3, <3>2 DEF BelongsTo
    <3> QED
      BY <3>1, <3>2
  <2> QED
    BY <2>3, <2>4
<1> QED
  BY <1>1, <1>2, <1>3, UntouchedSlot

\* The ledger's own part of the invariant
LEMMA LedgerPart ==
    ASSUME LaneInv, [LedgerNext]_ledgerVars
    PROVE  TypeOK' /\ TokensFenceAttempts' /\ (now >= 1)' /\ LedgerMove
<1>1. TypeOK /\ TokensFenceAttempts /\ now >= 1
  BY DEF LaneInv
<1>2. TypeOK'
  BY <1>1, NextTypeOK
<1>3. LedgerMove
  BY <1>1, LedgerMoves
<1>4. TokensFenceAttempts'
  BY <1>1, <1>2, <1>3, TokensStep
<1> QED
  BY <1>1, <1>2, <1>3, <1>4, ClockRuns

\* A step of slot s keeps the invariant if it keeps what s relies on.
LEMMA SlotStepInv ==
    ASSUME LaneInv, NEW s \in Slots, SlotStep(s), [LedgerNext]_ledgerVars, NativeTypeOK',
           SlotSound(s)', WorkerSound(s)', MarkerSound(s)'
    PROVE  LaneInv'
<1>1. TypeOK' /\ TokensFenceAttempts' /\ (now >= 1)' /\ LedgerMove
  BY LedgerPart
<1>2. \A r \in Slots : SlotSound(r)' /\ WorkerSound(r)' /\ MarkerSound(r)'
  BY OtherSlotsSound
<1>3. \A r \in Slots : r # s => slot'[r] = slot[r] /\ marker'[r] = marker[r]
  BY DEF SlotStep
<1>4. \A r \in Slots : r # s => Names(r)' = Names(r)
  BY <1>3 DEF Names
<1>5. minted \in Nat /\ \A r \in Slots : Names(r) \subseteq 1..minted
  BY NamesAreMinted DEF LaneInv, TypeOK
<1>6. \A r, q \in Slots : r # q => Apart(r, q)
  BY DEF LaneInv
<1>7. ASSUME NEW r \in Slots, r # s PROVE Apart(s, r)' /\ Apart(r, s)'
  <2>1. slot'[r] # Null => slot'[s].pid # slot'[r].pid
    BY <1>3, <1>6, <1>7 DEF SlotStep, Apart
  <2>2. Names(s)' \cap Names(r)' = {}
    <3> SUFFICES ASSUME NEW t \in Names(s)', t \in Names(r)' PROVE FALSE
      OBVIOUS
    <3>1. t \in Names(r) /\ t \in 1..minted
      BY <1>4, <1>5, <1>7
    <3>2. t \in Names(s) \/ t = minted + 1
      BY DEF SlotStep
    <3> QED
      BY <1>5, <1>6, <1>7, <3>1, <3>2 DEF Apart
  <2> QED
    BY <2>1, <2>2 DEF Apart
<1>8. \A r, q \in Slots : r # q => Apart(r, q)'
  <2> SUFFICES ASSUME NEW r \in Slots, NEW q \in Slots, r # q PROVE Apart(r, q)'
    OBVIOUS
  <2>1. CASE r # s /\ q # s
    BY <1>3, <1>4, <1>6, <2>1 DEF Apart
  <2>2. CASE r = s \/ q = s
    BY <1>7, <2>2
  <2> QED
    BY <2>1, <2>2
<1>9. DaemonSound'
  BY <1>3 DEF SlotStep, DaemonSound, LaneInv
<1>10. RecoverySound'
  <2>0. recovery' = recovery /\ daemon' = daemon /\ slot[s] # Null
    BY DEF SlotStep
  <2> SUFFICES ASSUME recovery # Null PROVE RecoverySound'
    BY <2>0 DEF RecoverySound
  <2>1. PICK h, t, r : h = recovery.holder /\ t = recovery.token /\ r = recovery.slot
    OBVIOUS
  <2>2. h \in Holders /\ t \in Token /\ r \in Slots /\ recovery \in Recovery
    BY <2>1 DEF LaneInv, NativeTypeOK, Recovery
  <2>3. /\ Up /\ slot[r] = Null /\ marker[r] = [holder |-> h, token |-> t]
        /\ recovery.step = "claimed" =>
              \/ Owns(h, t) /\ permits[h].pid = daemon.pid
              \/ ~Held(h) /\ Closed(h)
        /\ recovery.step # "claimed" => Bare(r)
        /\ recovery.step = "released" => ~Owns(h, t)
    BY <2>1 DEF RecoverySound, LaneInv
  <2>4. r # s /\ slot'[r] = Null /\ marker'[r] = marker[r] /\ (Bare(r)' <=> Bare(r))
    BY <2>0, <2>2, <2>3 DEF SlotStep, Bare
  <2>5. t \in Names(r) /\ t \in 1..minted /\ t \notin Names(s)
    <3>1. marker[r] \in Marker /\ marker[r].token = t /\ t # Null
      BY <2>2, <2>3, NullAssumption DEF Marker, Token
    <3>2. t \in Names(r)
      BY <3>1, AbsentAssumption DEF Names
    <3> QED
      BY <1>5, <1>6, <2>2, <2>4, <3>2 DEF Apart
  <2>6. daemon.pid \in alive \ {slot[s].pid}
    BY <2>0, <2>3 DEF LaneInv, DaemonSound, Up
  <2>7. /\ ~Owns(h, t) => ~Owns(h, t)'
        /\ Owns(h, t) /\ permits[h].pid = daemon.pid
              => Owns(h, t)' /\ permits'[h].pid = permits[h].pid
    BY <2>2, <2>5, <2>6, SlotStepKeeps
  <2>8. ~Held(h) /\ Closed(h) => ~Held(h)' /\ Closed(h)'
    BY <1>1, <2>2 DEF LedgerMove, HolderStep, ClosedStays, Closed, Known
  <2>9. Up'
    BY <2>0, <2>3 DEF Up
  <2> QED
    BY <2>0, <2>1, <2>3, <2>4, <2>7, <2>8, <2>9 DEF RecoverySound
<1> QED
  BY <1>1, <1>2, <1>8, <1>9, <1>10 DEF LaneInv

-----------------------------------------------------------------------------
(* The steps of a handler *)

\* Every permit stays with its attempt, and process p keeps those it has.
Tame(p) ==
    \A k \in Holders :
        /\ Held(k)' <=> Held(k)
        /\ Held(k) => /\ permits'[k].token = permits[k].token
                      /\ permits[k].pid = p => permits'[k].pid = p

LEMMA QuietIsTame ==
    ASSUME NEW p, Quiet
    PROVE  Tame(p)
  BY DEF Quiet, Tame

LEMMA RewriteIsTame ==
    ASSUME NEW h \in Holders, NEW t, NEW p, Moves(h, t, p), Owns(h, t)'
    PROVE  Tame(p)
<1>1. ASSUME NEW k \in Holders, k # h
      PROVE  permits'[k] = permits[k]
  BY <1>1 DEF Moves
<1>2. /\ Held(h) /\ Held(h)' /\ permits'[h].token = permits[h].token
      /\ permits[h].pid = p => permits'[h].pid = p
  BY DEF Moves, Owns
<1> QED
  BY <1>1, <1>2 DEF Tame, Held

\* What a tame step leaves of the facts about one attempt
LEMMA TameKeeps ==
    ASSUME NEW p, Tame(p), NEW k \in Holders, NEW u
    PROVE  /\ Owns(k, u)' <=> Owns(k, u)
           /\ BelongsTo(k, u, p) => BelongsTo(k, u, p)'
  BY DEF Tame, Owns, BelongsTo

\* Only the process of slot s notes something.
RowStep(s, row) ==
    /\ slot' = [slot EXCEPT ![s] = row]
    /\ row \in SlotProcess
    /\ row.pid = slot[s].pid
    /\ service' \in [Holders -> {"queued", "assigned", "gone"}]
    /\ UNCHANGED <<alive, worker, marker, containers, daemon, recovery>>

LEMMA RowStepInv ==
    ASSUME LaneInv, NEW s \in Slots, NEW row, slot[s] # Null, RowStep(s, row), OwnEffect(s),
           [LedgerNext]_ledgerVars, row.token \in {slot[s].token, Null, minted'},
           row.token = minted' => minted' = minted + 1 \/ row.token = slot[s].token,
           SlotSound(s)', WorkerSound(s)'
    PROVE  LaneInv'
<1>1. /\ slot \in [Slots -> SlotProcess \cup {Null}]
      /\ slot'[s] = row /\ slot'[s] # Null
      /\ \A r \in Slots \ {s} : slot'[r] = slot[r]
      /\ slot' \in [Slots -> SlotProcess \cup {Null}]
  BY AbsentAssumption DEF LaneInv, NativeTypeOK, RowStep
<1>2. NativeTypeOK'
  BY <1>1 DEF LaneInv, NativeTypeOK, RowStep
<1>3. minted \in Nat /\ minted' >= minted
  BY DEF LaneInv, TypeOK, OwnEffect, Quiet, Moves, Takes
<1>4. MarkerSound(s)'
  <2>1. MarkerSound(s)
    BY DEF LaneInv
  <2>2. marker[s] # Null => marker[s].token \in Nat
    BY DEF LaneInv, NativeTypeOK, Marker, Token
  <2>3. minted' \in Nat
    BY <1>3, LedgerPart DEF TypeOK
  <2> QED
    BY <1>3, <2>1, <2>2, <2>3 DEF MarkerSound, RowStep
<1>5. \A t \in Names(s)' : t \in Names(s) \/ (t = minted' /\ minted' = minted + 1)
  BY <1>1 DEF Names, RowStep
<1>6. SlotStep(s)
  BY <1>1, <1>5 DEF SlotStep, RowStep
<1> QED
  BY <1>2, <1>4, <1>6, SlotStepInv

\* The notes a handler may take while the permits stay where they are
TameNotes(s, row) ==
    \/ row.pc = "idle" /\ row.token = Null
    \/ row.pc \in Asking /\ row.token = Null /\ row.holder \in Holders /\ marker[s] = Null
    \/ /\ slot[s].pc \in Attempting /\ row.pc \in Attempting
       /\ row.holder = slot[s].holder /\ row.token = slot[s].token
       /\ row.pc \in Unrecorded => slot[s].pc \in Unrecorded
       /\ row.pc \in Recorded => slot[s].pc = "recorded" /\ row.pc \in {"running", "concluding"}

\* A thread is left behind only by a handler that is done with the job.
LEMMA NoThread ==
    ASSUME LaneInv, NEW s \in Slots,
           slot[s] = Null \/ slot[s].pc \notin Leaving \cup {"idle"} \/ marker[s] = Null
    PROVE  worker[s] = Null
<1>1. WorkerSound(s) /\ worker \in [Slots -> Worker \cup {Null}]
  BY DEF LaneInv, NativeTypeOK
<1>2. worker[s] # Null => [holder |-> worker[s].holder, token |-> worker[s].token] \in Marker
  BY <1>1 DEF Worker, Marker
<1> QED
  BY <1>1, <1>2, AbsentAssumption DEF WorkerSound

LEMMA TameRowInv ==
    ASSUME LaneInv, NEW s \in Slots, NEW row, slot[s] # Null, RowStep(s, row), OwnEffect(s),
           [LedgerNext]_ledgerVars, Tame(slot[s].pid), minted' = minted,
           TameNotes(s, row), worker[s] = Null \/ row.pc \in Leaving \cup {"idle"}
    PROVE  LaneInv'
<1>0. /\ SlotSound(s) /\ WorkerSound(s) /\ worker \in [Slots -> Worker \cup {Null}]
      /\ slot[s].pid \in alive
  BY DEF LaneInv, NativeTypeOK, SlotSound
<1>1. slot'[s] = row /\ row.pid = slot[s].pid /\ row # Null
  BY AbsentAssumption DEF LaneInv, NativeTypeOK, RowStep
<1>2. PICK p : p = slot[s].pid
  OBVIOUS
<1>3. \A k \in Holders : \A u : /\ Owns(k, u)' <=> Owns(k, u)
                                /\ BelongsTo(k, u, p) => BelongsTo(k, u, p)'
  BY <1>2, TameKeeps
<1>4. Bare(s)' <=> Bare(s)
  BY DEF RowStep, Bare
<1>5. alive' = alive /\ marker' = marker /\ worker' = worker
  BY DEF RowStep
<1>6. SlotSound(s)'
  <2>1. CASE row.pc = "idle" /\ row.token = Null
    <3>1. row.pc \notin Attempting \cup Asking \cup Unrecorded \cup Recorded
      BY <2>1 DEF Attempting, Asking, Unrecorded, Recorded, Leaving
    <3>2. row.pc \notin {"recorded", "running", "clearing", "concluding"}
      BY <2>1
    <3> QED
      BY <1>0, <1>1, <1>5, <2>1, <3>1, <3>2 DEF SlotSound
  <2>2. CASE row.pc \in Asking /\ row.token = Null /\ row.holder \in Holders /\ marker[s] = Null
    <3>1. row.pc \notin Attempting \cup Recorded \cup {"recorded", "running", "clearing", "concluding"}
      BY <2>2 DEF Attempting, Asking, Unrecorded, Recorded, Leaving
    <3> QED
      BY <1>0, <1>1, <1>5, <2>2, <3>1 DEF SlotSound
  <2>3. CASE /\ slot[s].pc \in Attempting /\ row.pc \in Attempting
             /\ row.holder = slot[s].holder /\ row.token = slot[s].token
             /\ row.pc \in Unrecorded => slot[s].pc \in Unrecorded
             /\ row.pc \in Recorded =>
                   slot[s].pc = "recorded" /\ row.pc \in {"running", "concluding"}
    <3>1. PICK h, t : h = row.holder /\ t = row.token
      OBVIOUS
    <3>2. /\ slot[s].pc # "idle" /\ "recorded" \in Recorded
          /\ row.pc \notin Asking
      BY <2>3 DEF Attempting, Asking, Unrecorded, Recorded, Leaving
    <3>3. /\ h \in Holders /\ t \in 1..minted /\ BelongsTo(h, t, p)
          /\ row.pc \in Unrecorded => marker[s] = Null
          /\ row.pc \in Recorded => /\ marker[s] = [holder |-> h, token |-> t]
                                    /\ Owns(h, t) /\ Bare(s)
      BY <1>0, <1>2, <2>3, <3>1, <3>2 DEF SlotSound
    <3>4. row.pc \in {"recorded", "running", "clearing", "concluding"} => row.pc \in Recorded
      BY DEF Recorded
    <3>5. /\ BelongsTo(h, t, p)' /\ (Owns(h, t)' <=> Owns(h, t))
      BY <1>3, <3>3
    <3>6. row.pc # "clearing"
      BY <2>3, <3>4
    <3> QED
      BY <1>0, <1>1, <1>2, <1>4, <1>5, <2>3, <3>1, <3>2, <3>3, <3>4, <3>5, <3>6 DEF SlotSound
  <2> QED
    BY <2>1, <2>2, <2>3 DEF TameNotes
<1>7. WorkerSound(s)'
  <2> SUFFICES ASSUME worker[s] # Null PROVE WorkerSound(s)'
    BY <1>5 DEF WorkerSound
  <2>1. PICK h, t : h = worker[s].holder /\ t = worker[s].token
    OBVIOUS
  <2>2. h \in Holders /\ BelongsTo(h, t, p)
    BY <1>0, <1>2, <2>1 DEF WorkerSound, Worker
  <2>3. BelongsTo(h, t, p)' /\ (Owns(h, t)' <=> Owns(h, t))
    BY <1>3, <2>2
  <2> QED
    BY <1>0, <1>1, <1>2, <1>4, <1>5, <2>1, <2>3 DEF WorkerSound
<1>8. row.token \in {slot[s].token, Null}
  BY DEF TameNotes
<1>9. row.token = minted' => row.token = slot[s].token
  <2>1. minted' # Null
    BY NullAssumption DEF LaneInv, TypeOK
  <2> QED
    BY <1>8, <2>1
<1> QED
  BY <1>6, <1>7, <1>8, <1>9, RowStepInv

LEMMA SlotRows ==
    ASSUME NEW r \in SlotProcess, NEW pc \in Pcs
    PROVE  /\ [r EXCEPT !.pc = pc] \in SlotProcess
           /\ \A g \in Nat : [r EXCEPT !.gen = g] \in SlotProcess
           /\ \A g \in Nat : [r EXCEPT !.pc = pc, !.gen = g] \in SlotProcess
           /\ \A h \in Holders : [r EXCEPT !.pc = pc, !.holder = h] \in SlotProcess
           /\ \A t \in Token, g \in Nat :
                 [r EXCEPT !.pc = pc, !.token = t, !.gen = g] \in SlotProcess
           /\ IdleProcess(r.pid) \in SlotProcess
<1>1. "idle" \in Pcs
  BY DEF Pcs
<1> QED
  BY <1>1 DEF SlotProcess, IdleProcess

\* The ledger's side of a step that leaves every permit with its attempt
Calm(s) ==
    /\ [LedgerNext]_ledgerVars
    /\ Tame(slot[s].pid) /\ OwnEffect(s)
    /\ minted' = minted /\ alive' = alive

LEMMA LedgerAtRest ==
    ASSUME NEW s, UNCHANGED ledgerVars
    PROVE  Calm(s)
<1>1. permits' = permits /\ minted' = minted /\ alive' = alive
  BY DEF ledgerVars, env
<1> QED
  BY <1>1, SameIsQuiet, QuietIsTame DEF Calm, OwnEffect

LEMMA DemandCallsAreCalm ==
    ASSUME LaneInv, NEW s \in Slots, slot[s] # Null, NEW h \in Holders, NEW g,
           \/ ObserveDemand(h, "native", now, now)
           \/ ParkDemand(h)
           \/ AcquireFull(h, "native", g)
           \/ AcquireDeferred(h, "native", g)
    PROVE  Calm(s)
<1>1. permits' = permits /\ minted' = minted /\ alive' = alive
  BY DEF ObserveDemand, ParkDemand, AcquireFull, AcquireDeferred, env
<1>2. TypeOK /\ now >= 1 /\ slot[s].pid \in alive
  BY DEF LaneInv, SlotSound
<1>3. LedgerNext
  BY <1>2, GuardCallsLedger
<1> QED
  BY <1>1, <1>3, SameIsQuiet, QuietIsTame DEF Calm, OwnEffect

\* A call that rewrites the row of the slot's own attempt
LEMMA OwnRewriteIsCalm ==
    ASSUME LaneInv, NEW s \in Slots, slot[s] # Null, slot[s].pc \in Attempting, NEW g,
           \/ \E state \in {"running", "cleaning"} :
                 TransitionOwned(slot[s].holder, state, g, slot[s].token, slot[s].pid)
           \/ RetainUncertain(slot[s].holder, g, slot[s].token)
           \/ RetainUncertainAfterCleanup(slot[s].holder, slot[s].token, slot[s].pid)
    PROVE  Calm(s)
<1>1. PICK h, t, p : h = slot[s].holder /\ t = slot[s].token /\ p = slot[s].pid
  OBVIOUS
<1>2. /\ h \in Holders /\ t \in 1..minted /\ p \in alive /\ p \in Pids /\ TypeOK
      /\ t \in Names(s)
  <2>1. SlotSound(s) /\ TypeOK /\ slot[s].pc # "idle"
    BY DEF LaneInv, Attempting, Unrecorded, Recorded, Leaving
  <2> QED
    BY <1>1, <2>1, NullAssumption DEF SlotSound, TypeOK, Names
<1>3. \/ \E state \in {"running", "cleaning"} : TransitionOwned(h, state, g, t, p)
      \/ RetainUncertain(h, g, t)
      \/ RetainUncertainAfterCleanup(h, t, p)
  BY <1>1
<1>4. LedgerNext
  BY <1>2, <1>3, OwnerCallsLedger
<1>5. Moves(h, t, p) /\ Owns(h, t)' /\ alive' = alive
  BY <1>2, <1>3, RewritesMove
<1>6. Tame(p)
  BY <1>2, <1>5, RewriteIsTame
<1>7. OwnEffect(s) /\ minted' = minted
  BY <1>1, <1>2, <1>5 DEF OwnEffect, Moves
<1>8. Tame(slot[s].pid)
  BY <1>1, <1>6
<1> QED
  BY <1>4, <1>5, <1>7, <1>8 DEF Calm

\* The step is one of the ledger's and keeps the invariant.
LaneGood == [LedgerNext]_ledgerVars /\ LaneInv'

\* A calm step in which the handler takes a note
LEMMA CalmRow ==
    ASSUME LaneInv, NEW s \in Slots, slot[s] # Null, Calm(s), NEW row,
           slot' = [slot EXCEPT ![s] = row], row \in SlotProcess, row.pid = slot[s].pid,
           service' \in [Holders -> {"queued", "assigned", "gone"}],
           UNCHANGED <<worker, marker, containers, daemon, recovery>>,
           TameNotes(s, row), worker[s] = Null \/ row.pc \in Leaving \cup {"idle"}
    PROVE  LaneGood
<1>1. RowStep(s, row)
  BY DEF RowStep, Calm
<1> QED
  BY <1>1, TameRowInv DEF Calm, LaneGood

\* What a handler at one of its places knows
LEMMA AtPlace ==
    ASSUME LaneInv, NEW s \in Slots, NEW pc, At(s, pc)
    PROVE  /\ slot[s] # Null /\ slot[s] \in SlotProcess /\ slot[s].pc = pc /\ slot[s].pid \in alive
           /\ slot \in [Slots -> SlotProcess \cup {Null}] /\ generation \in Nat
           /\ pc # "idle" => slot[s].holder \in Holders
           /\ pc \notin Attempting => slot[s].token = Null
           /\ pc \in Attempting => slot[s].token \in 1..minted
           /\ pc \notin Leaving \cup {"idle"} => worker[s] = Null
           /\ service \in [Holders -> {"queued", "assigned", "gone"}]
  BY NoThread DEF LaneInv, TypeOK, NativeTypeOK, SlotSound, At

\* The handler returns while the permits stay where they are.
LEMMA ReturnInv ==
    ASSUME LaneInv, NEW s \in Slots, NEW pc, At(s, pc), Return(s), Calm(s),
           UNCHANGED <<worker, marker, containers, service, daemon, recovery>>
    PROVE  LaneGood
<1> DEFINE row == IdleProcess(slot[s].pid)
<1>1. /\ slot[s] # Null /\ slot[s] \in SlotProcess
      /\ service \in [Holders -> {"queued", "assigned", "gone"}]
  BY AtPlace
<1>2. row \in SlotProcess
  BY <1>1, SlotRows DEF SlotProcess
<1>3. row.pid = slot[s].pid /\ row.pc = "idle" /\ row.token = Null
  BY DEF IdleProcess
<1>4. slot' = [slot EXCEPT ![s] = row]
  BY DEF Return
<1> HIDE DEF row
<1>5. TameNotes(s, row)
  BY <1>3 DEF TameNotes
<1> QED
  BY <1>1, <1>2, <1>3, <1>4, <1>5, CalmRow

\* Before the permit: the request is offered, the guard asks the ledger.
LEMMA AskingSteps ==
    ASSUME LaneInv, NEW s \in Slots,
           \/ \E h \in Holders : ReceiveMessage(s, h)
           \/ AdmissionBlocked(s) \/ EnterGuard(s) \/ GuardRereads(s)
           \/ GuardDeparts(s) \/ GuardParks(s)
    PROVE  LaneGood
<1>0. {"offered", "admitting", "departing"} = Asking /\ Asking \subseteq Pcs
      /\ Asking \cap (Attempting \cup Leaving \cup {"idle"}) = {}
  BY DEF Asking, Pcs, Attempting, Unrecorded, Recorded, Leaving
<1>1. ASSUME NEW h \in Holders, ReceiveMessage(s, h) PROVE LaneGood
  <2> DEFINE row == [slot[s] EXCEPT !.pc = "offered", !.holder = h]
  <2>1. /\ At(s, "idle") /\ marker[s] = Null /\ ObserveDemand(h, "native", now, now)
        /\ slot' = [slot EXCEPT ![s].pc = "offered", ![s].holder = h]
        /\ UNCHANGED <<worker, marker, containers, service, daemon, recovery>>
    BY <1>1 DEF ReceiveMessage
  <2>2. "idle" \notin Attempting
    BY DEF Attempting, Unrecorded, Recorded, Leaving
  <2>3. /\ slot[s] # Null /\ slot[s] \in SlotProcess /\ slot[s].token = Null
        /\ slot \in [Slots -> SlotProcess \cup {Null}]
        /\ service \in [Holders -> {"queued", "assigned", "gone"}]
    BY <2>1, <2>2, AtPlace
  <2>4. /\ row \in SlotProcess /\ row.pid = slot[s].pid /\ row.pc = "offered"
        /\ row.token = Null /\ row.holder = h
    <3>1. row \in SlotProcess
      BY <1>0, <2>3, SlotRows
    <3> QED
      BY <2>3, <3>1 DEF SlotProcess
  <2>5. slot' = [slot EXCEPT ![s] = row]
    BY <2>1, <2>3
  <2> HIDE DEF row
  <2>6. TameNotes(s, row) /\ worker[s] = Null /\ Calm(s)
    BY <1>0, <2>1, <2>3, <2>4, NoThread, DemandCallsAreCalm DEF TameNotes
  <2> QED
    BY <2>1, <2>3, <2>4, <2>5, <2>6, CalmRow
<1>3. ASSUME NEW pc \in Asking, At(s, pc), NEW new \in Asking, NEW g \in Nat,
             \/ slot' = [slot EXCEPT ![s] = [slot[s] EXCEPT !.pc = new]]
             \/ slot' = [slot EXCEPT ![s] = [slot[s] EXCEPT !.pc = new, !.gen = g]],
             Calm(s), UNCHANGED <<worker, marker, containers, service, daemon, recovery>>
      PROVE  LaneGood
  <2>1. PICK row : /\ slot' = [slot EXCEPT ![s] = row]
                   /\ \/ row = [slot[s] EXCEPT !.pc = new]
                      \/ row = [slot[s] EXCEPT !.pc = new, !.gen = g]
    BY <1>3
  <2>2. /\ slot[s] # Null /\ slot[s] \in SlotProcess /\ pc # "idle" /\ pc \notin Attempting
        /\ slot[s].holder \in Holders /\ slot[s].token = Null /\ new \in Pcs
        /\ service \in [Holders -> {"queued", "assigned", "gone"}] /\ worker[s] = Null
        /\ slot[s].pc \in Asking
    BY <1>0, <1>3, AtPlace
  <2>3. row \in SlotProcess
    <3>1. /\ [slot[s] EXCEPT !.pc = new] \in SlotProcess
          /\ [slot[s] EXCEPT !.pc = new, !.gen = g] \in SlotProcess
      BY <2>2, SlotRows
    <3> QED
      BY <2>1, <3>1
  <2>4. /\ row.pid = slot[s].pid /\ row.pc = new /\ row.token = Null
        /\ row.holder = slot[s].holder
    BY <2>1, <2>2 DEF SlotProcess
  <2>5. marker[s] = Null
    BY <2>2 DEF LaneInv, SlotSound
  <2>6. TameNotes(s, row)
    BY <1>3, <2>2, <2>4, <2>5 DEF TameNotes
  <2> QED
    BY <1>3, <2>1, <2>2, <2>3, <2>4, <2>6, CalmRow
<1>4. CASE AdmissionBlocked(s)
  <2>1. Calm(s)
    BY <1>4, LedgerAtRest DEF AdmissionBlocked
  <2> QED
    BY <1>4, <2>1, ReturnInv DEF AdmissionBlocked
<1>5. CASE GuardParks(s)
  <2>1. At(s, "departing") /\ slot[s] # Null /\ slot[s].holder \in Holders
    BY <1>0, <1>5, AtPlace DEF GuardParks
  <2>2. ParkDemand(slot[s].holder) \/ UNCHANGED ledgerVars
    BY <1>5 DEF GuardParks
  <2>3. Calm(s)
    BY <2>1, <2>2, LedgerAtRest, DemandCallsAreCalm
  <2> QED
    BY <1>5, <2>1, <2>3, ReturnInv DEF GuardParks
<1>6. CASE EnterGuard(s)
  <2>1. At(s, "offered") /\ slot[s] # Null /\ slot[s].holder \in Holders /\ generation \in Nat
        /\ slot \in [Slots -> SlotProcess \cup {Null}]
    BY <1>0, <1>6, AtPlace DEF EnterGuard
  <2>2. Calm(s)
    BY <1>6, <2>1, DemandCallsAreCalm DEF EnterGuard
  <2>3. slot' = [slot EXCEPT ![s] = [slot[s] EXCEPT !.pc = "admitting", !.gen = generation]]
    BY <1>6, <2>1 DEF EnterGuard
  <2> QED
    BY <1>0, <1>3, <1>6, <2>1, <2>2, <2>3 DEF EnterGuard
<1>7. CASE GuardRereads(s)
  <2>1. /\ At(s, "admitting") /\ slot[s] \in SlotProcess /\ slot[s].pc = "admitting"
        /\ generation \in Nat /\ slot \in [Slots -> SlotProcess \cup {Null}]
    BY <1>0, <1>7, AtPlace DEF GuardRereads
  <2>2. Calm(s)
    BY <1>7, LedgerAtRest DEF GuardRereads
  <2>3. [slot[s] EXCEPT !.gen = generation] = [slot[s] EXCEPT !.pc = "admitting", !.gen = generation]
    BY <2>1 DEF SlotProcess
  <2>4. slot' = [slot EXCEPT ![s] = [slot[s] EXCEPT !.pc = "admitting", !.gen = generation]]
    BY <1>7, <2>1, <2>3 DEF GuardRereads
  <2> QED
    BY <1>0, <1>3, <1>7, <2>1, <2>2, <2>4 DEF GuardRereads
<1>8. CASE GuardDeparts(s)
  <2>1. /\ At(s, "admitting") /\ slot[s] # Null /\ slot[s].holder \in Holders
        /\ slot \in [Slots -> SlotProcess \cup {Null}] /\ generation \in Nat
    BY <1>0, <1>8, AtPlace DEF GuardDeparts
  <2>2. \/ UNCHANGED ledgerVars
        \/ AcquireFull(slot[s].holder, "native", slot[s].gen)
        \/ AcquireDeferred(slot[s].holder, "native", slot[s].gen)
    BY <1>8 DEF GuardDeparts
  <2>3. Calm(s)
    BY <2>1, <2>2, LedgerAtRest, DemandCallsAreCalm
  <2>4. slot' = [slot EXCEPT ![s] = [slot[s] EXCEPT !.pc = "departing"]]
    BY <1>8, <2>1 DEF GuardDeparts, Goto
  <2> QED
    BY <1>0, <1>3, <1>8, <2>1, <2>3, <2>4 DEF GuardDeparts
<1> QED
  BY <1>1, <1>4, <1>5, <1>6, <1>7, <1>8

\* The handler goes on with its attempt while the permits stay where they are.
LEMMA AttemptInv ==
    ASSUME LaneInv, NEW s \in Slots, NEW pc \in Attempting, At(s, pc), Calm(s),
           NEW new \in Attempting, NEW g \in Nat,
           \/ slot' = [slot EXCEPT ![s] = [slot[s] EXCEPT !.pc = new]]
           \/ slot' = [slot EXCEPT ![s] = [slot[s] EXCEPT !.pc = new, !.gen = g]],
           service' \in [Holders -> {"queued", "assigned", "gone"}],
           UNCHANGED <<worker, marker, containers, daemon, recovery>>,
           new \in Unrecorded => pc \in Unrecorded,
           new \in Recorded => pc = "recorded" /\ new \in {"running", "concluding"},
           pc \in Leaving => new \in Leaving
    PROVE  LaneGood
<1>0. Attempting \subseteq Pcs /\ "idle" \notin Attempting
  BY DEF Pcs, Attempting, Unrecorded, Recorded, Leaving
<1>1. PICK row : /\ slot' = [slot EXCEPT ![s] = row]
                 /\ \/ row = [slot[s] EXCEPT !.pc = new]
                    \/ row = [slot[s] EXCEPT !.pc = new, !.gen = g]
  OBVIOUS
<1>2. /\ slot[s] # Null /\ slot[s] \in SlotProcess /\ slot[s].pc = pc
      /\ pc \notin Leaving \cup {"idle"} => worker[s] = Null
  BY AtPlace
<1>3. row \in SlotProcess
  <2>1. /\ [slot[s] EXCEPT !.pc = new] \in SlotProcess
        /\ [slot[s] EXCEPT !.pc = new, !.gen = g] \in SlotProcess
    BY <1>0, <1>2, SlotRows
  <2> QED
    BY <1>1, <2>1
<1>4. /\ row.pid = slot[s].pid /\ row.pc = new /\ row.token = slot[s].token
      /\ row.holder = slot[s].holder
  BY <1>1, <1>2 DEF SlotProcess
<1>5. TameNotes(s, row) /\ (worker[s] = Null \/ row.pc \in Leaving \cup {"idle"})
  BY <1>0, <1>2, <1>4 DEF TameNotes
<1> QED
  BY <1>1, <1>2, <1>3, <1>4, <1>5, CalmRow

\* The steps of an attempt in which the permit stays with it
LEMMA AttemptSteps ==
    ASSUME LaneInv, NEW s \in Slots,
           \/ RecordIntent(s) \/ ServiceAssigns(s) \/ ResponseUnclear(s)
           \/ AcquiredNotStarted(s) \/ FailBeforeStart(s) \/ StartJob(s)
           \/ Join(s) \/ JoinTimesOut(s) \/ RetainBestEffort(s)
    PROVE  LaneGood
<1>0. /\ Unrecorded = {"owned", "sent", "acquired"} /\ Leaving = {"joining", "unacked", "dropping"}
      /\ Recorded = {"recorded", "running", "concluding", "clearing"}
      /\ Attempting = Unrecorded \cup Recorded \cup Leaving
  BY DEF Unrecorded, Leaving, Recorded, Attempting
<1>1. ASSUME NEW pc \in Attempting, At(s, pc)
      PROVE  /\ slot[s] # Null /\ slot[s].pc = pc /\ slot[s].holder \in Holders
             /\ slot \in [Slots -> SlotProcess \cup {Null}] /\ generation \in Nat
             /\ service \in [Holders -> {"queued", "assigned", "gone"}]
  BY <1>0, <1>1, AtPlace
<1>2. ASSUME NEW pc \in Attempting, At(s, pc), DropRetaining(s), Calm(s),
             service' \in [Holders -> {"queued", "assigned", "gone"}],
             UNCHANGED <<worker, marker, containers, daemon, recovery>>
      PROVE  LaneGood
  <2>1. slot \in [Slots -> SlotProcess \cup {Null}] /\ generation \in Nat
    BY <1>1, <1>2
  <2>2. slot' = [slot EXCEPT ![s] = [slot[s] EXCEPT !.pc = "dropping", !.gen = generation]]
    BY <1>2, <2>1 DEF DropRetaining
  <2> QED
    BY <1>0, <1>2, <2>1, <2>2, AttemptInv
<1>3. ASSUME NEW pc \in Attempting, At(s, pc), NEW new \in {"sent", "acquired", "running", "concluding"},
             Goto(s, new), Calm(s), new \in Unrecorded => pc \in Unrecorded,
             new \in Recorded => pc = "recorded",
             service' \in [Holders -> {"queued", "assigned", "gone"}],
             UNCHANGED <<worker, marker, containers, daemon, recovery>>
      PROVE  LaneGood
  <2>1. slot \in [Slots -> SlotProcess \cup {Null}] /\ generation \in Nat
    BY <1>1, <1>3
  <2>2. slot' = [slot EXCEPT ![s] = [slot[s] EXCEPT !.pc = new]]
    BY <1>3, <2>1 DEF Goto
  <2> QED
    BY <1>0, <1>3, <2>1, <2>2, AttemptInv
<1>4. CASE RecordIntent(s)
  <2>1. At(s, "owned") /\ Goto(s, "sent") /\ Calm(s)
    BY <1>4, LedgerAtRest DEF RecordIntent
  <2> QED
    BY <1>0, <1>1, <1>3, <1>4, <2>1 DEF RecordIntent
<1>5. CASE ServiceAssigns(s)
  <2>1. At(s, "sent") /\ Goto(s, "acquired") /\ Calm(s)
    BY <1>5, LedgerAtRest DEF ServiceAssigns
  <2>2. service' \in [Holders -> {"queued", "assigned", "gone"}]
    BY <1>0, <1>1, <1>5, <2>1 DEF ServiceAssigns
  <2> QED
    BY <1>0, <1>3, <1>5, <2>1, <2>2 DEF ServiceAssigns
<1>6. CASE ResponseUnclear(s)
  <2>1. At(s, "sent") /\ DropRetaining(s) /\ Calm(s)
    BY <1>6, LedgerAtRest DEF ResponseUnclear
  <2>2. service' \in [Holders -> {"queued", "assigned", "gone"}]
    BY <1>0, <1>1, <1>6, <2>1 DEF ResponseUnclear
  <2> QED
    BY <1>0, <1>2, <1>6, <2>1, <2>2 DEF ResponseUnclear
<1>7. CASE AcquiredNotStarted(s)
  <2>1. PICK pc \in {"acquired", "recorded"} : At(s, pc) /\ DropRetaining(s) /\ Calm(s)
    BY <1>7, LedgerAtRest DEF AcquiredNotStarted
  <2> QED
    BY <1>0, <1>1, <1>2, <1>7, <2>1 DEF AcquiredNotStarted
<1>8. CASE FailBeforeStart(s)
  <2>1. At(s, "recorded") /\ Goto(s, "concluding") /\ Calm(s)
    BY <1>8, LedgerAtRest DEF FailBeforeStart
  <2>2. service' \in [Holders -> {"queued", "assigned", "gone"}]
    BY <1>0, <1>1, <1>8, <2>1 DEF FailBeforeStart
  <2> QED
    BY <1>0, <1>3, <1>8, <2>1, <2>2 DEF FailBeforeStart
<1>9. CASE StartJob(s)
  <2>1. At(s, "recorded") /\ Goto(s, "running") /\ slot[s] # Null /\ slot[s].pc \in Attempting
    BY <1>0, <1>1, <1>9 DEF StartJob
  <2>2. Calm(s)
    BY <1>9, <2>1, LedgerAtRest, OwnRewriteIsCalm DEF StartJob, Spell
  <2> QED
    BY <1>0, <1>1, <1>3, <1>9, <2>1, <2>2 DEF StartJob
<1>10. CASE Join(s)
  <2>1. Calm(s)
    BY <1>10, LedgerAtRest DEF Join
  <2>2. CASE At(s, "joining") /\ Return(s)
    BY <1>10, <2>1, <2>2, ReturnInv DEF Join
  <2>3. CASE At(s, "unacked") /\ DropRetaining(s)
    BY <1>0, <1>1, <1>2, <1>10, <2>1, <2>3 DEF Join
  <2> QED
    BY <1>10, <2>2, <2>3 DEF Join
<1>11. CASE JoinTimesOut(s)
  <2>1. PICK pc \in {"joining", "unacked"} : At(s, pc) /\ DropRetaining(s) /\ Calm(s)
    BY <1>11, LedgerAtRest DEF JoinTimesOut
  <2> QED
    BY <1>0, <1>1, <1>2, <1>11, <2>1 DEF JoinTimesOut
<1>12. CASE RetainBestEffort(s)
  <2>1. At(s, "dropping") /\ Return(s) /\ slot[s] # Null /\ slot[s].pc \in Attempting
    BY <1>0, <1>1, <1>12 DEF RetainBestEffort
  <2>2. RetainUncertain(slot[s].holder, slot[s].gen, slot[s].token) \/ UNCHANGED ledgerVars
    BY <1>12 DEF RetainBestEffort
  <2>3. Calm(s)
    BY <2>1, <2>2, LedgerAtRest, OwnRewriteIsCalm
  <2> QED
    BY <1>12, <2>1, <2>3, ReturnInv DEF RetainBestEffort
<1> QED
  BY <1>4, <1>5, <1>6, <1>7, <1>8, <1>9, <1>10, <1>11, <1>12

-----------------------------------------------------------------------------
(* The steps that take, record and give up the permit *)

\* The handler drops a permit before its job was recorded.
LEMMA GiveUpSteps ==
    ASSUME LaneInv, NEW s \in Slots, IntentFails(s) \/ ServiceSaysGone(s)
    PROVE  LaneGood
<1>0. PICK pc \in {"owned", "sent"} :
          /\ At(s, pc) /\ Return(s)
          /\ \/ ReleaseOwned(slot[s].holder, slot[s].token, "eligible")
             \/ ReleaseNativeOwned(slot[s].holder, slot[s].token, "cancelled")
          /\ UNCHANGED <<worker, marker, containers, service, daemon, recovery>>
  BY DEF IntentFails, ServiceSaysGone
<1>a. pc \in Attempting /\ pc \notin Leaving \cup {"idle"} /\ pc \in Pcs
  BY DEF Attempting, Unrecorded, Recorded, Leaving, Pcs
<1>1. PICK h, t, p : h = slot[s].holder /\ t = slot[s].token /\ p = slot[s].pid
  OBVIOUS
<1>2. /\ slot[s] # Null /\ slot[s] \in SlotProcess /\ p \in alive /\ TypeOK
      /\ h \in Holders /\ t \in 1..minted /\ worker[s] = Null
      /\ service \in [Holders -> {"queued", "assigned", "gone"}]
  BY <1>0, <1>1, <1>a, AtPlace DEF LaneInv
<1>3. t \in Names(s)
  BY <1>1, <1>2, NullAssumption DEF Names, TypeOK
<1>4. LedgerNext
  <2>1. "cancelled" \in ClosedStates
    BY DEF ClosedStates
  <2> QED
    BY <1>0, <1>1, <1>2, <2>1, OwnerCallsLedger
<1>5. (Moves(h, t, p) \/ Quiet) /\ alive' = alive
  BY <1>0, <1>1, <1>2, ReleaseMoves, NativeReleaseMoves
<1>6. OwnEffect(s)
  BY <1>1, <1>2, <1>3, <1>5 DEF OwnEffect
<1> DEFINE row == IdleProcess(slot[s].pid)
<1>7. row \in SlotProcess
  BY <1>2, <1>a, SlotRows
<1>8. row.pid = slot[s].pid /\ row.pc = "idle" /\ row.token = Null
  BY DEF IdleProcess
<1>9. slot' = [slot EXCEPT ![s] = row]
  BY <1>0 DEF Return
<1> HIDE DEF row
<1>10. RowStep(s, row) /\ slot'[s] = row
  BY <1>0, <1>2, <1>5, <1>7, <1>8, <1>9 DEF RowStep, LaneInv, NativeTypeOK
<1>11. SlotSound(s)' /\ WorkerSound(s)'
  <2>1. row.pc \notin Attempting \cup Asking \cup Unrecorded \cup Recorded
    BY <1>8 DEF Attempting, Asking, Unrecorded, Recorded, Leaving
  <2>2. row.pc \notin {"recorded", "running", "clearing", "concluding"}
    BY <1>8
  <2> QED
    BY <1>0, <1>1, <1>2, <1>5, <1>8, <1>10, <2>1, <2>2 DEF SlotSound, WorkerSound
<1>12. row.token \in {slot[s].token, Null, minted'} /\ row.token # minted'
  BY <1>2, <1>5, <1>8, NullAssumption DEF TypeOK, Moves, Quiet
<1> QED
  BY <1>2, <1>4, <1>6, <1>10, <1>11, <1>12, RowStepInv DEF LaneGood

\* The guard gets its permit.
LEMMA AcquireStep ==
    ASSUME LaneInv, NEW s \in Slots, GuardAcquires(s)
    PROVE  LaneGood
<1>1. PICK h, p, g : h = slot[s].holder /\ p = slot[s].pid /\ g = slot[s].gen
  OBVIOUS
<1> DEFINE row == [slot[s] EXCEPT !.pc = "owned", !.token = minted', !.gen = 0]
<1>a. /\ "admitting" \in Asking /\ "owned" \in Pcs /\ "owned" \in Attempting /\ "owned" \in Unrecorded
      /\ "admitting" \notin Leaving \cup {"idle"} /\ "owned" \notin Recorded
  BY DEF Asking, Pcs, Attempting, Unrecorded, Recorded, Leaving
<1>2. /\ At(s, "admitting")
      /\ \/ AcquireAttempt(h, "native", "acquiring", g, p)
         \/ AdoptForRedelivery(h, "native", "acquiring", g, p)
      /\ slot' = [slot EXCEPT ![s].pc = "owned", ![s].token = minted', ![s].gen = 0]
      /\ UNCHANGED <<worker, marker, containers, service, daemon, recovery>>
  BY <1>1 DEF GuardAcquires
<1>3. /\ slot[s] # Null /\ slot[s] \in SlotProcess /\ p \in alive /\ p \in Pids /\ TypeOK
      /\ h \in Holders /\ worker[s] = Null /\ now >= 1 /\ slot[s].pc = "admitting"
      /\ slot \in [Slots -> SlotProcess \cup {Null}]
      /\ service \in [Holders -> {"queued", "assigned", "gone"}]
  BY <1>1, <1>2, <1>a, AtPlace DEF LaneInv, TypeOK
<1>4. LedgerNext
  BY <1>2, <1>3, GuardCallsLedger
<1>5. Takes(h, p) /\ alive' = alive
  BY <1>2, <1>3, GuardTakes
<1>6. OwnEffect(s)
  BY <1>1, <1>3, <1>5 DEF OwnEffect
<1>7. minted \in Nat /\ minted' = minted + 1 /\ minted' \in Token /\ 0 \in Nat
  BY <1>3, <1>5 DEF Takes, TypeOK, Token
<1>8. row \in SlotProcess
  BY <1>3, <1>7, <1>a, SlotRows
<1>9. /\ row.pid = p /\ row.pc = "owned" /\ row.token = minted' /\ row.holder = h
  BY <1>1, <1>3, <1>7, <1>8 DEF SlotProcess
<1>10. slot' = [slot EXCEPT ![s] = row]
  BY <1>2, <1>3
<1> HIDE DEF row
<1>11. RowStep(s, row) /\ slot'[s] = row
  BY <1>1, <1>2, <1>3, <1>5, <1>8, <1>9, <1>10 DEF RowStep
<1>12. marker[s] = Null
  BY <1>3, <1>a DEF LaneInv, SlotSound
<1>13. SlotSound(s)' /\ WorkerSound(s)'
  <2>1. PICK u : u = minted'
    OBVIOUS
  <2>2. u \in 1..minted' /\ row.token = u
    BY <1>7, <1>9, <2>1
  <2>3. BelongsTo(h, u, p)'
    BY <1>5 DEF BelongsTo, Takes
  <2>4. row.pc \notin {"idle", "recorded", "running", "clearing", "concluding"}
    BY <1>9
  <2>5. row.pid = p /\ row.pc = "owned" /\ row.holder = h /\ slot'[s] = row /\ alive' = alive
    BY <1>5, <1>9, <1>11
  <2>6. marker'[s] = Null /\ worker'[s] = Null
    BY <1>2, <1>3, <1>12
  <2>7. SlotSound(s)'
    BY <1>3, <1>a, <2>2, <2>3, <2>4, <2>5, <2>6 DEF SlotSound
  <2>8. WorkerSound(s)'
    BY <2>6 DEF WorkerSound
  <2> QED
    BY <2>7, <2>8
<1> QED
  BY <1>3, <1>4, <1>6, <1>7, <1>9, <1>11, <1>13, RowStepInv DEF LaneGood

\* The permit goes before the marker.
LEMMA ConcludeStep ==
    ASSUME LaneInv, NEW s \in Slots, ReleaseForMarker(s)
    PROVE  LaneGood
<1>1. PICK h, t, p : h = slot[s].holder /\ t = slot[s].token /\ p = slot[s].pid
  OBVIOUS
<1> DEFINE row == [slot[s] EXCEPT !.pc = "clearing"]
<1>a. /\ "concluding" \in Attempting /\ "clearing" \in Pcs /\ "clearing" \in Attempting
      /\ "concluding" \notin Leaving \cup {"idle"} /\ "clearing" \in Recorded
      /\ "concluding" \in Recorded /\ "clearing" \notin Asking \cup Unrecorded
  BY DEF Asking, Pcs, Attempting, Unrecorded, Recorded, Leaving
<1>2. /\ At(s, "concluding") /\ ReleaseNativeOwned(h, t, "terminal")
      /\ slot' = [slot EXCEPT ![s].pc = "clearing"]
      /\ UNCHANGED <<worker, marker, containers, service, daemon, recovery>>
  BY <1>1 DEF ReleaseForMarker, Goto
<1>3. /\ slot[s] # Null /\ slot[s] \in SlotProcess /\ p \in alive /\ TypeOK
      /\ h \in Holders /\ t \in 1..minted /\ worker[s] = Null /\ slot[s].pc = "concluding"
      /\ slot \in [Slots -> SlotProcess \cup {Null}]
      /\ service \in [Holders -> {"queued", "assigned", "gone"}]
  BY <1>1, <1>2, <1>a, AtPlace DEF LaneInv
<1>4. t \in Names(s)
  BY <1>1, <1>3, NullAssumption DEF Names, TypeOK
<1>5. LedgerNext
  <2>1. "terminal" \in ClosedStates
    BY DEF ClosedStates
  <2> QED
    BY <1>2, <1>3, <2>1, OwnerCallsLedger
<1>6. (Moves(h, t, p) \/ Quiet) /\ alive' = alive /\ ~Owns(h, t)'
  BY <1>2, <1>3, NativeReleaseMoves
<1>7. OwnEffect(s) /\ minted' = minted
  BY <1>1, <1>3, <1>4, <1>6 DEF OwnEffect, Moves, Quiet
<1>8. row \in SlotProcess
  BY <1>3, <1>a, SlotRows
<1>9. row.pid = p /\ row.pc = "clearing" /\ row.token = t /\ row.holder = h
  BY <1>1, <1>3, <1>8 DEF SlotProcess
<1>10. slot' = [slot EXCEPT ![s] = row]
  BY <1>2, <1>3
<1> HIDE DEF row
<1>11. RowStep(s, row) /\ slot'[s] = row
  BY <1>1, <1>2, <1>3, <1>6, <1>8, <1>9, <1>10 DEF RowStep
<1>12. marker[s] = [holder |-> h, token |-> t] /\ Bare(s)
  BY <1>1, <1>3, <1>a DEF LaneInv, SlotSound
<1>13. SlotSound(s)' /\ WorkerSound(s)'
  <2>1. BelongsTo(h, t, p)' /\ Bare(s)'
    BY <1>2, <1>6, <1>12 DEF BelongsTo, Bare
  <2> QED
    BY <1>2, <1>3, <1>6, <1>7, <1>9, <1>11, <1>12, <1>a, <2>1 DEF SlotSound, WorkerSound
<1> QED
  BY <1>1, <1>3, <1>5, <1>7, <1>9, <1>11, <1>13, RowStepInv DEF LaneGood

-----------------------------------------------------------------------------
(* The steps that write the marker, the containers or the thread *)

\* A step of slot s that writes its process, thread, marker and containers
LocalStep(s, row, w, m) ==
    /\ slot' = [slot EXCEPT ![s] = row] /\ row \in SlotProcess /\ row.pid = slot[s].pid
    /\ worker' = [worker EXCEPT ![s] = w] /\ w \in Worker \cup {Null}
    /\ marker' = [marker EXCEPT ![s] = m] /\ m \in Marker \cup {Null}
    /\ containers' \in SUBSET (Holders \X Slots)
    /\ \A h \in Holders, r \in Slots \ {s} : <<h, r>> \in containers' <=> <<h, r>> \in containers
    /\ service' \in [Holders -> {"queued", "assigned", "gone"}]
    /\ UNCHANGED <<alive, daemon, recovery>>
    /\ row.token \in {slot[s].token, Null}
    /\ \/ m \in {marker[s], Null}
       \/ m \in Marker /\ m.token = slot[s].token

LEMMA LocalStepInv ==
    ASSUME LaneInv, NEW s \in Slots, slot[s] # Null, NEW row, NEW w, NEW m,
           LocalStep(s, row, w, m), [LedgerNext]_ledgerVars, OwnEffect(s),
           SlotSound(s)', WorkerSound(s)', MarkerSound(s)'
    PROVE  LaneGood
<1>1. NativeTypeOK
  BY DEF LaneInv
<1>2. /\ slot' \in [Slots -> SlotProcess \cup {Null}] /\ worker' \in [Slots -> Worker \cup {Null}]
      /\ marker' \in [Slots -> Marker \cup {Null}]
      /\ slot'[s] = row /\ worker'[s] = w /\ marker'[s] = m
      /\ \A r \in Slots \ {s} :
            slot'[r] = slot[r] /\ worker'[r] = worker[r] /\ marker'[r] = marker[r]
  BY <1>1 DEF LocalStep, NativeTypeOK
<1>3. NativeTypeOK'
  BY <1>1, <1>2 DEF LocalStep, NativeTypeOK
<1>4. Names(s)' \subseteq Names(s)
  BY <1>2 DEF Names, LocalStep
<1>5. SlotStep(s)
  BY <1>2, <1>4, AbsentAssumption DEF SlotStep, LocalStep
<1> QED
  BY <1>3, <1>5, SlotStepInv DEF LaneGood

LEMMA PersistStep ==
    ASSUME LaneInv, NEW s \in Slots, PersistMarker(s)
    PROVE  LaneGood
<1>1. PICK h, t, p : h = slot[s].holder /\ t = slot[s].token /\ p = slot[s].pid
  OBVIOUS
<1> DEFINE row == [slot[s] EXCEPT !.pc = "recorded"]
           m == [holder |-> h, token |-> t]
<1>a. /\ "acquired" \in Attempting /\ "acquired" \in Unrecorded /\ "recorded" \in Pcs
      /\ "recorded" \in Attempting /\ "acquired" \notin Leaving \cup {"idle"}
      /\ "recorded" \in Recorded /\ "recorded" \notin Asking \cup Unrecorded
  BY DEF Asking, Pcs, Attempting, Unrecorded, Recorded, Leaving
<1>2. /\ At(s, "acquired") /\ Owns(h, t)
      /\ slot' = [slot EXCEPT ![s].pc = "recorded"] /\ marker' = [marker EXCEPT ![s] = m]
      /\ UNCHANGED <<ledgerVars, worker, containers, service, daemon, recovery>>
  BY <1>1 DEF PersistMarker, Goto
<1>3. /\ slot[s] # Null /\ slot[s] \in SlotProcess /\ p \in alive /\ minted \in Nat
      /\ h \in Holders /\ t \in 1..minted /\ worker[s] = Null /\ slot[s].pc = "acquired"
      /\ NativeTypeOK
  BY <1>1, <1>2, <1>a, AtPlace DEF LaneInv, TypeOK
<1>4. Calm(s) /\ permits' = permits /\ minted' = minted /\ alive' = alive
  BY <1>2, LedgerAtRest DEF ledgerVars, env
<1>5. row \in SlotProcess
  BY <1>3, <1>a, SlotRows
<1>6. row.pid = p /\ row.pc = "recorded" /\ row.token = t /\ row.holder = h
  BY <1>1, <1>3, <1>5 DEF SlotProcess
<1>7. m \in Marker /\ m.token = t /\ m.holder = h
  BY <1>3 DEF Marker, Token
<1>8. slot' = [slot EXCEPT ![s] = row] /\ worker' = [worker EXCEPT ![s] = Null]
  BY <1>2, <1>3 DEF NativeTypeOK
<1>9. marker[s] = Null /\ BelongsTo(h, t, p)
  BY <1>1, <1>3, <1>a DEF LaneInv, SlotSound
<1>10. Bare(s)
  BY <1>9 DEF LaneInv, MarkerSound, Bare
<1> HIDE DEF row
<1>11. slot'[s] = row /\ marker'[s] = m /\ worker'[s] = Null
  BY <1>2, <1>3, <1>8 DEF NativeTypeOK
<1>12. LocalStep(s, row, Null, m)
  BY <1>1, <1>2, <1>3, <1>4, <1>5, <1>6, <1>7, <1>8 DEF LocalStep, NativeTypeOK
<1>13. BelongsTo(h, t, p)' /\ Owns(h, t)' /\ Bare(s)'
  BY <1>2, <1>4, <1>9, <1>10 DEF BelongsTo, Owns, Held, Bare
<1>14. SlotSound(s)'
  BY <1>3, <1>4, <1>6, <1>11, <1>13, <1>a DEF SlotSound
<1>15. WorkerSound(s)' /\ MarkerSound(s)'
  BY <1>3, <1>4, <1>7, <1>11, <1>13 DEF WorkerSound, MarkerSound, Bare
<1> QED
  BY <1>3, <1>4, <1>12, <1>14, <1>15, LocalStepInv DEF Calm

LEMMA ContainerStep ==
    ASSUME LaneInv, NEW s \in Slots, CreateContainers(s)
    PROVE  LaneGood
<1>a. /\ "running" \in Attempting /\ "running" \notin Leaving \cup {"idle"}
      /\ "running" \in Recorded /\ "running" \notin Asking \cup Unrecorded
  BY DEF Asking, Pcs, Attempting, Unrecorded, Recorded, Leaving
<1>1. /\ At(s, "running") /\ containers' = containers \cup {<<slot[s].holder, s>>}
      /\ UNCHANGED <<ledgerVars, slot, worker, marker, service, daemon, recovery>>
  BY DEF CreateContainers
<1>2. /\ slot[s] # Null /\ slot[s] \in SlotProcess /\ slot[s].holder \in Holders
      /\ slot[s].pc = "running" /\ worker[s] = Null /\ NativeTypeOK
  BY <1>1, <1>a, AtPlace DEF LaneInv
<1>3. Calm(s) /\ permits' = permits /\ minted' = minted /\ alive' = alive
  BY <1>1, LedgerAtRest DEF ledgerVars, env
<1>4. LocalStep(s, slot[s], worker[s], marker[s])
  BY <1>1, <1>2, <1>3 DEF LocalStep, NativeTypeOK
<1>5. SlotSound(s) /\ marker[s] = [holder |-> slot[s].holder, token |-> slot[s].token]
  BY <1>2, <1>a DEF LaneInv, SlotSound
<1>6. SlotSound(s)'
  BY <1>1, <1>2, <1>3, <1>5, <1>a DEF SlotSound, BelongsTo, Owns, Held
<1>7. WorkerSound(s)' /\ MarkerSound(s)'
  <2>1. marker[s] \in Marker \cup {Null} /\ MarkerSound(s)
    BY <1>2 DEF NativeTypeOK, LaneInv
  <2>2. marker[s] # Null /\ marker[s].holder = slot[s].holder
    <3>1. slot[s].token \in Token
      BY <1>1, <1>a, AtPlace DEF LaneInv, TypeOK, Token
    <3>2. [holder |-> slot[s].holder, token |-> slot[s].token] \in Marker
      BY <1>2, <3>1 DEF Marker
    <3> QED
      BY <1>5, <3>2, AbsentAssumption
  <2> QED
    BY <1>1, <1>2, <1>3, <2>1, <2>2 DEF WorkerSound, MarkerSound
<1> QED
  BY <1>2, <1>3, <1>4, <1>6, <1>7, LocalStepInv DEF Calm

LEMMA ClearStep ==
    ASSUME LaneInv, NEW s \in Slots, ClearMarker(s)
    PROVE  /\ LaneGood
           /\ marker[s] = [holder |-> slot[s].holder, token |-> slot[s].token]
           /\ ~Owns(slot[s].holder, slot[s].token) /\ Bare(s)
<1> DEFINE row == IdleProcess(slot[s].pid)
<1>a. /\ "clearing" \in Attempting /\ "clearing" \notin Leaving \cup {"idle"}
      /\ "clearing" \in Recorded /\ "clearing" \in Pcs
  BY DEF Asking, Pcs, Attempting, Unrecorded, Recorded, Leaving
<1>1. /\ At(s, "clearing") /\ slot' = [slot EXCEPT ![s] = row]
      /\ marker' = [marker EXCEPT ![s] =
             IF @ = [holder |-> slot[s].holder, token |-> slot[s].token] THEN Null ELSE @]
      /\ UNCHANGED <<ledgerVars, worker, containers, service, daemon, recovery>>
  BY DEF ClearMarker, ClearIfSameAttempt, Return
<1>2. /\ slot[s] # Null /\ slot[s] \in SlotProcess /\ slot[s].pc = "clearing"
      /\ slot[s].pid \in alive /\ worker[s] = Null /\ NativeTypeOK
  BY <1>1, <1>a, AtPlace DEF LaneInv
<1>3. Calm(s) /\ permits' = permits /\ minted' = minted /\ alive' = alive
  BY <1>1, LedgerAtRest DEF ledgerVars, env
<1>4. /\ marker[s] = [holder |-> slot[s].holder, token |-> slot[s].token]
      /\ ~Owns(slot[s].holder, slot[s].token) /\ Bare(s)
  BY <1>2, <1>a DEF LaneInv, SlotSound
<1>5. marker' = [marker EXCEPT ![s] = Null] /\ marker'[s] = Null
  BY <1>1, <1>2, <1>4 DEF NativeTypeOK
<1>6. row \in SlotProcess
  BY <1>2, <1>a, SlotRows
<1>7. row.pid = slot[s].pid /\ row.pc = "idle" /\ row.token = Null
  BY DEF IdleProcess
<1> HIDE DEF row
<1>8. LocalStep(s, row, worker[s], Null) /\ slot'[s] = row
  BY <1>1, <1>2, <1>3, <1>5, <1>6, <1>7 DEF LocalStep, NativeTypeOK
<1>9. row.pc \notin Attempting \cup Asking \cup Unrecorded \cup Recorded
                    \cup {"recorded", "running", "clearing", "concluding"}
  BY <1>7 DEF Attempting, Asking, Unrecorded, Recorded, Leaving
<1>10. SlotSound(s)'
  BY <1>2, <1>3, <1>7, <1>8, <1>9 DEF SlotSound
<1>11. WorkerSound(s)' /\ MarkerSound(s)'
  BY <1>1, <1>2, <1>4, <1>5 DEF WorkerSound, MarkerSound, Bare
<1>12. LaneGood
  BY <1>2, <1>3, <1>8, <1>10, <1>11, LocalStepInv DEF Calm
<1> QED
  BY <1>4, <1>12

\* What is on record while a job runs
LEMMA RunningKnows ==
    ASSUME LaneInv, NEW s \in Slots, At(s, "running")
    PROVE  /\ slot[s] # Null /\ slot[s] \in SlotProcess /\ slot[s].pc = "running"
           /\ slot[s].pid \in alive /\ slot[s].holder \in Holders
           /\ slot[s].token \in 1..minted /\ slot[s].token \in Token
           /\ worker[s] = Null
           /\ marker[s] = [holder |-> slot[s].holder, token |-> slot[s].token]
           /\ marker[s] \in Marker /\ marker[s].holder = slot[s].holder
           /\ Owns(slot[s].holder, slot[s].token)
           /\ BelongsTo(slot[s].holder, slot[s].token, slot[s].pid)
           /\ ~HasTeardown(s) => Bare(s)
<1>a. /\ "running" \in Attempting /\ "running" \notin Leaving \cup {"idle"}
      /\ "running" \in Recorded
  BY DEF Attempting, Unrecorded, Recorded, Leaving
<1>1. /\ slot[s] # Null /\ slot[s] \in SlotProcess /\ slot[s].pc = "running"
      /\ slot[s].pid \in alive /\ slot[s].holder \in Holders
      /\ slot[s].token \in 1..minted /\ worker[s] = Null
  BY <1>a, AtPlace
<1>2. minted \in Nat
  BY DEF LaneInv, TypeOK
<1>3. slot[s].token \in Token
  BY <1>1, <1>2 DEF Token
<1>4. /\ marker[s] = [holder |-> slot[s].holder, token |-> slot[s].token]
      /\ Owns(slot[s].holder, slot[s].token)
      /\ BelongsTo(slot[s].holder, slot[s].token, slot[s].pid)
  BY <1>1, <1>a DEF LaneInv, SlotSound
<1>5. marker[s] \in Marker /\ marker[s].holder = slot[s].holder
  BY <1>1, <1>3, <1>4 DEF Marker
<1>6. ~HasTeardown(s) => Bare(s)
  BY <1>5 DEF LaneInv, MarkerSound, Bare, HasTeardown
<1> QED
  BY <1>1, <1>3, <1>4, <1>5, <1>6

\* The job is over and its containers go to the teardown thread.
LEMMA TeardownBegins ==
    ASSUME LaneInv, NEW s \in Slots, At(s, "running"), Calm(s), NEW acked \in BOOLEAN,
           StartTeardown(s, acked), NEW new \in {"joining", "unacked"}, Goto(s, new),
           service' \in [Holders -> {"queued", "assigned", "gone"}],
           UNCHANGED <<marker, containers, daemon, recovery>>
    PROVE  LaneGood
<1>1. PICK h, t, p : h = slot[s].holder /\ t = slot[s].token /\ p = slot[s].pid
  OBVIOUS
<1> DEFINE row == [slot[s] EXCEPT !.pc = new]
           w == [holder |-> h, token |-> t, acked |-> acked, step |-> "tearing"]
<1>a. /\ new \in Attempting /\ new \in Leaving /\ new \in Pcs
      /\ new \notin Asking \cup Unrecorded \cup Recorded
      /\ new \notin {"idle", "recorded", "running", "clearing", "concluding"}
  BY DEF Asking, Pcs, Attempting, Unrecorded, Recorded, Leaving
<1>2. /\ slot[s] # Null /\ slot[s] \in SlotProcess /\ p \in alive /\ h \in Holders
      /\ t \in 1..minted /\ t \in Token /\ Owns(h, t) /\ BelongsTo(h, t, p)
      /\ marker[s] = [holder |-> h, token |-> t]
  BY <1>1, RunningKnows
<1>3. NativeTypeOK /\ MarkerSound(s) /\ minted' = minted /\ alive' = alive /\ Tame(p)
  BY <1>1 DEF LaneInv, Calm
<1>4. row \in SlotProcess
  BY <1>2, <1>a, SlotRows
<1>5. row.pid = p /\ row.pc = new /\ row.token = t /\ row.holder = h
  BY <1>1, <1>2, <1>4 DEF SlotProcess
<1>6. w \in Worker /\ w.holder = h /\ w.token = t /\ w.step = "tearing"
  BY <1>2 DEF Worker
<1>7. /\ slot' = [slot EXCEPT ![s] = row] /\ worker' = [worker EXCEPT ![s] = w]
      /\ marker' = [marker EXCEPT ![s] = marker[s]]
  BY <1>1, <1>3 DEF Goto, StartTeardown, NativeTypeOK
<1> HIDE DEF row, w
<1>8. slot'[s] = row /\ worker'[s] = w /\ row # Null /\ w # Null
  BY <1>3, <1>4, <1>6, <1>7, AbsentAssumption DEF NativeTypeOK
<1>9. LocalStep(s, row, w, marker[s])
  BY <1>1, <1>3, <1>4, <1>5, <1>6, <1>7 DEF LocalStep, NativeTypeOK
<1>10. Owns(h, t)' /\ BelongsTo(h, t, p)'
  BY <1>2, <1>3, TameKeeps
<1>11. SlotSound(s)'
  BY <1>2, <1>3, <1>5, <1>8, <1>10, <1>a DEF SlotSound
<1>12. WorkerSound(s)'
  <2>1. w.step \notin {"clearing", "finalizing"}
    BY <1>6
  <2> QED
    BY <1>2, <1>5, <1>6, <1>8, <1>10, <1>a, <2>1 DEF WorkerSound
<1>13. MarkerSound(s)'
  BY <1>3 DEF MarkerSound
<1> QED
  BY <1>2, <1>9, <1>11, <1>12, <1>13, LocalStepInv DEF Calm

\* The job is over and left no containers.
LEMMA CleanEnd ==
    ASSUME LaneInv, NEW s \in Slots, At(s, "running"), Calm(s), ~HasTeardown(s),
           Goto(s, "concluding"),
           service' \in [Holders -> {"queued", "assigned", "gone"}],
           UNCHANGED <<worker, marker, containers, daemon, recovery>>
    PROVE  LaneGood
<1>1. PICK h, t, p : h = slot[s].holder /\ t = slot[s].token /\ p = slot[s].pid
  OBVIOUS
<1> DEFINE row == [slot[s] EXCEPT !.pc = "concluding"]
<1>a. /\ "concluding" \in Attempting /\ "concluding" \in Recorded /\ "concluding" \in Pcs
      /\ "concluding" \notin Asking \cup Unrecorded
  BY DEF Asking, Pcs, Attempting, Unrecorded, Recorded, Leaving
<1>2. /\ slot[s] # Null /\ slot[s] \in SlotProcess /\ p \in alive /\ h \in Holders
      /\ t \in 1..minted /\ BelongsTo(h, t, p) /\ worker[s] = Null
      /\ marker[s] = [holder |-> h, token |-> t] /\ Bare(s)
  BY <1>1, RunningKnows
<1>3. NativeTypeOK /\ minted' = minted /\ alive' = alive /\ Tame(p) /\ minted \in Nat
  BY <1>1 DEF LaneInv, Calm, TypeOK
<1>4. row \in SlotProcess
  BY <1>2, <1>a, SlotRows
<1>5. row.pid = p /\ row.pc = "concluding" /\ row.token = t /\ row.holder = h
  BY <1>1, <1>2, <1>4 DEF SlotProcess
<1>6. slot' = [slot EXCEPT ![s] = row]
  BY <1>3 DEF Goto, NativeTypeOK
<1> HIDE DEF row
<1>7. RowStep(s, row) /\ slot'[s] = row
  BY <1>1, <1>3, <1>4, <1>5, <1>6 DEF RowStep, NativeTypeOK
<1>8. BelongsTo(h, t, p)' /\ Bare(s)'
  <2>1. BelongsTo(h, t, p)'
    BY <1>2, <1>3, TameKeeps
  <2> QED
    BY <1>2, <2>1 DEF Bare
<1>9. SlotSound(s)' /\ WorkerSound(s)'
  BY <1>2, <1>3, <1>5, <1>7, <1>8, <1>a DEF SlotSound, WorkerSound
<1>10. row.token \in {slot[s].token, Null, minted'} /\ row.token = slot[s].token
  BY <1>1, <1>5
<1> QED
  BY <1>2, <1>7, <1>9, <1>10, RowStepInv DEF Calm, LaneGood

LEMMA CompletionSteps ==
    ASSUME LaneInv, NEW s \in Slots, CompletionAcked(s) \/ CompletionUnacked(s)
    PROVE  LaneGood
<1>1. /\ At(s, "running") /\ UNCHANGED <<marker, containers, daemon, recovery>>
      /\ service' \in [Holders -> {"queued", "assigned", "gone"}]
  BY DEF CompletionAcked, CompletionUnacked, LaneInv, NativeTypeOK
<1>2. slot[s] # Null /\ slot[s].pc \in Attempting
  BY <1>1, RunningKnows DEF Attempting, Recorded
<1>3. Spell(s, "cleaning") => Calm(s)
  BY <1>2, LedgerAtRest, OwnRewriteIsCalm DEF Spell
<1>4. CASE \E acked \in BOOLEAN, new \in {"joining", "unacked"} :
              Spell(s, "cleaning") /\ StartTeardown(s, acked) /\ Goto(s, new)
  BY <1>1, <1>3, <1>4, TeardownBegins
<1>5. CASE ~HasTeardown(s) /\ Goto(s, "concluding") /\ UNCHANGED <<ledgerVars, worker>>
  BY <1>1, <1>5, LedgerAtRest, CleanEnd
<1>6. CASE ~HasTeardown(s) /\ DropRetaining(s) /\ UNCHANGED <<ledgerVars, worker>>
  <2>1. generation \in Nat /\ slot \in [Slots -> SlotProcess \cup {Null}]
    BY DEF LaneInv, TypeOK, NativeTypeOK
  <2>2. slot' = [slot EXCEPT ![s] = [slot[s] EXCEPT !.pc = "dropping", !.gen = generation]]
    BY <1>6, <2>1 DEF DropRetaining
  <2>3. /\ "running" \in Attempting /\ "dropping" \in Attempting
        /\ "dropping" \notin Unrecorded \cup Recorded /\ "running" \notin Leaving
    BY DEF Attempting, Unrecorded, Recorded, Leaving
  <2>4. Calm(s)
    BY <1>6, LedgerAtRest
  <2> QED
    BY <1>1, <1>6, <2>1, <2>2, <2>3, <2>4, AttemptInv
<1> QED
  BY <1>4, <1>5, <1>6 DEF CompletionAcked, CompletionUnacked

-----------------------------------------------------------------------------
(* The steps of the teardown thread *)

\* What a process has under its name stays under its name when it makes a call.
LEMMA MovesKeep ==
    ASSUME NEW p, NEW h \in Holders, NEW t, Moves(h, t, p) \/ Quiet,
           NEW k \in Holders, NEW u, BelongsTo(k, u, p)
    PROVE  BelongsTo(k, u, p)'
<1>1. CASE Quiet
  BY <1>1 DEF Quiet, BelongsTo, Owns
<1>2. CASE Moves(h, t, p) /\ k # h
  BY <1>2 DEF Moves, BelongsTo, Owns, Held
<1>3. CASE Moves(h, t, p) /\ k = h
  BY <1>3 DEF Moves, BelongsTo, Owns
<1> QED
  BY <1>1, <1>2, <1>3

\* What the thread has by it
LEMMA ThreadKnows ==
    ASSUME LaneInv, NEW s \in Slots, worker[s] # Null
    PROVE  /\ worker[s] \in Worker /\ worker[s].holder \in Holders
           /\ worker[s].token \in 1..minted /\ worker[s].token \in Names(s)
           /\ slot[s] # Null /\ slot[s] \in SlotProcess
           /\ slot[s].pid \in alive /\ slot[s].pid \in Pids
           /\ slot[s].pc \in Leaving \cup {"idle"}
           /\ slot[s].pc \notin Asking \cup Unrecorded \cup Recorded
           /\ slot[s].pc \notin {"recorded", "running", "concluding", "clearing"}
           /\ marker[s] = [holder |-> worker[s].holder, token |-> worker[s].token]
           /\ marker[s] \in Marker /\ marker[s].holder = worker[s].holder
           /\ BelongsTo(worker[s].holder, worker[s].token, slot[s].pid)
<1>1. /\ NativeTypeOK /\ WorkerSound(s) /\ MarkerSound(s) /\ SlotSound(s)
      /\ TypeOK
  BY DEF LaneInv
<1>2. worker[s] \in Worker /\ worker[s].holder \in Holders /\ worker[s].token \in Token
  BY <1>1 DEF NativeTypeOK, Worker
<1>3. /\ slot[s] # Null /\ slot[s].pc \in Leaving \cup {"idle"}
      /\ marker[s] = [holder |-> worker[s].holder, token |-> worker[s].token]
      /\ BelongsTo(worker[s].holder, worker[s].token, slot[s].pid)
  BY <1>1 DEF WorkerSound
<1>4. slot[s] \in SlotProcess /\ slot[s].pid \in alive
  BY <1>1, <1>3 DEF NativeTypeOK, SlotSound
<1>5. slot[s].pid \in Pids
  BY <1>4 DEF SlotProcess
<1>6. /\ marker[s] \in Marker /\ marker[s].holder = worker[s].holder
      /\ marker[s].token = worker[s].token
  BY <1>2, <1>3 DEF Marker
<1>7. marker[s] # Null /\ worker[s].token # Null
  BY <1>2, <1>6, AbsentAssumption, NullAssumption DEF Token
<1>8. worker[s].token \in Names(s)
  BY <1>6, <1>7 DEF Names
<1>9. worker[s].token \in 1..minted
  BY <1>8, NamesAreMinted
<1>10. /\ slot[s].pc \notin Asking \cup Unrecorded \cup Recorded
       /\ slot[s].pc \notin {"recorded", "running", "concluding", "clearing"}
  BY <1>3 DEF Asking, Unrecorded, Recorded, Leaving
<1> QED
  BY <1>2, <1>3, <1>4, <1>5, <1>6, <1>8, <1>9, <1>10

\* A process whose thread makes a call keeps what it relies on.
LEMMA ThreadLeavesSlot ==
    ASSUME LaneInv, NEW s \in Slots, worker[s] # Null, NEW h \in Holders, NEW t,
           Moves(h, t, slot[s].pid) \/ Quiet, alive' = alive, slot' = slot
    PROVE  SlotSound(s)'
<1>1. PICK row : row = slot[s]
  OBVIOUS
<1>2. /\ row # Null /\ row.pid \in alive
      /\ row.pc \notin Asking \cup Unrecorded \cup Recorded
      /\ row.pc \notin {"recorded", "running", "concluding", "clearing"}
  BY <1>1, ThreadKnows
<1>3. /\ row.pc # "idle" => row.holder \in Holders
      /\ row.pc \in Attempting => row.token \in 1..minted /\ BelongsTo(row.holder, row.token, row.pid)
      /\ row.pc \notin Attempting => row.token = Null
  BY <1>1, <1>2 DEF LaneInv, SlotSound
<1>4. row.pc \in Attempting => row.pc # "idle"
  BY DEF Attempting, Unrecorded, Recorded, Leaving
<1>5. minted' = minted
  BY DEF Moves, Quiet
<1>6. row.pc \in Attempting => BelongsTo(row.holder, row.token, row.pid)'
  BY <1>1, <1>3, <1>4, MovesKeep
<1>7. slot'[s] = row
  BY <1>1
<1> QED
  BY <1>2, <1>3, <1>5, <1>6, <1>7 DEF SlotSound

LEMMA TearDownStep ==
    ASSUME LaneInv, NEW s \in Slots, WorkerTearsDown(s)
    PROVE  LaneGood
<1>1. PICK h, t, p : h = worker[s].holder /\ t = worker[s].token /\ p = slot[s].pid
  OBVIOUS
<1> DEFINE w == [worker[s] EXCEPT !.step = "finalizing"]
<1>2. /\ worker[s] # Null /\ worker[s].step = "tearing"
      /\ containers' = containers \ {<<h, s>>}
      /\ worker' = [worker EXCEPT ![s].step = "finalizing"]
      /\ UNCHANGED <<ledgerVars, slot, marker, service, daemon, recovery>>
  BY <1>1 DEF WorkerTearsDown, WorkerAt
<1>3. /\ worker[s] \in Worker /\ h \in Holders /\ slot[s] # Null /\ slot[s] \in SlotProcess
      /\ slot[s].pc \in Leaving \cup {"idle"} /\ BelongsTo(h, t, p)
      /\ marker[s] = [holder |-> h, token |-> t] /\ marker[s].holder = h
  BY <1>1, <1>2, ThreadKnows
<1>4. Calm(s) /\ permits' = permits /\ minted' = minted /\ alive' = alive
  BY <1>2, LedgerAtRest DEF ledgerVars, env
<1>5. NativeTypeOK /\ MarkerSound(s) /\ Owns(h, t)
  BY <1>1, <1>2 DEF LaneInv, WorkerSound
<1>6. w \in Worker /\ w.holder = h /\ w.token = t /\ w.step = "finalizing"
  BY <1>1, <1>3 DEF Worker
<1>7. worker' = [worker EXCEPT ![s] = w]
  BY <1>2, <1>5 DEF NativeTypeOK
<1> HIDE DEF w
<1>8. worker'[s] = w /\ w # Null
  BY <1>5, <1>6, <1>7, AbsentAssumption DEF NativeTypeOK
<1>9. LocalStep(s, slot[s], w, marker[s])
  BY <1>2, <1>3, <1>4, <1>5, <1>6, <1>7 DEF LocalStep, NativeTypeOK
<1>10. Bare(s)'
  BY <1>2, <1>3, <1>5 DEF Bare, MarkerSound
<1>11. SlotSound(s)'
  BY <1>2, <1>3, <1>4, SameIsQuiet, ThreadLeavesSlot
<1>12. Owns(h, t)' /\ BelongsTo(h, t, p)'
  BY <1>3, <1>4, <1>5 DEF Owns, Held, BelongsTo
<1>13. slot'[s] = slot[s] /\ marker'[s] = marker[s] /\ slot'[s].pid = p
  BY <1>1, <1>2
<1>14. WorkerSound(s)'
  <2>1. w.step # "clearing"
    BY <1>6
  <2> QED
    BY <1>3, <1>6, <1>8, <1>10, <1>12, <1>13, <2>1 DEF WorkerSound
<1>15. MarkerSound(s)'
  BY <1>2, <1>4, <1>5 DEF MarkerSound
<1> QED
  BY <1>3, <1>4, <1>9, <1>11, <1>14, <1>15, LocalStepInv DEF Calm

LEMMA FinalizeStep ==
    ASSUME LaneInv, NEW s \in Slots, WorkerFinalizes(s)
    PROVE  LaneGood
<1>1. PICK h, t, p : h = worker[s].holder /\ t = worker[s].token /\ p = slot[s].pid
  OBVIOUS
<1> DEFINE w == [worker[s] EXCEPT !.step = "clearing"]
<1>2. /\ worker[s] # Null /\ worker[s].step = "finalizing"
      /\ UNCHANGED <<slot, marker, containers, service, daemon, recovery>>
      /\ \/ /\ ReleaseNativeOwned(h, t, "terminal")
            /\ worker' = [worker EXCEPT ![s].step = "clearing"]
         \/ /\ RetainUncertainAfterCleanup(h, t, p)
            /\ worker' = [worker EXCEPT ![s] = Null]
  BY <1>1 DEF WorkerFinalizes, WorkerAt
<1>3. /\ worker[s] \in Worker /\ h \in Holders /\ slot[s] # Null /\ slot[s] \in SlotProcess
      /\ slot[s].pc \in Leaving \cup {"idle"} /\ BelongsTo(h, t, p)
      /\ marker[s] = [holder |-> h, token |-> t] /\ p \in alive /\ p \in Pids
      /\ t \in 1..minted /\ t \in Names(s)
  BY <1>1, <1>2, ThreadKnows
<1>4. NativeTypeOK /\ MarkerSound(s) /\ TypeOK /\ Bare(s)
  BY <1>1, <1>2 DEF LaneInv, WorkerSound
<1>5. LedgerNext
  <2>1. "terminal" \in ClosedStates
    BY DEF ClosedStates
  <2> QED
    BY <1>2, <1>3, <1>4, <2>1, OwnerCallsLedger
<1>6. /\ Moves(h, t, p) \/ Quiet
      /\ alive' = alive
      /\ ReleaseNativeOwned(h, t, "terminal") => ~Owns(h, t)'
  BY <1>2, <1>3, <1>4, NativeReleaseMoves, RewritesMove
<1>7. OwnEffect(s) /\ minted' = minted
  BY <1>1, <1>3, <1>6 DEF OwnEffect, Moves, Quiet
<1>8. SlotSound(s)'
  BY <1>1, <1>2, <1>3, <1>6, ThreadLeavesSlot
<1>9. MarkerSound(s)'
  BY <1>2, <1>4, <1>7 DEF MarkerSound
<1>10. slot'[s] = slot[s] /\ marker'[s] = marker[s] /\ slot'[s].pid = p /\ Bare(s)'
  BY <1>1, <1>2, <1>4 DEF Bare
<1>11. CASE /\ ReleaseNativeOwned(h, t, "terminal")
            /\ worker' = [worker EXCEPT ![s].step = "clearing"]
  <2>1. w \in Worker /\ w.holder = h /\ w.token = t /\ w.step = "clearing"
    BY <1>1, <1>3 DEF Worker
  <2>2. worker' = [worker EXCEPT ![s] = w]
    BY <1>4, <1>11 DEF NativeTypeOK
  <2> HIDE DEF w
  <2>3. worker'[s] = w
    BY <1>4, <2>2 DEF NativeTypeOK
  <2>4. LocalStep(s, slot[s], w, marker[s])
    BY <1>2, <1>3, <1>4, <1>6, <2>1, <2>2 DEF LocalStep, NativeTypeOK
  <2>5. ~Owns(h, t)' /\ BelongsTo(h, t, p)' /\ w.step \notin {"tearing", "finalizing"}
    BY <1>6, <1>11, <2>1 DEF BelongsTo
  <2>6. WorkerSound(s)'
    BY <1>3, <1>10, <2>1, <2>3, <2>5 DEF WorkerSound
  <2> QED
    BY <1>3, <1>5, <1>7, <1>8, <1>9, <2>4, <2>6, LocalStepInv
<1>12. CASE worker' = [worker EXCEPT ![s] = Null]
  <2>1. worker'[s] = Null
    BY <1>4, <1>12 DEF NativeTypeOK
  <2>2. LocalStep(s, slot[s], Null, marker[s])
    BY <1>2, <1>3, <1>4, <1>6, <1>12 DEF LocalStep, NativeTypeOK
  <2>3. WorkerSound(s)'
    BY <2>1 DEF WorkerSound
  <2> QED
    BY <1>3, <1>5, <1>7, <1>8, <1>9, <2>2, <2>3, LocalStepInv
<1> QED
  BY <1>2, <1>11, <1>12

LEMMA ThreadClearStep ==
    ASSUME LaneInv, NEW s \in Slots, WorkerClearsMarker(s)
    PROVE  /\ LaneGood
           /\ marker[s] = [holder |-> worker[s].holder, token |-> worker[s].token]
           /\ ~Owns(worker[s].holder, worker[s].token) /\ Bare(s)
<1>1. /\ worker[s] # Null /\ worker[s].step = "clearing"
      /\ marker' = [marker EXCEPT ![s] =
             IF @ = [holder |-> worker[s].holder, token |-> worker[s].token] THEN Null ELSE @]
      /\ worker' = [worker EXCEPT ![s] = Null]
      /\ UNCHANGED <<ledgerVars, slot, containers, service, daemon, recovery>>
  BY DEF WorkerClearsMarker, WorkerAt, ClearIfSameAttempt
<1>2. /\ marker[s] = [holder |-> worker[s].holder, token |-> worker[s].token]
      /\ slot[s] # Null /\ slot[s] \in SlotProcess /\ worker[s].holder \in Holders
  BY <1>1, ThreadKnows
<1>3. NativeTypeOK /\ ~Owns(worker[s].holder, worker[s].token) /\ Bare(s)
  BY <1>1 DEF LaneInv, WorkerSound
<1>4. Calm(s) /\ permits' = permits /\ minted' = minted /\ alive' = alive
  BY <1>1, LedgerAtRest DEF ledgerVars, env
<1>5. /\ marker' = [marker EXCEPT ![s] = Null] /\ marker'[s] = Null /\ worker'[s] = Null
  BY <1>1, <1>2, <1>3 DEF NativeTypeOK
<1>6. LocalStep(s, slot[s], Null, Null)
  BY <1>1, <1>2, <1>3, <1>4, <1>5 DEF LocalStep, NativeTypeOK
<1>7. SlotSound(s)'
  BY <1>1, <1>2, <1>4, SameIsQuiet, ThreadLeavesSlot
<1>8. WorkerSound(s)' /\ MarkerSound(s)'
  BY <1>1, <1>3, <1>5 DEF WorkerSound, MarkerSound, Bare
<1>9. LaneGood
  BY <1>2, <1>4, <1>6, <1>7, <1>8, LocalStepInv DEF Calm
<1> QED
  BY <1>2, <1>3, <1>9

-----------------------------------------------------------------------------
(* The steps of the daemon and of its recovery *)

\* A call of the daemon leaves the permits alone, or carries the token in the
\* marker of a slot without process.
RecoveryEffect ==
    \/ Quiet
    \/ \E s \in Slots : /\ slot[s] = Null
                        /\ \E h \in Holders, t \in Names(s) : Moves(h, t, daemon.pid)

LEMMA RecoveryEffectKeeps ==
    ASSUME LaneInv, RecoveryEffect, NEW r \in Slots, NEW k \in Holders, NEW u \in Names(r)
    PROVE  /\ ~Owns(k, u) => ~Owns(k, u)'
           /\ slot[r] # Null /\ BelongsTo(k, u, slot[r].pid)
                 => /\ Owns(k, u) => Owns(k, u)' /\ permits'[k].pid = slot[r].pid
           /\ minted' = minted
<1>0. TypeOK /\ u \in 1..minted
  BY NamesAreMinted DEF LaneInv
<1>1. CASE Quiet
  <2>1. ~Owns(k, u) => ~Owns(k, u)'
    BY <1>0, <1>1, GoneStays
  <2>2. Owns(k, u) => Owns(k, u)' /\ permits'[k].pid = permits[k].pid
    BY <1>0, <1>1, OthersKeep
  <2>3. minted' = minted
    BY <1>1 DEF Quiet
  <2> QED
    BY <2>1, <2>2, <2>3 DEF BelongsTo
<1>2. ASSUME NEW s \in Slots, slot[s] = Null, NEW h \in Holders, NEW t \in Names(s),
             Moves(h, t, daemon.pid)
      PROVE  /\ ~Owns(k, u) => ~Owns(k, u)'
             /\ slot[r] # Null /\ BelongsTo(k, u, slot[r].pid)
                   => /\ Owns(k, u) => Owns(k, u)' /\ permits'[k].pid = slot[r].pid
             /\ minted' = minted
  <2>1. ~Owns(k, u) => ~Owns(k, u)'
    BY <1>0, <1>2, GoneStays
  <2>2. slot[r] # Null => u # t
    BY <1>2 DEF LaneInv, Apart
  <2>3. ASSUME slot[r] # Null, Owns(k, u)
        PROVE  Owns(k, u)' /\ permits'[k].pid = permits[k].pid
    <3>1. Moves(h, t, daemon.pid) /\ u # t
      BY <1>2, <2>2, <2>3
    <3> QED
      BY <1>0, <2>3, <3>1, OthersKeep
  <2>4. minted' = minted
    BY <1>2 DEF Moves
  <2> QED
    BY <2>1, <2>3, <2>4 DEF BelongsTo
<1> QED
  BY <1>1, <1>2 DEF RecoveryEffect

\* What the daemon and its recovery may do to the slots: remove containers, and
\* the marker of a slot that has neither process nor containers.
LEMMA DaemonSideInv ==
    ASSUME LaneInv, [LedgerNext]_ledgerVars, NativeTypeOK', RecoveryEffect,
           UNCHANGED <<slot, worker>>,
           \A r \in Slots : slot[r] # Null => slot[r].pid \in alive',
           \A r \in Slots : \/ marker'[r] = marker[r]
                            \/ marker'[r] = Null /\ slot[r] = Null /\ Bare(r),
           containers' \subseteq containers,
           DaemonSound', RecoverySound'
    PROVE  LaneGood
<1>1. TypeOK' /\ TokensFenceAttempts' /\ (now >= 1)'
  BY LedgerPart
<1>2. minted \in Nat /\ minted' = minted
  BY DEF LaneInv, TypeOK, RecoveryEffect, Quiet, Moves
<1>3. ASSUME NEW r \in Slots PROVE SlotSound(r)' /\ WorkerSound(r)' /\ MarkerSound(r)'
  <2>1. CASE marker'[r] = marker[r]
    <3>1. /\ slot'[r] = slot[r] /\ worker'[r] = worker[r]
          /\ \A h \in Holders : <<h, r>> \in containers' => <<h, r>> \in containers
      OBVIOUS
    <3>2. minted' \in Nat /\ minted' >= minted
      BY <1>2
    <3>3. ASSUME NEW k \in Holders, NEW u \in Names(r)
          PROVE  /\ ~Owns(k, u) => ~Owns(k, u)'
                 /\ slot[r] # Null /\ BelongsTo(k, u, slot[r].pid)
                       => /\ BelongsTo(k, u, slot[r].pid)'
                          /\ Owns(k, u) => Owns(k, u)'
      <4>1. /\ ~Owns(k, u) => ~Owns(k, u)'
            /\ slot[r] # Null /\ BelongsTo(k, u, slot[r].pid)
                  => /\ Owns(k, u) => Owns(k, u)' /\ permits'[k].pid = slot[r].pid
        BY RecoveryEffectKeeps
      <4> QED
        BY <3>1, <4>1 DEF BelongsTo
    <3> QED
      BY <2>1, <3>1, <3>2, <3>3, UntouchedSlot
  <2>2. CASE marker'[r] = Null /\ slot[r] = Null /\ Bare(r)
    <3>1. worker[r] = Null
      BY <2>2, NoThread
    <3> QED
      BY <2>2, <3>1 DEF SlotSound, WorkerSound, MarkerSound, Bare
  <2> QED
    BY <2>1, <2>2
<1>4. \A r \in Slots : Names(r)' \subseteq Names(r)
  BY DEF Names
<1>5. \A r, q \in Slots : r # q => Apart(r, q)'
  BY <1>4 DEF LaneInv, Apart
<1> QED
  BY <1>1, <1>3, <1>5 DEF LaneInv, LaneGood

\* The recovery keeps what it relies on through a step of the daemon side that
\* leaves the permits, its marker and its own progress as they are.
LEMMA RecoveryStands ==
    ASSUME LaneInv, permits' = permits, demands' = demands, Up',
           daemon # Null => daemon'.pid = daemon.pid,
           UNCHANGED <<slot, marker, containers, recovery>>
    PROVE  RecoverySound'
<1>1. PICK h, t, r : h = recovery.holder /\ t = recovery.token /\ r = recovery.slot
  OBVIOUS
<1>2. recovery # Null =>
        /\ Up /\ slot[r] = Null /\ marker[r] = [holder |-> h, token |-> t]
        /\ recovery.step = "claimed" =>
              \/ Owns(h, t) /\ permits[h].pid = daemon.pid
              \/ ~Held(h) /\ Closed(h)
        /\ recovery.step # "claimed" => Bare(r)
        /\ recovery.step = "released" => ~Owns(h, t)
  BY <1>1 DEF RecoverySound, LaneInv
<1>3. /\ Owns(h, t)' <=> Owns(h, t)
      /\ ~Held(h)' /\ Closed(h)' <=> ~Held(h) /\ Closed(h)
      /\ Bare(r)' <=> Bare(r)
  BY DEF Owns, Held, Closed, Known, Bare
<1>4. recovery # Null => daemon # Null
  BY <1>2 DEF Up
<1> QED
  BY <1>1, <1>2, <1>3, <1>4 DEF RecoverySound

LEMMA DaemonSteps ==
    ASSUME LaneInv, DaemonStep \/ \E h \in Holders : ServiceDropsJob(h)
    PROVE  LaneGood
<1>0. /\ NativeTypeOK /\ TypeOK /\ DaemonSound /\ RecoverySound
      /\ \A s \in Slots : slot[s] # Null => slot[s].pid \in alive
  BY DEF LaneInv, SlotSound
<1>1. daemon # Null => daemon \in Daemon /\ daemon.pid \in alive /\ daemon.pid \in Pids
  BY <1>0 DEF NativeTypeOK, DaemonSound, Daemon
<1>2. recovery # Null => DaemonAt("up") /\ Up
  BY <1>0 DEF RecoverySound, Up, DaemonAt
<1>3. ASSUME NEW h \in Holders, ServiceDropsJob(h) PROVE LaneGood
  <2>1. /\ UNCHANGED <<ledgerVars, slot, worker, marker, containers, daemon, recovery>>
        /\ service' \in [Holders -> {"queued", "assigned", "gone"}]
    BY <1>0, <1>3 DEF ServiceDropsJob, NativeTypeOK
  <2>2. permits' = permits /\ demands' = demands /\ minted' = minted /\ alive' = alive
    BY <2>1 DEF ledgerVars, env
  <2>3. RecoveryEffect
    BY <2>2, SameIsQuiet DEF RecoveryEffect
  <2>4. NativeTypeOK' /\ DaemonSound'
    BY <1>0, <2>1, <2>2 DEF NativeTypeOK, DaemonSound
  <2>5. RecoverySound'
    <3>1. CASE recovery = Null
      BY <2>1, <3>1 DEF RecoverySound
    <3>2. CASE recovery # Null
      <4>1. Up'
        BY <1>2, <2>1, <3>2 DEF Up
      <4> QED
        BY <2>1, <2>2, <4>1, RecoveryStands
    <3> QED
      BY <3>1, <3>2
  <2> QED
    BY <1>0, <2>1, <2>2, <2>3, <2>4, <2>5, DaemonSideInv
<1>4. ASSUME NEW d \in Daemon \cup {Null}, daemon' = d, recovery' = Null,
             UNCHANGED <<slot, worker, marker, containers, service>>,
             [LedgerNext]_ledgerVars, Quiet, \A s \in Slots : slot[s] # Null => slot[s].pid \in alive',
             d # Null => d.pid \in alive' /\ \A s \in Slots : slot[s] # Null => slot[s].pid # d.pid
      PROVE  LaneGood
  <2>1. NativeTypeOK'
    BY <1>0, <1>4 DEF NativeTypeOK
  <2>2. DaemonSound' /\ RecoverySound'
    BY <1>4 DEF DaemonSound, RecoverySound
  <2>3. RecoveryEffect
    BY <1>4 DEF RecoveryEffect
  <2> QED
    BY <1>4, <2>1, <2>2, <2>3, DaemonSideInv
<1>5. ASSUME NEW p \in Pids, StartDaemon(p) PROVE LaneGood
  <2>1. /\ StartProcess(p) /\ daemon = Null
        /\ daemon' = [pid |-> p, phase |-> "starting", seen |-> {}]
        /\ UNCHANGED <<slot, worker, marker, containers, service, recovery>>
    BY <1>5 DEF StartDaemon
  <2>2. permits' = permits /\ minted' = minted /\ p \notin alive /\ alive' = alive \cup {p}
    BY <2>1 DEF StartProcess
  <2>3. LedgerNext
    BY <2>1 DEF LedgerNext
  <2>4. recovery' = Null
    BY <1>2, <2>1 DEF Up
  <2>5. daemon' \in Daemon /\ daemon'.pid = p
    BY <2>1 DEF Daemon
  <2> QED
    BY <1>0, <1>4, <2>1, <2>2, <2>3, <2>4, <2>5, SameIsQuiet
<1>6. ASSUME CrashDaemon PROVE LaneGood
  <2>1. /\ daemon # Null /\ CrashProcess(daemon.pid) /\ daemon' = Null /\ recovery' = Null
        /\ UNCHANGED <<slot, worker, marker, containers, service>>
    BY <1>6 DEF CrashDaemon
  <2>2. permits' = permits /\ minted' = minted /\ alive' = alive \ {daemon.pid}
    BY <2>1 DEF CrashProcess
  <2>3. LedgerNext
    BY <1>1, <2>1 DEF LedgerNext
  <2>4. \A s \in Slots : slot[s] # Null => slot[s].pid # daemon.pid
    BY <1>0, <2>1 DEF DaemonSound
  <2> QED
    BY <1>0, <1>4, <2>1, <2>2, <2>3, <2>4, SameIsQuiet
<1>7. ASSUME NEW d \in Daemon, daemon' = d, daemon # Null, d.pid = daemon.pid, recovery' = Null,
             UNCHANGED <<slot, worker, marker, containers, service>>,
             LedgerNext \/ UNCHANGED ledgerVars, Quiet, alive' = alive
      PROVE  LaneGood
  <2>1. \A s \in Slots : slot[s] # Null => slot[s].pid # daemon.pid
    BY <1>0, <1>7 DEF DaemonSound
  <2> QED
    BY <1>0, <1>1, <1>4, <1>7, <2>1
<1>8. CASE ConfigureCapacity
  <2>1. PICK n \in Capacities : SetMaxJobsIfUnset(n)
    BY <1>8 DEF ConfigureCapacity
  <2>2. daemon # Null /\ daemon.phase = "starting" /\ UNCHANGED laneVars
    BY <1>8 DEF ConfigureCapacity, DaemonAt
  <2>3. permits' = permits /\ minted' = minted /\ alive' = alive
    BY <2>1 DEF SetMaxJobsIfUnset, SetMaxJobs, env
  <2>4. recovery = Null
    BY <1>2, <2>2 DEF DaemonAt
  <2>5. LedgerNext
    BY <1>1, <2>1, <2>2 DEF LedgerNext, LedgerCall
  <2> QED
    BY <1>1, <1>7, <2>2, <2>3, <2>4, <2>5, SameIsQuiet DEF laneVars
<1>9. CASE BeginPass
  <2>1. /\ daemon # Null /\ daemon.phase = "starting" /\ BeginEpoch
        /\ daemon' = [daemon EXCEPT !.phase = "reading"]
        /\ UNCHANGED <<slot, worker, marker, containers, service, recovery>>
    BY <1>9 DEF BeginPass, DaemonAt
  <2>2. permits' = permits /\ minted' = minted /\ alive' = alive
    BY <2>1 DEF BeginEpoch, env
  <2>3. LedgerNext
    BY <1>1, <2>1 DEF LedgerNext, LedgerCall
  <2>4. recovery = Null
    BY <1>2, <2>1 DEF DaemonAt
  <2>5. daemon' \in Daemon /\ daemon'.pid = daemon.pid
    BY <1>1, <2>1 DEF Daemon
  <2> QED
    BY <1>7, <2>1, <2>2, <2>3, <2>4, <2>5, SameIsQuiet
<1>10. CASE ReadMarkers
  <2>1. /\ daemon # Null /\ daemon.phase = "reading"
        /\ daemon' = [daemon EXCEPT !.phase = "read", !.seen = {marker[s] : s \in Slots} \ {Null}]
        /\ UNCHANGED <<ledgerVars, slot, worker, marker, containers, service, recovery>>
    BY <1>10 DEF ReadMarkers, DaemonAt
  <2>2. permits' = permits /\ minted' = minted /\ alive' = alive
    BY <2>1 DEF ledgerVars, env
  <2>3. recovery = Null
    BY <1>2, <2>1 DEF DaemonAt
  <2>4. {marker[s] : s \in Slots} \ {Null} \in SUBSET Marker
    BY <1>0 DEF NativeTypeOK
  <2>5. daemon' \in Daemon /\ daemon'.pid = daemon.pid
    BY <1>1, <2>1, <2>4 DEF Daemon
  <2> QED
    BY <1>7, <2>1, <2>2, <2>3, <2>5, SameIsQuiet
<1>11. CASE ReconcilePass
  <2> DEFINE seen == [h \in {m.holder : m \in daemon.seen} |-> "alive"]
  <2>1. /\ daemon # Null /\ daemon.phase = "read" /\ Reconcile(seen)
        /\ daemon' = [daemon EXCEPT !.phase = "up", !.seen = {}]
        /\ UNCHANGED <<slot, worker, marker, containers, service, recovery>>
    BY <1>11 DEF ReconcilePass, DaemonAt
  <2>2. {m.holder : m \in daemon.seen} \in SUBSET Holders
    BY <1>1, <2>1 DEF Daemon, Marker
  <2>3. "alive" \in ObservationKinds
    BY DEF ObservationKinds
  <2>4. LedgerNext
    <3>1. seen \in [{m.holder : m \in daemon.seen} -> ObservationKinds]
      BY <2>3
    <3> HIDE DEF seen
    <3> QED
      BY <1>1, <2>1, <2>2, <3>1 DEF LedgerNext, LedgerCall
  <2> HIDE DEF seen
  <2>5. Quiet /\ alive' = alive
    BY <1>0, <2>1, ReconcileIsQuiet
  <2>6. recovery = Null
    BY <1>2, <2>1 DEF DaemonAt
  <2>7. daemon' \in Daemon /\ daemon'.pid = daemon.pid
    BY <1>1, <2>1 DEF Daemon
  <2> QED
    BY <1>7, <2>1, <2>4, <2>5, <2>6, <2>7
<1>12. CASE PassFails
  <2>1. /\ daemon # Null /\ daemon' = [daemon EXCEPT !.phase = "starting", !.seen = {}]
        /\ recovery' = Null /\ UNCHANGED <<ledgerVars, slot, worker, marker, containers, service>>
    BY <1>12 DEF PassFails, DaemonAt, Up
  <2>2. permits' = permits /\ minted' = minted /\ alive' = alive
    BY <2>1 DEF ledgerVars, env
  <2>3. daemon' \in Daemon /\ daemon'.pid = daemon.pid
    BY <1>1, <2>1 DEF Daemon
  <2> QED
    BY <1>7, <2>1, <2>2, <2>3, SameIsQuiet
<1> QED
  BY <1>3, <1>5, <1>6, <1>8, <1>9, <1>10, <1>11, <1>12 DEF DaemonStep

\* What the recovery has by it
LEMMA RecoveryKnows ==
    ASSUME LaneInv, recovery # Null
    PROVE  /\ recovery \in Recovery /\ recovery.slot \in Slots /\ recovery.holder \in Holders
           /\ recovery.token \in 1..minted /\ recovery.token \in Names(recovery.slot)
           /\ Up /\ daemon.pid \in alive /\ daemon.pid \in Pids
           /\ slot[recovery.slot] = Null /\ worker[recovery.slot] = Null
           /\ marker[recovery.slot] = [holder |-> recovery.holder, token |-> recovery.token]
           /\ marker[recovery.slot] \in Marker /\ marker[recovery.slot].holder = recovery.holder
<1>1. NativeTypeOK /\ RecoverySound /\ DaemonSound /\ TypeOK
  BY DEF LaneInv
<1>2. /\ recovery \in Recovery /\ recovery.slot \in Slots /\ recovery.holder \in Holders
      /\ recovery.token \in Token
  BY <1>1 DEF NativeTypeOK, Recovery
<1>3. /\ Up /\ slot[recovery.slot] = Null
      /\ marker[recovery.slot] = [holder |-> recovery.holder, token |-> recovery.token]
  BY <1>1 DEF RecoverySound
<1>4. daemon.pid \in alive /\ daemon.pid \in Pids
  BY <1>1, <1>3 DEF DaemonSound, Up, TypeOK
<1>5. /\ marker[recovery.slot] \in Marker /\ marker[recovery.slot].holder = recovery.holder
      /\ marker[recovery.slot].token = recovery.token
  BY <1>2, <1>3 DEF Marker
<1>6. recovery.token \in Names(recovery.slot)
  <2>1. marker[recovery.slot] # Null /\ recovery.token # Null
    BY <1>2, <1>5, AbsentAssumption, NullAssumption DEF Token
  <2> QED
    BY <1>5, <2>1 DEF Names
<1>7. recovery.token \in 1..minted
  BY <1>2, <1>6, NamesAreMinted
<1>8. worker[recovery.slot] = Null
  BY <1>2, <1>3, NoThread
<1> QED
  BY <1>2, <1>3, <1>4, <1>5, <1>6, <1>7, <1>8

\* A step of the recovery that leaves the daemon and the slots alone
LEMMA RecoverySideInv ==
    ASSUME LaneInv, recovery # Null \/ Up, [LedgerNext]_ledgerVars, RecoveryEffect, alive' = alive,
           UNCHANGED <<slot, worker, daemon>>,
           service' \in [Holders -> {"queued", "assigned", "gone"}],
           containers' \subseteq containers,
           \A r \in Slots : \/ marker'[r] = marker[r]
                            \/ marker'[r] = Null /\ slot[r] = Null /\ Bare(r),
           marker' \in [Slots -> Marker \cup {Null}],
           recovery' \in Recovery \cup {Null}, RecoverySound'
    PROVE  LaneGood
<1>1. /\ NativeTypeOK /\ DaemonSound
      /\ \A r \in Slots : slot[r] # Null => slot[r].pid \in alive'
  BY DEF LaneInv, SlotSound
<1>2. NativeTypeOK'
  BY <1>1 DEF NativeTypeOK
<1>3. DaemonSound'
  BY <1>1 DEF DaemonSound
<1> QED
  BY <1>1, <1>2, <1>3, DaemonSideInv

\* The fence either gets the permit or finds the job closed without one.
LEMMA FencesMove ==
    ASSUME LaneInv, Up, NEW h \in Holders, NEW t \in 1..minted, Fences(h, t)
    PROVE  /\ [LedgerNext]_ledgerVars
           /\ Moves(h, t, daemon.pid) \/ Quiet
           /\ \/ Owns(h, t)' /\ permits'[h].pid = daemon.pid
              \/ ~Held(h)' /\ Closed(h)'
           /\ alive' = alive
<1>1. PICK p : p = daemon.pid
  OBVIOUS
<1>2. TypeOK /\ p \in alive /\ p \in Pids
  BY <1>1 DEF LaneInv, DaemonSound, Up, TypeOK
<1>3. CASE ClaimRecordedTerminalCleanup(h, "native", t, daemon.pid)
  <2>1. ClaimRecordedTerminalCleanup(h, "native", t, p)
    BY <1>1, <1>3
  <2>2. LedgerNext
    BY <1>2, <2>1, OwnerCallsLedger
  <2>3. /\ Moves(h, t, p) \/ Quiet
        /\ \/ Owns(h, t)' /\ permits'[h].pid = p
           \/ ~Held(h)' /\ Closed(h)'
        /\ alive' = alive
    BY <1>2, <2>1, ClaimMoves
  <2> QED
    BY <1>1, <2>2, <2>3
<1>4. CASE ~Held(h) /\ Known(h) /\ demands[h].state = "terminal" /\ UNCHANGED ledgerVars
  <2>1. permits' = permits /\ demands' = demands /\ minted' = minted /\ alive' = alive
    BY <1>4 DEF ledgerVars, env
  <2>2. Quiet
    BY <2>1, SameIsQuiet
  <2>3. ~Held(h)' /\ Closed(h)'
    BY <1>4, <2>1 DEF Held, Closed, Known, ClosedStates
  <2> QED
    BY <1>4, <2>1, <2>2, <2>3
<1> QED
  BY <1>3, <1>4 DEF Fences

LEMMA BeginRecoveryStep ==
    ASSUME LaneInv, NEW s \in Slots, BeginRecovery(s)
    PROVE  LaneGood
<1>1. PICK h, t : h = marker[s].holder /\ t = marker[s].token
  OBVIOUS
<1> DEFINE rec == [slot |-> s, holder |-> h, token |-> t, step |-> "claimed"]
<1>2. /\ Up /\ recovery = Null /\ marker[s] # Null /\ slot[s] = Null /\ Fences(h, t)
      /\ recovery' = rec
      /\ UNCHANGED <<slot, worker, marker, containers, service, daemon>>
  BY <1>1 DEF BeginRecovery
<1>3. NativeTypeOK /\ marker[s] \in Marker
  BY <1>2 DEF LaneInv, NativeTypeOK
<1>4. h \in Holders /\ t \in Token /\ marker[s] = [holder |-> h, token |-> t]
  BY <1>1, <1>3 DEF Marker
<1>5. t \in Names(s) /\ t \in 1..minted
  <2>1. t # Null
    BY <1>4, NullAssumption DEF Token
  <2>2. t \in Names(s)
    BY <1>1, <1>2, <2>1 DEF Names
  <2> QED
    BY <2>2, NamesAreMinted
<1>6. /\ [LedgerNext]_ledgerVars
      /\ Moves(h, t, daemon.pid) \/ Quiet
      /\ \/ Owns(h, t)' /\ permits'[h].pid = daemon.pid
         \/ ~Held(h)' /\ Closed(h)'
      /\ alive' = alive
  BY <1>2, <1>4, <1>5, FencesMove
<1>7. RecoveryEffect
  BY <1>2, <1>4, <1>5, <1>6 DEF RecoveryEffect
<1>8. rec \in Recovery /\ rec.slot = s /\ rec.holder = h /\ rec.token = t /\ rec.step = "claimed"
  BY <1>4 DEF Recovery
<1> HIDE DEF rec
<1>9. RecoverySound'
  <2>1. Up' /\ slot'[s] = Null /\ marker'[s] = [holder |-> h, token |-> t]
    BY <1>2, <1>4 DEF Up
  <2>2. rec.step # "released"
    BY <1>8
  <2> QED
    BY <1>2, <1>6, <1>8, <2>1, <2>2 DEF RecoverySound
<1>10. service' \in [Holders -> {"queued", "assigned", "gone"}]
       /\ marker' \in [Slots -> Marker \cup {Null}]
  BY <1>2, <1>3 DEF NativeTypeOK
<1> QED
  BY <1>2, <1>6, <1>7, <1>8, <1>9, <1>10, RecoverySideInv

LEMMA RecoverySteps ==
    ASSUME LaneInv, RecoveryStep
    PROVE  /\ LaneGood
           /\ RecoveryClearsMarker =>
                /\ marker[recovery.slot] = [holder |-> recovery.holder, token |-> recovery.token]
                /\ ~Owns(recovery.holder, recovery.token) /\ Bare(recovery.slot)
<1>0. recovery # Null
  BY DEF RecoveryStep, RecoveryTearsDown, RecoveryTeardownFails, RecoveryCompletes, RecoveryDefers,
         RecoveryClaims, RecoveryReleases, RecoveryClearsMarker, RecoveryAt
<1>1. PICK h, t, r, p : /\ h = recovery.holder /\ t = recovery.token /\ r = recovery.slot
                        /\ p = daemon.pid
  OBVIOUS
<1>2. /\ recovery \in Recovery /\ r \in Slots /\ h \in Holders /\ t \in 1..minted /\ t \in Names(r)
      /\ Up /\ p \in alive /\ p \in Pids /\ slot[r] = Null
      /\ marker[r] = [holder |-> h, token |-> t] /\ marker[r].holder = h
  BY <1>0, <1>1, RecoveryKnows
<1>3. /\ NativeTypeOK /\ TypeOK /\ MarkerSound(r)
      /\ recovery.step # "claimed" => Bare(r)
      /\ recovery.step = "released" => ~Owns(h, t)
  BY <1>0, <1>1, <1>2 DEF LaneInv, RecoverySound
\* The recovery ends.
<1>4. ASSUME recovery' = Null, [LedgerNext]_ledgerVars, Moves(h, t, p) \/ Quiet, alive' = alive,
             UNCHANGED <<slot, worker, containers, service, daemon>>,
             \/ marker' = marker
             \/ marker' = [marker EXCEPT ![r] = Null] /\ Bare(r)
      PROVE  LaneGood
  <2>1. RecoveryEffect
    BY <1>1, <1>2, <1>4 DEF RecoveryEffect
  <2>2. RecoverySound'
    BY <1>4 DEF RecoverySound
  <2>3. /\ marker' \in [Slots -> Marker \cup {Null}]
        /\ \A q \in Slots : \/ marker'[q] = marker[q]
                            \/ marker'[q] = Null /\ slot[q] = Null /\ Bare(q)
    BY <1>2, <1>3, <1>4 DEF NativeTypeOK
  <2>4. service' \in [Holders -> {"queued", "assigned", "gone"}]
    BY <1>3, <1>4 DEF NativeTypeOK
  <2> QED
    BY <1>0, <1>4, <2>1, <2>2, <2>3, <2>4, RecoverySideInv
\* The recovery goes on.
<1>5. ASSUME NEW step \in {"torn", "completed", "cleaning", "released"}, RecoverStep(step),
             [LedgerNext]_ledgerVars, Moves(h, t, p) \/ Quiet, alive' = alive,
             UNCHANGED <<slot, worker, marker, daemon>>,
             containers' \subseteq containers, Bare(r)', step = "released" => ~Owns(h, t)',
             service' \in [Holders -> {"queued", "assigned", "gone"}]
      PROVE  LaneGood
  <2> DEFINE rec == [recovery EXCEPT !.step = step]
  <2>1. recovery' = rec
    BY <1>5 DEF RecoverStep
  <2>2. /\ rec \in Recovery /\ rec.slot = r /\ rec.holder = h /\ rec.token = t /\ rec.step = step
    BY <1>1, <1>2 DEF Recovery
  <2> HIDE DEF rec
  <2>3. RecoveryEffect
    BY <1>1, <1>2, <1>5 DEF RecoveryEffect
  <2>4. RecoverySound'
    <3>1. Up' /\ slot'[r] = Null /\ marker'[r] = [holder |-> h, token |-> t]
      BY <1>2, <1>5 DEF Up
    <3>2. step # "claimed"
      OBVIOUS
    <3> QED
      BY <1>5, <2>1, <2>2, <3>1, <3>2 DEF RecoverySound
  <2>5. marker' \in [Slots -> Marker \cup {Null}]
    BY <1>3, <1>5 DEF NativeTypeOK
  <2> QED
    BY <1>0, <1>5, <2>1, <2>2, <2>3, <2>4, <2>5, RecoverySideInv
<1>6. UNCHANGED ledgerVars => Quiet /\ alive' = alive
  <2>1. UNCHANGED ledgerVars => permits' = permits /\ minted' = minted /\ alive' = alive
    BY DEF ledgerVars, env
  <2> QED
    BY <2>1, SameIsQuiet
<1>7. /\ containers' = containers => containers' \subseteq containers /\ (Bare(r)' <=> Bare(r))
      /\ service' = service => service' \in [Holders -> {"queued", "assigned", "gone"}]
  BY <1>3 DEF Bare, NativeTypeOK
<1>8. CASE RecoveryTearsDown
  <2>1. /\ containers' = {c \in containers : c[1] # h} /\ RecoverStep("torn")
        /\ UNCHANGED <<ledgerVars, slot, worker, marker, service, daemon>>
    BY <1>1, <1>8 DEF RecoveryTearsDown
  <2>2. Bare(r)' /\ containers' \subseteq containers
    BY <1>2, <1>3, <2>1 DEF Bare, MarkerSound
  <2>3. LaneGood
    BY <1>5, <1>6, <1>7, <2>1, <2>2
  <2>4. ~RecoveryClearsMarker
    BY <1>8 DEF RecoveryTearsDown, RecoveryClearsMarker, RecoveryAt
  <2> QED
    BY <2>3, <2>4
<1>9. CASE RecoveryTeardownFails
  <2>1. /\ recovery.step = "claimed"
        /\ RetainUncertainAfterCleanup(h, t, p) \/ UNCHANGED ledgerVars
        /\ recovery' = Null /\ UNCHANGED <<slot, worker, marker, containers, service, daemon>>
    BY <1>1, <1>9 DEF RecoveryTeardownFails, RecoveryAt
  <2>2. CASE RetainUncertainAfterCleanup(h, t, p)
    <3>1. LedgerNext
      BY <1>2, <1>3, <2>2, OwnerCallsLedger
    <3>2. Moves(h, t, p) /\ alive' = alive
      BY <1>2, <1>3, <2>2, RewritesMove
    <3> QED
      BY <1>4, <2>1, <3>1, <3>2 DEF RecoveryClearsMarker, RecoveryAt
  <2>3. CASE UNCHANGED ledgerVars
    BY <1>4, <1>6, <2>1, <2>3 DEF RecoveryClearsMarker, RecoveryAt
  <2> QED
    BY <2>1, <2>2, <2>3
<1>10. CASE RecoveryCompletes
  <2>1. /\ recovery.step = "torn" /\ RecoverStep("completed")
        /\ service' = [service EXCEPT ![h] = "gone"]
        /\ UNCHANGED <<ledgerVars, slot, worker, marker, containers, daemon>>
    BY <1>1, <1>10 DEF RecoveryCompletes, RecoveryAt
  <2>2. service' \in [Holders -> {"queued", "assigned", "gone"}]
    BY <1>2, <1>3, <2>1 DEF NativeTypeOK
  <2>3. Bare(r)' /\ containers' \subseteq containers
    BY <1>3, <1>7, <2>1
  <2>4. LaneGood
    BY <1>5, <1>6, <2>1, <2>2, <2>3
  <2> QED
    BY <2>1, <2>4 DEF RecoveryClearsMarker, RecoveryAt
<1>11. CASE RecoveryDefers
  <2>1. /\ recovery.step = "torn" /\ recovery' = Null
        /\ UNCHANGED <<ledgerVars, slot, worker, marker, containers, service, daemon>>
    BY <1>11 DEF RecoveryDefers, RecoveryAt
  <2>2. LaneGood
    BY <1>4, <1>6, <2>1
  <2> QED
    BY <2>1, <2>2 DEF RecoveryClearsMarker, RecoveryAt
<1>12. CASE RecoveryClaims
  <2>1. /\ recovery.step = "completed" /\ Fences(h, t) /\ RecoverStep("cleaning")
        /\ UNCHANGED <<slot, worker, marker, containers, service, daemon>>
    BY <1>1, <1>12 DEF RecoveryClaims, RecoveryAt
  <2>2. [LedgerNext]_ledgerVars /\ (Moves(h, t, p) \/ Quiet) /\ alive' = alive
    BY <1>1, <1>2, <2>1, FencesMove
  <2>3. Bare(r)' /\ containers' \subseteq containers
    BY <1>3, <1>7, <2>1
  <2>4. LaneGood
    BY <1>5, <1>7, <2>1, <2>2, <2>3
  <2> QED
    BY <2>1, <2>4 DEF RecoveryClearsMarker, RecoveryAt
<1>13. CASE RecoveryReleases
  <2>1. /\ recovery.step = "cleaning" /\ RecoverStep("released")
        /\ \/ ReleaseNativeOwned(h, t, "terminal")
           \/ ~Owns(h, t) /\ UNCHANGED ledgerVars
        /\ UNCHANGED <<slot, worker, marker, containers, service, daemon>>
    BY <1>1, <1>13 DEF RecoveryReleases, RecoveryAt
  <2>2. [LedgerNext]_ledgerVars /\ (Moves(h, t, p) \/ Quiet) /\ alive' = alive /\ ~Owns(h, t)'
    <3>1. CASE ReleaseNativeOwned(h, t, "terminal")
      <4>1. "terminal" \in ClosedStates
        BY DEF ClosedStates
      <4>2. LedgerNext
        BY <1>2, <1>3, <3>1, <4>1, OwnerCallsLedger
      <4> QED
        BY <1>2, <1>3, <3>1, <4>2, NativeReleaseMoves
    <3>2. CASE ~Owns(h, t) /\ UNCHANGED ledgerVars
      <4>1. ~Owns(h, t)'
        BY <3>2 DEF Owns, Held, ledgerVars
      <4> QED
        BY <1>6, <3>2, <4>1
    <3> QED
      BY <2>1, <3>1, <3>2
  <2>3. Bare(r)' /\ containers' \subseteq containers
    BY <1>3, <1>7, <2>1
  <2>4. LaneGood
    BY <1>5, <1>7, <2>1, <2>2, <2>3
  <2> QED
    BY <2>1, <2>4 DEF RecoveryClearsMarker, RecoveryAt
<1>14. CASE RecoveryClearsMarker
  <2>1. /\ recovery.step = "released" /\ recovery' = Null
        /\ marker' = [marker EXCEPT ![r] = IF @ = [holder |-> h, token |-> t] THEN Null ELSE @]
        /\ UNCHANGED <<ledgerVars, slot, worker, containers, service, daemon>>
    BY <1>1, <1>14 DEF RecoveryClearsMarker, RecoveryAt, ClearIfSameAttempt
  <2>2. Bare(r) /\ ~Owns(h, t)
    BY <1>3, <2>1
  <2>3. marker' = [marker EXCEPT ![r] = Null]
    BY <1>2, <2>1
  <2>4. LaneGood
    BY <1>4, <1>6, <2>1, <2>2, <2>3
  <2> QED
    BY <1>1, <1>2, <2>2, <2>4
<1> QED
  BY <1>8, <1>9, <1>10, <1>11, <1>12, <1>13, <1>14 DEF RecoveryStep

-----------------------------------------------------------------------------
(* Slot processes come and go *)

LEMMA LifeStepInv ==
    ASSUME LaneInv, NEW s \in Slots, LedgerNext, permits' = permits, demands' = demands,
           minted' = minted, NEW row \in SlotProcess \cup {Null},
           slot' = [slot EXCEPT ![s] = row], worker' = [worker EXCEPT ![s] = Null],
           UNCHANGED <<marker, containers, service, daemon, recovery>>,
           \A r \in Slots \ {s} : slot[r] # Null => slot[r].pid \in alive',
           daemon # Null => daemon.pid \in alive',
           row # Null => /\ row.pc = "idle" /\ row.token = Null /\ marker[s] = Null
                         /\ row.pid \in alive' \ alive
    PROVE  LaneGood
<1>0. /\ NativeTypeOK /\ TypeOK /\ DaemonSound /\ RecoverySound /\ MarkerSound(s)
      /\ \A r \in Slots : slot[r] # Null => slot[r].pid \in alive
  BY DEF LaneInv, SlotSound
<1>1. /\ slot'[s] = row /\ worker'[s] = Null
      /\ \A r \in Slots \ {s} : slot'[r] = slot[r] /\ worker'[r] = worker[r]
      /\ NativeTypeOK'
  BY <1>0 DEF NativeTypeOK
<1>2. [LedgerNext]_ledgerVars /\ TypeOK' /\ TokensFenceAttempts' /\ (now >= 1)'
  BY LedgerPart
<1>3. \A k \in Holders : \A u, p : /\ Owns(k, u)' <=> Owns(k, u)
                                   /\ BelongsTo(k, u, p)' <=> BelongsTo(k, u, p)
  BY DEF Owns, Held, BelongsTo
<1>4. ASSUME NEW r \in Slots, r # s PROVE SlotSound(r)' /\ WorkerSound(r)' /\ MarkerSound(r)'
  <2>1. minted' \in Nat /\ minted' >= minted
    BY <1>0 DEF TypeOK
  <2>2. slot'[r] = slot[r] /\ worker'[r] = worker[r] /\ marker'[r] = marker[r]
    BY <1>1, <1>4
  <2>3. ASSUME NEW k \in Holders, NEW u \in Names(r)
        PROVE  /\ ~Owns(k, u) => ~Owns(k, u)'
               /\ slot[r] # Null /\ BelongsTo(k, u, slot[r].pid)
                     => /\ BelongsTo(k, u, slot[r].pid)'
                        /\ Owns(k, u) => Owns(k, u)'
    BY <1>3, <2>2 DEF Owns, Held, BelongsTo
  <2> QED
    BY <1>4, <2>1, <2>2, <2>3, UntouchedSlot
<1>5. SlotSound(s)' /\ WorkerSound(s)' /\ MarkerSound(s)'
  <2>1. row # Null => row.pc \notin Attempting \cup Asking \cup Unrecorded \cup Recorded
                             \cup {"recorded", "running", "clearing", "concluding"}
    BY DEF Attempting, Asking, Unrecorded, Recorded, Leaving
  <2>2. SlotSound(s)'
    BY <1>1, <2>1 DEF SlotSound
  <2>3. WorkerSound(s)' /\ MarkerSound(s)'
    BY <1>0, <1>1 DEF WorkerSound, MarkerSound
  <2> QED
    BY <2>2, <2>3
<1>6. \A r, q \in Slots : r # q => Apart(r, q)'
  <2>1. \A r \in Slots : Names(r)' \subseteq Names(r)
    BY <1>1 DEF Names
  <2>2. \A r \in Slots : slot'[r] # Null =>
          \/ r # s /\ slot'[r] = slot[r] /\ slot[r] # Null /\ slot[r].pid \in alive
          \/ r = s /\ slot'[r].pid \notin alive
    BY <1>0, <1>1
  <2> QED
    BY <2>1, <2>2 DEF LaneInv, Apart
<1>7. DaemonSound'
  BY <1>0, <1>1 DEF DaemonSound
<1>8. RecoverySound'
  <2>1. CASE recovery = Null
    BY <2>1 DEF RecoverySound
  <2>2. CASE recovery # Null
    <3>1. PICK h, t, r : h = recovery.holder /\ t = recovery.token /\ r = recovery.slot
      OBVIOUS
    <3>2. /\ r \in Slots /\ h \in Holders /\ slot[r] = Null /\ marker[r] \in Marker /\ Up
          /\ marker[r] = [holder |-> h, token |-> t]
      BY <2>2, <3>1, RecoveryKnows
    <3>3. slot'[r] = Null
      <4>1. CASE r = s
        BY <1>1, <3>2, <4>1, AbsentAssumption
      <4>2. CASE r # s
        BY <1>1, <3>2, <4>2
      <4> QED
        BY <4>1, <4>2
    <3>4. /\ recovery.step = "claimed" =>
                \/ Owns(h, t) /\ permits[h].pid = daemon.pid
                \/ ~Held(h) /\ Closed(h)
          /\ recovery.step # "claimed" => Bare(r)
          /\ recovery.step = "released" => ~Owns(h, t)
      BY <1>0, <2>2, <3>1 DEF RecoverySound
    <3>5. /\ Owns(h, t)' <=> Owns(h, t)
          /\ ~Held(h)' /\ Closed(h)' <=> ~Held(h) /\ Closed(h)
          /\ Bare(r)' <=> Bare(r)
          /\ Up'
      BY <3>2 DEF Owns, Held, Closed, Known, Bare, Up
    <3> QED
      BY <3>1, <3>2, <3>3, <3>4, <3>5 DEF RecoverySound
  <2> QED
    BY <2>1, <2>2
<1> QED
  BY <1>1, <1>2, <1>4, <1>5, <1>6, <1>7, <1>8 DEF LaneInv, LaneGood

LEMMA LifeSteps ==
    ASSUME LaneInv, NEW s \in Slots, (\E p \in Pids : SpawnSlot(s, p)) \/ CrashSlot(s)
    PROVE  LaneGood
<1>0. /\ NativeTypeOK /\ TypeOK /\ DaemonSound
      /\ \A r \in Slots : slot[r] # Null => slot[r].pid \in alive
      /\ \A r \in Slots \ {s} : slot[r] # Null /\ slot[s] # Null => slot[r].pid # slot[s].pid
  BY DEF LaneInv, SlotSound, Apart
<1>1. ASSUME NEW p \in Pids, SpawnSlot(s, p) PROVE LaneGood
  <2> DEFINE row == IdleProcess(p)
  <2>1. /\ slot[s] = Null /\ marker[s] = Null /\ StartProcess(p)
        /\ slot' = [slot EXCEPT ![s] = row]
        /\ UNCHANGED <<worker, marker, containers, service, daemon, recovery>>
    BY <1>1 DEF SpawnSlot
  <2>2. /\ permits' = permits /\ demands' = demands /\ minted' = minted
        /\ p \notin alive /\ alive' = alive \cup {p}
    BY <2>1 DEF StartProcess
  <2>3. LedgerNext
    BY <2>1 DEF LedgerNext
  <2>4. row \in SlotProcess /\ row.pid = p /\ row.pc = "idle" /\ row.token = Null
    BY DEF IdleProcess, SlotProcess, Pcs
  <2>5. worker[s] = Null
    BY <2>1, NoThread
  <2>6. worker' = [worker EXCEPT ![s] = Null]
    BY <1>0, <2>1, <2>5 DEF NativeTypeOK
  <2>7. daemon # Null => daemon.pid \in alive'
    BY <1>0, <2>2 DEF DaemonSound
  <2> HIDE DEF row
  <2> QED
    BY <1>0, <2>1, <2>2, <2>3, <2>4, <2>6, <2>7, LifeStepInv
<1>2. CASE CrashSlot(s)
  <2>1. /\ slot[s] # Null /\ CrashProcess(slot[s].pid)
        /\ slot' = [slot EXCEPT ![s] = Null] /\ worker' = [worker EXCEPT ![s] = Null]
        /\ UNCHANGED <<marker, containers, service, daemon, recovery>>
    BY <1>2 DEF CrashSlot
  <2>2. /\ permits' = permits /\ demands' = demands /\ minted' = minted
        /\ alive' = alive \ {slot[s].pid}
    BY <2>1 DEF CrashProcess
  <2>3. slot[s].pid \in Pids
    BY <1>0, <2>1 DEF TypeOK
  <2>4. LedgerNext
    BY <2>1, <2>3 DEF LedgerNext
  <2>5. daemon # Null => daemon.pid \in alive'
    BY <1>0, <2>1, <2>2 DEF DaemonSound
  <2>6. \A r \in Slots \ {s} : slot[r] # Null => slot[r].pid \in alive'
    BY <1>0, <2>1, <2>2
  <2> QED
    BY <2>1, <2>2, <2>4, <2>5, <2>6, LifeStepInv
<1> QED
  BY <1>1, <1>2

-----------------------------------------------------------------------------
(* The invariant *)

LEMMA LaneStep ==
    ASSUME LaneInv, NativeNext
    PROVE  LaneGood
<1>1. ASSUME NEW s \in Slots, HandlerStep(s) PROVE LaneGood
  BY <1>1, AskingSteps, AttemptSteps, GiveUpSteps, AcquireStep, PersistStep, ContainerStep,
     CompletionSteps, ConcludeStep, ClearStep DEF HandlerStep
<1>2. ASSUME NEW s \in Slots, WorkerStep(s) PROVE LaneGood
  BY <1>2, TearDownStep, FinalizeStep, ThreadClearStep DEF WorkerStep
<1>3. ASSUME NEW s \in Slots, (\E p \in Pids : SpawnSlot(s, p)) \/ CrashSlot(s) \/ BeginRecovery(s)
      PROVE  LaneGood
  BY <1>3, LifeSteps, BeginRecoveryStep
<1>4. CASE (\E h \in Holders : ServiceDropsJob(h)) \/ DaemonStep
  BY <1>4, DaemonSteps
<1>5. CASE RecoveryStep
  BY <1>5, RecoverySteps
<1> QED
  BY <1>1, <1>2, <1>3, <1>4, <1>5 DEF NativeNext

LEMMA LaneStutter ==
    ASSUME LaneInv, UNCHANGED nativeVars
    PROVE  LaneGood
<1>1. UNCHANGED ledgerVars /\ UNCHANGED laneVars
  BY DEF nativeVars
<1>2. /\ permits' = permits /\ demands' = demands /\ minted' = minted /\ alive' = alive
      /\ UNCHANGED <<slot, worker, marker, containers, service, daemon, recovery>>
  BY <1>1 DEF ledgerVars, laneVars, env
<1>3. NativeTypeOK' /\ DaemonSound'
  BY <1>2 DEF LaneInv, NativeTypeOK, DaemonSound
<1>4. RecoverySound'
  <2>1. CASE recovery = Null
    BY <1>2, <2>1 DEF RecoverySound
  <2>2. CASE recovery # Null
    <3>1. Up'
      BY <1>2, <2>2, RecoveryKnows DEF Up
    <3> QED
      BY <1>2, <3>1, RecoveryStands
  <2> QED
    BY <2>1, <2>2
<1>5. RecoveryEffect
  BY <1>2, SameIsQuiet DEF RecoveryEffect
<1>6. \A r \in Slots : slot[r] # Null => slot[r].pid \in alive'
  BY <1>2 DEF LaneInv, SlotSound
<1> QED
  BY <1>1, <1>2, <1>3, <1>4, <1>5, <1>6, DaemonSideInv

LEMMA LaneStarts == NativeInit => LaneInv
<1> SUFFICES ASSUME NativeInit PROVE LaneInv
  OBVIOUS
<1>1. TypeOK /\ TokensFenceAttempts
  BY InitTypeOK, InitTokens DEF NativeInit
<1>2. now >= 1
  BY DEF NativeInit, LedgerInit
<1>3. NativeTypeOK
  BY DEF NativeInit, NativeTypeOK
<1>4. \A s \in Slots : SlotSound(s) /\ WorkerSound(s) /\ MarkerSound(s)
  BY DEF NativeInit, SlotSound, WorkerSound, MarkerSound
<1>5. \A s, r \in Slots : s # r => Apart(s, r)
  BY DEF NativeInit, Apart, Names
<1>6. DaemonSound /\ RecoverySound
  BY DEF NativeInit, DaemonSound, RecoverySound
<1> QED
  BY <1>1, <1>2, <1>3, <1>4, <1>5, <1>6 DEF LaneInv

LEMMA LaneInvariant == NativeSpec => []LaneInv
<1>1. LaneInv /\ [NativeNext]_nativeVars => LaneInv'
  BY LaneStep, LaneStutter DEF LaneGood
<1> QED
  BY <1>1, LaneStarts, PTL DEF NativeSpec

-----------------------------------------------------------------------------
(* Theorems *)

\* The native lane keeps to the ledger's protocol: whatever its slots, their
\* teardown threads, the daemon and its recovery do, the ledger sees calls that
\* live processes may make.  Every theorem about LedgerSpec holds of the lane.
THEOREM LaneKeepsToTheLedger == NativeSpec => LedgerSpec
<1>1. NativeInit => LedgerInit
  BY DEF NativeInit
<1>2. LaneInv /\ [NativeNext]_nativeVars => [LedgerNext]_ledgerVars
  BY LaneStep, LaneStutter DEF LaneGood
<1> QED
  BY <1>1, <1>2, LaneInvariant, PTL DEF NativeSpec, LedgerSpec

\* The records of the slots, threads, markers, daemon and recovery have their
\* types.
THEOREM LaneTypeCorrect == NativeSpec => []NativeTypeOK
<1>1. LaneInv => NativeTypeOK
  BY DEF LaneInv
<1> QED
  BY <1>1, LaneInvariant, PTL

\* A handler that runs a recorded job, and a teardown thread until it has
\* finalized, owns the job's permit under its own token.
THEOREM LaneExecutorOwnsPermit == NativeSpec => []ExecutorOwnsPermit
<1>1. LaneInv => ExecutorOwnsPermit
  <2> SUFFICES ASSUME LaneInv, NEW s \in Slots
               PROVE  /\ At(s, "recorded") \/ At(s, "running")
                            => Owns(slot[s].holder, slot[s].token)
                      /\ WorkerAt(s, "tearing") \/ WorkerAt(s, "finalizing")
                            => Owns(worker[s].holder, worker[s].token)
    BY DEF ExecutorOwnsPermit
  <2>1. SlotSound(s) /\ WorkerSound(s)
    BY DEF LaneInv
  <2> QED
    BY <2>1 DEF SlotSound, WorkerSound, At, WorkerAt
<1> QED
  BY <1>1, LaneInvariant, PTL

\* Every container on the host belongs to the job in the marker of its slot.
THEOREM LaneContainersAreRecorded == NativeSpec => []ContainersAreRecorded
<1>1. LaneInv => ContainersAreRecorded
  BY DEF LaneInv, MarkerSound, ContainersAreRecorded
<1> QED
  BY <1>1, LaneInvariant, PTL

-----------------------------------------------------------------------------
(* Who removes containers and markers *)

LEMMA WhoWrites ==
    ASSUME NativeNext
    PROVE  /\ \/ containers \subseteq containers'
              \/ \E s \in Slots : WorkerTearsDown(s)
              \/ RecoveryTearsDown
           /\ \/ marker' = marker
              \/ \E s \in Slots : PersistMarker(s) \/ ClearMarker(s) \/ WorkerClearsMarker(s)
              \/ RecoveryClearsMarker
           /\ maxJobs' = maxJobs \/ maxJobs = Null
<1> DEFINE Claim ==
       /\ \/ containers \subseteq containers'
          \/ \E s \in Slots : WorkerTearsDown(s)
          \/ RecoveryTearsDown
       /\ \/ marker' = marker
          \/ \E s \in Slots : PersistMarker(s) \/ ClearMarker(s) \/ WorkerClearsMarker(s)
          \/ RecoveryClearsMarker
<1>0. UNCHANGED ledgerVars => maxJobs' = maxJobs
  BY DEF ledgerVars, meta
<1>1. ASSUME NEW h, NEW t, NEW p, NEW g, NEW state,
             \/ ObserveDemand(h, "native", now, now) \/ ParkDemand(h)
             \/ AcquireFull(h, "native", g) \/ AcquireDeferred(h, "native", g)
             \/ AcquireAttempt(h, "native", state, g, p)
             \/ AdoptForRedelivery(h, "native", state, g, p)
             \/ TransitionOwned(h, state, g, t, p) \/ RetainUncertain(h, g, t)
             \/ RetainUncertainAfterCleanup(h, t, p) \/ ReleaseOwned(h, t, state)
             \/ ReleaseNativeOwned(h, t, state) \/ ClaimRecordedTerminalCleanup(h, "native", t, p)
      PROVE  maxJobs' = maxJobs
  BY <1>1 DEF ObserveDemand, ParkDemand, AcquireFull, AcquireDeferred, AcquireAttempt, Grant,
              AdoptForRedelivery, TransitionOwned, RetainUncertain, RetainUncertainAfterCleanup,
              ReleaseOwned, ReleaseNativeOwned, ClaimRecordedTerminalCleanup, meta
<1>2. ASSUME NEW s \in Slots, HandlerStep(s) PROVE Claim /\ maxJobs' = maxJobs
  <2>1. Claim
    BY <1>2 DEF HandlerStep, ReceiveMessage, AdmissionBlocked, EnterGuard, GuardRereads,
                GuardAcquires, GuardDeparts, GuardParks, RecordIntent, IntentFails, ServiceAssigns,
                ResponseUnclear, ServiceSaysGone, RetainBestEffort, AcquiredNotStarted,
                FailBeforeStart, StartJob, CreateContainers, CompletionAcked, CompletionUnacked,
                ReleaseForMarker, Join, JoinTimesOut, PersistMarker, ClearMarker
  <2>2. CASE \/ \E h \in Holders : ReceiveMessage(s, h)
             \/ AdmissionBlocked(s) \/ EnterGuard(s) \/ GuardRereads(s) \/ GuardAcquires(s)
             \/ GuardDeparts(s) \/ GuardParks(s) \/ RecordIntent(s) \/ IntentFails(s)
             \/ ServiceAssigns(s) \/ ResponseUnclear(s) \/ ServiceSaysGone(s)
    BY <1>0, <1>1, <2>2
       DEF ReceiveMessage, AdmissionBlocked, EnterGuard, GuardRereads, GuardAcquires, GuardDeparts,
           GuardParks, RecordIntent, IntentFails, ServiceAssigns, ResponseUnclear, ServiceSaysGone
  <2>3. CASE \/ RetainBestEffort(s) \/ PersistMarker(s) \/ AcquiredNotStarted(s)
             \/ FailBeforeStart(s) \/ StartJob(s) \/ CreateContainers(s) \/ CompletionAcked(s)
             \/ CompletionUnacked(s) \/ ReleaseForMarker(s) \/ ClearMarker(s) \/ Join(s)
             \/ JoinTimesOut(s)
    BY <1>0, <1>1, <2>3
       DEF RetainBestEffort, PersistMarker, AcquiredNotStarted, FailBeforeStart, StartJob, Spell,
           CreateContainers, CompletionAcked, CompletionUnacked, ReleaseForMarker, ClearMarker,
           Join, JoinTimesOut
  <2> QED
    BY <1>2, <2>1, <2>2, <2>3 DEF HandlerStep
<1>3. ASSUME NEW s \in Slots, WorkerStep(s) PROVE Claim /\ maxJobs' = maxJobs
  <2>1. Claim
    BY <1>3 DEF WorkerStep, WorkerFinalizes, WorkerTearsDown, WorkerClearsMarker
  <2>2. maxJobs' = maxJobs
    BY <1>0, <1>1, <1>3 DEF WorkerStep, WorkerFinalizes, WorkerTearsDown, WorkerClearsMarker
  <2> QED
    BY <2>1, <2>2
<1>4. ASSUME NEW s \in Slots, (\E p \in Pids : SpawnSlot(s, p)) \/ CrashSlot(s)
      PROVE  Claim /\ maxJobs' = maxJobs
  BY <1>4 DEF SpawnSlot, CrashSlot, StartProcess, CrashProcess, meta
<1>5. CASE \E h \in Holders : ServiceDropsJob(h)
  BY <1>0, <1>5 DEF ServiceDropsJob
<1>6. CASE DaemonStep
  <2>1. Claim
    BY <1>6 DEF DaemonStep, StartDaemon, CrashDaemon, ConfigureCapacity, BeginPass, ReadMarkers,
                ReconcilePass, PassFails, laneVars
  <2>2. maxJobs' = maxJobs \/ maxJobs = Null
    BY <1>0, <1>6 DEF DaemonStep, StartDaemon, CrashDaemon, ConfigureCapacity, BeginPass,
                      ReadMarkers, ReconcilePass, PassFails, StartProcess, CrashProcess,
                      SetMaxJobsIfUnset, BeginEpoch, Reconcile, meta
  <2> QED
    BY <2>1, <2>2
<1>7. ASSUME NEW h, NEW t, Fences(h, t) PROVE maxJobs' = maxJobs
  BY <1>0, <1>1, <1>7 DEF Fences
<1>8. ASSUME NEW s \in Slots, BeginRecovery(s) PROVE Claim /\ maxJobs' = maxJobs
  BY <1>7, <1>8 DEF BeginRecovery
<1>9. CASE RecoveryStep
  <2>1. Claim
    BY <1>9 DEF RecoveryStep, RecoveryTeardownFails, RecoveryCompletes, RecoveryDefers,
                RecoveryClaims, RecoveryReleases, RecoveryTearsDown, RecoveryClearsMarker
  <2>2. maxJobs' = maxJobs
    BY <1>0, <1>1, <1>7, <1>9 DEF RecoveryStep, RecoveryTearsDown, RecoveryTeardownFails,
       RecoveryCompletes, RecoveryDefers, RecoveryClaims, RecoveryReleases, RecoveryClearsMarker
  <2> QED
    BY <2>1, <2>2
<1> QED
  BY <1>2, <1>3, <1>4, <1>5, <1>6, <1>8, <1>9 DEF NativeNext

\* What is on record while a job is executed, and whose it is
LEMMA ExecutorKnows ==
    ASSUME LaneInv, NEW s \in Slots, Executing(s)
    PROVE  \E h \in Holders, t \in Names(s) :
              Owns(h, t) /\ marker[s] = [holder |-> h, token |-> t]
<1>1. CASE At(s, "recorded") \/ At(s, "running")
  <2>1. PICK pc \in {"recorded", "running"} : At(s, pc)
    BY <1>1
  <2>2. pc \in Attempting /\ pc \in Recorded /\ pc # "idle"
    BY DEF Attempting, Recorded
  <2>3. /\ slot[s] # Null /\ slot[s].pc = pc /\ slot[s].holder \in Holders
        /\ slot[s].token \in 1..minted
    BY <2>1, <2>2, AtPlace
  <2>4. /\ Owns(slot[s].holder, slot[s].token)
        /\ marker[s] = [holder |-> slot[s].holder, token |-> slot[s].token]
    BY <2>2, <2>3 DEF LaneInv, SlotSound
  <2>5. slot[s].token \in Names(s)
    BY <2>3, NullAssumption DEF Names, LaneInv, TypeOK
  <2> QED
    BY <2>3, <2>4, <2>5
<1>2. CASE WorkerAt(s, "tearing") \/ WorkerAt(s, "finalizing")
  <2>1. worker[s] # Null /\ worker[s].step \in {"tearing", "finalizing"}
    BY <1>2 DEF WorkerAt
  <2>2. /\ worker[s].holder \in Holders /\ worker[s].token \in Names(s)
        /\ marker[s] = [holder |-> worker[s].holder, token |-> worker[s].token]
    BY <2>1, ThreadKnows
  <2>3. Owns(worker[s].holder, worker[s].token)
    BY <2>1 DEF LaneInv, WorkerSound
  <2> QED
    BY <2>2, <2>3
<1> QED
  BY <1>1, <1>2 DEF Executing

\* The recovery of a dead slot removes the containers of a whole job; a job that
\* a live slot is running is never that job.
THEOREM LaneRecoverySparesTheLive == NativeSpec => RecoverySparesTheLive
<1>1. ASSUME LaneInv, [NativeNext]_nativeVars, NEW s \in Slots, At(s, "running"),
             <<slot[s].holder, s>> \in containers
      PROVE  <<slot[s].holder, s>> \in containers'
  <2>1. CASE UNCHANGED nativeVars
    BY <1>1, <2>1 DEF nativeVars, laneVars
  <2>2. CASE containers \subseteq containers'
    BY <1>1, <2>2
  <2>3. ASSUME NEW r \in Slots, WorkerTearsDown(r) PROVE <<slot[s].holder, s>> \in containers'
    <3>1. worker[r] # Null /\ containers' = containers \ {<<worker[r].holder, r>>}
      BY <2>3 DEF WorkerTearsDown, WorkerAt
    <3>2. worker[s] = Null
      BY <1>1, RunningKnows
    <3> QED
      BY <1>1, <3>1, <3>2
  <2>4. CASE RecoveryTearsDown
    <3>1. PICK h, t, r : h = recovery.holder /\ t = recovery.token /\ r = recovery.slot
      OBVIOUS
    <3>2. /\ recovery # Null /\ recovery.step = "claimed"
          /\ containers' = {c \in containers : c[1] # h}
      BY <2>4, <3>1 DEF RecoveryTearsDown, RecoveryAt
    <3>3. r \in Slots /\ h \in Holders /\ t \in Names(r) /\ slot[r] = Null
      BY <1>1, <3>1, <3>2, RecoveryKnows
    <3>4. Owns(h, t) \/ ~Held(h)
      BY <1>1, <3>1, <3>2 DEF LaneInv, RecoverySound
    <3>5. /\ slot[s] # Null /\ Owns(slot[s].holder, slot[s].token)
          /\ slot[s].token \in Token
      BY <1>1, RunningKnows
    <3>6. slot[s].token \in Names(s) /\ r # s
      BY <3>3, <3>5, NullAssumption DEF Names, Token
    <3>7. slot[s].token # t
      BY <1>1, <3>3, <3>6 DEF LaneInv, Apart
    <3>8. slot[s].holder # h
      BY <3>4, <3>5, <3>7 DEF Owns
    <3> QED
      BY <1>1, <3>2, <3>8
  <2> QED
    BY <1>1, <2>1, <2>2, <2>3, <2>4, WhoWrites
<1>2. LaneInv /\ [NativeNext]_nativeVars =>
        [\A s \in Slots :
            (/\ At(s, "running")
             /\ <<slot[s].holder, s>> \in containers
             /\ slot'[s] = slot[s])
                => <<slot[s].holder, s>> \in containers']_nativeVars
  BY <1>1
<1> QED
  BY <1>2, LaneInvariant, PTL DEF NativeSpec, RecoverySparesTheLive

\* Whoever removes a marker has given the job's permit up and left no container
\* of the slot behind.
THEOREM LaneMarkerOutlivesItsWork == NativeSpec => MarkerOutlivesItsWork
<1>1. ASSUME LaneInv, [NativeNext]_nativeVars, NEW s \in Slots, marker[s] # Null,
             marker'[s] = Null
      PROVE  /\ ~Owns(marker[s].holder, marker[s].token)
             /\ <<marker[s].holder, s>> \notin containers
  <2>0. marker \in [Slots -> Marker \cup {Null}] /\ marker[s] \in Marker
    BY <1>1 DEF LaneInv, NativeTypeOK
  <2>1. ASSUME NEW h, NEW t, marker[s] = [holder |-> h, token |-> t], ~Owns(h, t), Bare(s)
        PROVE  /\ ~Owns(marker[s].holder, marker[s].token)
               /\ <<marker[s].holder, s>> \notin containers
    <3>1. marker[s].holder = h /\ marker[s].token = t /\ marker[s].holder \in Holders
      BY <2>0, <2>1 DEF Marker
    <3> QED
      BY <2>1, <3>1 DEF Bare
  <2>2. CASE UNCHANGED nativeVars
    BY <1>1, <2>2 DEF nativeVars, laneVars
  <2>3. CASE marker' = marker
    BY <1>1, <2>3
  <2>4. ASSUME NEW r \in Slots, PersistMarker(r) PROVE FALSE
    <3>1. PICK m : /\ m = [holder |-> slot[r].holder, token |-> slot[r].token]
                   /\ marker' = [marker EXCEPT ![r] = m] /\ At(r, "acquired")
      BY <2>4 DEF PersistMarker
    <3>2. "acquired" \in Attempting /\ "acquired" # "idle"
      BY DEF Attempting, Unrecorded
    <3>3. slot[r].holder \in Holders /\ slot[r].token \in Token
      BY <1>1, <3>1, <3>2, AtPlace DEF Token, LaneInv, TypeOK
    <3>4. m \in Marker
      BY <3>1, <3>3 DEF Marker
    <3> QED
      BY <1>1, <2>0, <3>1, <3>4, AbsentAssumption
  <2>5. ASSUME NEW r \in Slots, ClearMarker(r)
        PROVE  /\ ~Owns(marker[s].holder, marker[s].token)
               /\ <<marker[s].holder, s>> \notin containers
    <3>1. r = s
      BY <1>1, <2>0, <2>5 DEF ClearMarker, ClearIfSameAttempt
    <3> QED
      BY <1>1, <2>1, <2>5, <3>1, ClearStep
  <2>6. ASSUME NEW r \in Slots, WorkerClearsMarker(r)
        PROVE  /\ ~Owns(marker[s].holder, marker[s].token)
               /\ <<marker[s].holder, s>> \notin containers
    <3>1. r = s
      BY <1>1, <2>0, <2>6 DEF WorkerClearsMarker, ClearIfSameAttempt
    <3> QED
      BY <1>1, <2>1, <2>6, <3>1, ThreadClearStep
  <2>7. CASE RecoveryClearsMarker
    <3>1. recovery.slot = s
      BY <1>1, <2>0, <2>7 DEF RecoveryClearsMarker, ClearIfSameAttempt
    <3>2. RecoveryStep
      BY <2>7 DEF RecoveryStep
    <3>3. /\ marker[s] = [holder |-> recovery.holder, token |-> recovery.token]
          /\ ~Owns(recovery.holder, recovery.token) /\ Bare(s)
      BY <1>1, <2>7, <3>1, <3>2, RecoverySteps
    <3> QED
      BY <2>1, <3>3
  <2> QED
    BY <1>1, <2>2, <2>3, <2>4, <2>5, <2>6, <2>7, WhoWrites
<1>2. LaneInv /\ [NativeNext]_nativeVars =>
        [\A s \in Slots :
            (marker[s] # Null /\ marker'[s] = Null)
                => /\ ~Owns(marker[s].holder, marker[s].token)
                   /\ <<marker[s].holder, s>> \notin containers]_nativeVars
  BY <1>1
<1> QED
  BY <1>2, LaneInvariant, PTL DEF NativeSpec, MarkerOutlivesItsWork

-----------------------------------------------------------------------------
(* Capacity *)

\* The permits out are at most N, once there is an N.
PermitsFit ==
    /\ maxJobs = Null => HeldSet = {}
    /\ maxJobs # Null => Cardinality(HeldSet) <= maxJobs

LEMMA FitStep ==
    ASSUME LaneInv, [NativeNext]_nativeVars, PermitsFit
    PROVE  PermitsFit'
<1>1. TypeOK /\ LaneGood
  BY LaneStep, LaneStutter DEF LaneInv
<1>2. TypeOK' /\ [LedgerNext]_ledgerVars
  BY <1>1 DEF LaneGood, LaneInv
<1>3. PoolStep
  BY <1>1, <1>2, NextIsPoolStep
<1>4. maxJobs' = maxJobs \/ maxJobs = Null
  BY WhoWrites DEF nativeVars, ledgerVars, meta
<1>5. maxJobs \in Nat \cup {Null} /\ maxJobs' \in Nat \cup {Null} /\ Null \notin Nat
  BY <1>1, <1>2, NumbersAssumption, NullAssumption DEF TypeOK
<1>6. HeldSet \in SUBSET Holders /\ HeldSet' \in SUBSET Holders
  BY DEF HeldSet
<1>7. /\ IsFiniteSet(HeldSet) /\ Cardinality(HeldSet) \in Nat
      /\ Cardinality(HeldSet') \in Nat /\ Cardinality({}) = 0
  BY <1>6, FiniteHolders, FS_EmptySet
<1>8. CASE HeldSet' = HeldSet
  <2>1. Cardinality(HeldSet)' = Cardinality(HeldSet)
    BY <1>8
  <2> QED
    BY <1>4, <1>5, <1>7, <1>8, <2>1 DEF PermitsFit
<1>9. ASSUME NEW h \in Holders, Pool!Give(h) PROVE PermitsFit'
  <2>1. /\ maxJobs # Null /\ Cardinality(HeldSet) < maxJobs /\ h \notin HeldSet
        /\ HeldSet' = HeldSet \cup {h} /\ maxJobs' = maxJobs
    BY <1>9, PoolCountsAlike DEF Pool!Give
  <2>2. Cardinality(HeldSet \cup {h}) = Cardinality(HeldSet) + 1
    BY <1>7, <2>1, FS_AddElement
  <2> QED
    BY <1>5, <1>7, <2>1, <2>2 DEF PermitsFit
<1>10. ASSUME NEW h \in Holders, Pool!TakeBack(h) PROVE PermitsFit'
  <2>1. h \in HeldSet /\ HeldSet' = HeldSet \ {h} /\ maxJobs' = maxJobs
    BY <1>10 DEF Pool!TakeBack
  <2>2. Cardinality(HeldSet \ {h}) = Cardinality(HeldSet) - 1
    BY <1>7, <2>1, FS_RemoveElement
  <2> QED
    BY <1>5, <1>7, <2>1, <2>2 DEF PermitsFit
<1>11. CASE \/ \E n \in Capacities : Pool!Resize(n)
            \/ \E S \in SUBSET Holders : Pool!Admit(S)
            \/ \E h \in Holders : Pool!Close(h)
            \/ UNCHANGED Pool!poolVars
  BY <1>8, <1>11 DEF Pool!Resize, Pool!Admit, Pool!Close, Pool!poolVars
<1> QED
  BY <1>3, <1>9, <1>10, <1>11 DEF PoolStep, Pool!PoolNext

\* Executing slots hold different permits.
LEMMA ExecutorsFit ==
    ASSUME LaneInv, PermitsFit
    PROVE  WithinCapacity
<1> DEFINE E == {s \in Slots : Executing(s)}
           f == [s \in E |-> marker[s].holder]
<1>1. ASSUME NEW s \in E
      PROVE  \E t \in Names(s) : f[s] \in Holders /\ Owns(f[s], t)
  <2>1. PICK h \in Holders, t \in Names(s) : Owns(h, t) /\ marker[s] = [holder |-> h, token |-> t]
    BY <1>1, ExecutorKnows
  <2>2. f[s] = h
    BY <1>1, <2>1
  <2> QED
    BY <2>1, <2>2
<1> HIDE DEF f
<1>2. f \in [E -> HeldSet]
  <2>1. \A s \in E : f[s] \in HeldSet
    BY <1>1 DEF HeldSet, Owns
  <2> QED
    BY <2>1 DEF f
<1>3. ASSUME NEW s \in E, NEW r \in E, f[s] = f[r] PROVE s = r
  <2>1. PICK t \in Names(s) : Owns(f[s], t)
    BY <1>1
  <2>2. PICK u \in Names(r) : Owns(f[r], u)
    BY <1>1
  <2>3. t = u
    BY <1>3, <2>1, <2>2 DEF Owns
  <2> QED
    BY <2>1, <2>2, <2>3 DEF LaneInv, Apart
<1>4. f \in Injection(E, HeldSet)
  BY <1>2, <1>3 DEF Injection, IsInjective
<1>5. HeldSet \in SUBSET Holders
  BY DEF HeldSet
<1>6. IsFiniteSet(HeldSet) /\ Cardinality(HeldSet) \in Nat
  BY <1>5, FiniteHolders
<1>7. IsFiniteSet(E) /\ Cardinality(E) <= Cardinality(HeldSet)
  BY <1>4, <1>6, FS_Injection
<1>8. Cardinality(E) \in Nat
  BY <1>7, FS_CardinalityType
<1>9. maxJobs # Null => maxJobs \in Nat
  BY NumbersAssumption DEF LaneInv, TypeOK
<1> QED
  BY <1>6, <1>7, <1>8, <1>9 DEF WithinCapacity, PermitsFit

\* Jobs are never executed beyond the host's N, on a ledger that no release
\* without attempt tokens has filled: the rows such a release left are counted,
\* but a redelivered job takes its own row over whatever N is.
THEOREM LaneWithinCapacity ==
    ASSUME LegacyHolders = {}
    PROVE  NativeSpec => []WithinCapacity
<1>1. NativeInit => PermitsFit
  BY DEF NativeInit, LedgerInit, PermitsFit
<1>2. LaneInv /\ [NativeNext]_nativeVars /\ PermitsFit => PermitsFit'
  BY FitStep
<1>3. LaneInv /\ PermitsFit => WithinCapacity
  BY ExecutorsFit
<1> QED
  BY <1>1, <1>2, <1>3, LaneInvariant, PTL DEF NativeSpec

=============================================================================
