------------------------- MODULE PermitLedgerProofs -------------------------
(* Proofs about the permit ledger, for every set of holders and processes. *)
EXTENDS PermitLedger, FiniteSetTheorems, TLAPS

\* A permit row stays a permit row when an operation rewrites its columns.
LEMMA PermitRowUpdates ==
    ASSUME NEW r \in PermitRow, NEW s \in PermitStates, NEW g \in Nat
    PROVE  /\ [r EXCEPT !.state = s, !.gen = g] \in PermitRow
           /\ \A p \in Pids : [r EXCEPT !.state = s, !.gen = g, !.pid = p] \in PermitRow
           /\ \A p \in Pids, t \in Token, x \in Rotation \cup {Null} :
                 [r EXCEPT !.state = s, !.gen = g, !.pid = p, !.token = t,
                           !.rotation = x] \in PermitRow
  BY DEF PermitRow

\* So does a demand row.
LEMMA DemandRowUpdates ==
    ASSUME NEW d \in DemandRow, NEW s \in DemandStates, NEW u \in Nat
    PROVE  [d EXCEPT !.state = s, !.updated = u] \in DemandRow
  BY DEF DemandRow

\* The row ensure_demand_tx leaves behind is a demand row.
LEMMA EnsuredIsRow ==
    ASSUME TypeOK, NEW h \in Holders, NEW lane \in Lanes, NEW first \in Nat,
           NEW updated \in Nat, NEW initial \in DemandStates
    PROVE  EnsuredDemand(h, lane, first, updated, initial) \in DemandRow
  BY DEF TypeOK, EnsuredDemand, Known, DemandRow

LEMMA GrantedIsRow ==
    ASSUME TypeOK, NEW h \in Holders, NEW lane \in Lanes
    PROVE  GrantedDemand(h, lane) \in DemandRow
<1> DEFINE d == EnsuredDemand(h, lane, now, now, "granted")
<1>1. d \in DemandRow
  BY EnsuredIsRow DEF TypeOK, DemandStates
<1>2. [d EXCEPT !.state = "granted", !.updated = now] \in DemandRow
  BY <1>1, DemandRowUpdates DEF TypeOK, DemandStates
<1> QED
  BY <1>1, <1>2 DEF GrantedDemand

LEMMA SequenceAfterNat ==
    ASSUME TypeOK, NEW h \in Holders
    PROVE  SequenceAfter(h) \in Nat
  BY DEF TypeOK, SequenceAfter

LEMMA RequeuedIsTyped ==
    ASSUME TypeOK, NEW h \in Holders, NEW lane \in Lanes
    PROVE  Requeued(h, lane) \in [Holders -> DemandRow \cup {Null}]
<1>1. EnsuredDemand(h, lane, now, now, "eligible") \in DemandRow
  BY EnsuredIsRow DEF TypeOK, DemandStates
<1>2. [EnsuredDemand(h, lane, now, now, "eligible")
          EXCEPT !.state = "eligible", !.updated = now] \in DemandRow
  BY <1>1, DemandRowUpdates DEF TypeOK, DemandStates
<1> QED
  BY <1>2 DEF Requeued, TypeOK

-----------------------------------------------------------------------------
(* Type correctness *)

LEMMA InitTypeOK == LedgerInit => TypeOK
<1> SUFFICES ASSUME LedgerInit PROVE TypeOK
  OBVIOUS
<1>1. Cardinality(LegacyHolders) \in Nat
  BY HoldersAssumption, FS_Subset, FS_CardinalityType
<1>2. LegacyRows \subseteq PermitRow
  <2>1. 1..Cardinality(LegacyHolders) \subseteq Token
    BY <1>1 DEF Token
  <2>2. GrantStates \cup {"cleaning", "uncertain"} \subseteq PermitStates
    BY GrantStatesAssumption DEF PermitStates
  <2> QED
    BY <2>1, <2>2 DEF LegacyRows, PermitRow
<1>3. permits \in [Holders -> PermitRow \cup {Null}]
  BY <1>2 DEF LedgerInit
<1>4. migrations \in SUBSET (Holders \X Token)
  BY <1>3 DEF LedgerInit, HeldSet, Held, PermitRow
<1> QED
  BY <1>1, <1>3, <1>4 DEF LedgerInit, TypeOK

\* A call on one holder's demand keeps the types.
LEMMA DemandCallTypeOK ==
    ASSUME TypeOK, NEW h \in Holders, DemandCall(h)
    PROVE  TypeOK'
<1>1. ASSUME NEW lane \in LanesOf[h], NEW first \in 1..now,
             ObserveDemand(h, lane, first, now)
      PROVE  TypeOK'
  <2>1. lane \in Lanes /\ first \in Nat
    BY <1>1, HoldersAssumption DEF TypeOK
  <2> DEFINE d == EnsuredDemand(h, lane, first, now,
                                IF Held(h) THEN "granted" ELSE "eligible")
  <2>2. d \in DemandRow
    BY <2>1, EnsuredIsRow DEF TypeOK, DemandStates
  <2>3. RevivedByOffer(d.state) \in DemandStates
    BY <2>2 DEF RevivedByOffer, DemandRow, DemandStates
  <2>4. [d EXCEPT !.state = RevivedByOffer(d.state), !.updated = now] \in DemandRow
    BY <2>2, <2>3, DemandRowUpdates DEF TypeOK
  <2>5. demands' \in [Holders -> DemandRow \cup {Null}]
    BY <1>1, <2>2, <2>4 DEF ObserveDemand, TypeOK
  <2> QED
    BY <1>1, <2>5, SequenceAfterNat DEF ObserveDemand, TypeOK, meta, aux, env
<1>2. ASSUME ParkDemand(h) \/ CancelDemand(h) PROVE TypeOK'
  <2>1. demands[h] \in DemandRow
    BY <1>2 DEF ParkDemand, CancelDemand, Known, TypeOK
  <2>2. demands' \in [Holders -> DemandRow \cup {Null}]
    BY <1>2, <2>1 DEF ParkDemand, CancelDemand, TypeOK, DemandRow, DemandStates
  <2> QED
    BY <1>2, <2>2 DEF ParkDemand, CancelDemand, TypeOK, meta, aux, env
<1> QED
  BY <1>1, <1>2 DEF DemandCall

\* A call that acquires or takes over a permit keeps the types.
LEMMA OwnershipCallTypeOK ==
    ASSUME TypeOK, NEW h \in Holders, NEW p \in Pids, OwnershipCall(h, p)
    PROVE  TypeOK'
<1> PICK g \in 0..generation, s \in GrantStates :
        \/ \E lane \in LanesOf[h] :
              \/ AcquireFull(h, lane, g)
              \/ AcquireDeferred(h, lane, g)
              \/ AcquireAttempt(h, lane, s, g, p)
              \/ AdoptForRedelivery(h, lane, s, g, p)
        \/ /\ "scaleset" \in LanesOf[h]
           /\ \E t \in 1..minted : AcquireStagedAttempt(h, s, g, p, t)
        \/ \E r \in GrantStates \cup {"cleaning", "uncertain"}, prevPid \in Pids,
              prev \in 1..minted \cup {Null}, target, claim \in 1..minted :
              RotateScaleSetAttempt(h, r, g, prevPid, prev, target, claim, p)
  BY DEF OwnershipCall
<1>0. /\ g \in Nat /\ s \in PermitStates /\ LanesOf[h] \subseteq Lanes
      /\ GrantStates \cup {"cleaning", "uncertain"} \subseteq PermitStates
  BY GrantStatesAssumption, HoldersAssumption DEF TypeOK, PermitStates
<1>a. 1..minted \subseteq Token /\ minted + 1 \in Token
  BY DEF TypeOK, Token
<1>1. ASSUME NEW lane \in Lanes, AcquireFull(h, lane, g) \/ AcquireDeferred(h, lane, g)
      PROVE  TypeOK'
  BY <1>1, RequeuedIsTyped, SequenceAfterNat
     DEF AcquireFull, AcquireDeferred, TypeOK, meta, aux, env
<1>2. ASSUME NEW lane \in Lanes, NEW t \in Token, Grant(h, lane, s, g, p, t), minted' \in Nat
      PROVE  TypeOK'
  <2> DEFINE row == [lane |-> lane, state |-> s, gen |-> g, pid |-> p, token |-> t,
                     rotation |-> Null]
  <2>1. row \in PermitRow
    BY <1>0 DEF PermitRow
  <2>2. permits' \in [Holders -> PermitRow \cup {Null}]
    BY <1>2, <2>1 DEF Grant, TypeOK
  <2>3. Requeued(h, lane)[h] \in DemandRow
    <3>1. EnsuredDemand(h, lane, now, now, "eligible") \in DemandRow
      BY EnsuredIsRow DEF TypeOK, DemandStates
    <3>2. [EnsuredDemand(h, lane, now, now, "eligible")
              EXCEPT !.state = "eligible", !.updated = now] \in DemandRow
      BY <3>1, DemandRowUpdates DEF TypeOK, DemandStates
    <3> QED
      BY <3>2 DEF Requeued, TypeOK
  <2>4. [Requeued(h, lane)[h] EXCEPT !.state = "granted"] \in DemandRow
    BY <2>3 DEF DemandRow, DemandStates
  <2>5. demands' \in [Holders -> DemandRow \cup {Null}]
    BY <1>2, <2>4, RequeuedIsTyped DEF Grant
  <2> QED
    BY <1>2, <2>2, <2>5, SequenceAfterNat DEF Grant, TypeOK, meta, aux
<1>3. ASSUME NEW lane \in Lanes, AdoptForRedelivery(h, lane, s, g, p)
      PROVE  TypeOK'
  <2>1. permits[h] \in PermitRow
    BY <1>3 DEF AdoptForRedelivery, Adoptable, Held, TypeOK
  <2>2. [permits[h] EXCEPT !.state = s, !.gen = g, !.pid = p, !.token = minted + 1,
                           !.rotation = Null] \in PermitRow
    BY <2>1, <1>0, <1>a, PermitRowUpdates
  <2>3. permits' \in [Holders -> PermitRow \cup {Null}]
    BY <1>3, <2>2 DEF AdoptForRedelivery, TypeOK
  <2> QED
    BY <1>3, <2>3, GrantedIsRow, SequenceAfterNat DEF AdoptForRedelivery, TypeOK, meta, aux
<1>4. ASSUME NEW r \in PermitStates, NEW prevPid \in Pids,
             NEW prev \in 1..minted \cup {Null},
             NEW target \in 1..minted, NEW claim \in 1..minted,
             RotateScaleSetAttempt(h, r, g, prevPid, prev, target, claim, p)
      PROVE  TypeOK'
  <2>1. permits[h] \in PermitRow
    BY <1>4 DEF RotateScaleSetAttempt, Held, TypeOK
  <2> DEFINE x == [claim |-> claim, pid |-> prevPid, token |-> prev]
  <2>2. x \in Rotation
    BY <1>a DEF Rotation
  <2>3. [permits[h] EXCEPT !.state = r, !.gen = g, !.pid = p, !.token = target,
                           !.rotation = x] \in PermitRow
    BY <2>1, <2>2, <1>0, <1>a, PermitRowUpdates
  <2>4. permits' \in [Holders -> PermitRow \cup {Null}]
    BY <1>4, <2>3 DEF RotateScaleSetAttempt, TypeOK
  <2> QED
    BY <1>4, <2>4, GrantedIsRow, SequenceAfterNat
       DEF RotateScaleSetAttempt, TypeOK, meta, aux, env, Lanes
<1> QED
  BY <1>0, <1>a, <1>1, <1>2, <1>3, <1>4
     DEF AcquireAttempt, AcquireStagedAttempt, TypeOK, Lanes

\* A call that carries an attempt token keeps the types.
LEMMA OwnedCallTypeOK ==
    ASSUME TypeOK, NEW h \in Holders, NEW t \in Token, NEW p \in Pids, OwnedCall(h, t, p)
    PROVE  TypeOK'
<1>0. /\ GrantStates \cup {"cleaning", "uncertain"} \subseteq PermitStates
      /\ generation \in Nat
      /\ ClosedStates \subseteq DemandStates
      /\ {"eligible", "cancelled", "terminal"} \subseteq DemandStates
      /\ now \in Nat
  BY GrantStatesAssumption DEF TypeOK, PermitStates, ClosedStates, DemandStates
<1>1. ASSUME NEW g \in 0..generation, NEW s \in GrantStates \cup {"cleaning"},
             TransitionOwned(h, s, g, t, p)
      PROVE  TypeOK'
  <2>1. permits[h] \in PermitRow
    BY <1>1 DEF TransitionOwned, Owns, Held, TypeOK
  <2>a. g \in Nat /\ s \in PermitStates
    BY <1>0
  <2>2. [permits[h] EXCEPT !.state = s, !.gen = g, !.pid = p] \in PermitRow
    BY <2>a, <2>1, PermitRowUpdates
  <2> QED
    BY <1>1, <2>2 DEF TransitionOwned, TypeOK, meta, aux, env
<1>2. ASSUME NEW g \in 0..generation, RetainUncertain(h, g, t) \/ RetainRecordedFailure(h, g, t)
      PROVE  TypeOK'
  <2>1. permits[h] \in PermitRow
    BY <1>2 DEF RetainUncertain, RetainRecordedFailure, Owns, Held, TypeOK
  <2>a. g \in Nat /\ "uncertain" \in PermitStates
    BY <1>0
  <2>2. [permits[h] EXCEPT !.state = "uncertain", !.gen = g] \in PermitRow
    BY <2>a, <2>1, PermitRowUpdates
  <2>3. ASSUME Known(h) PROVE TerminalIfOpen(demands[h]) \in DemandRow
    <3>1. demands[h] \in DemandRow
      BY <2>3 DEF Known, TypeOK
    <3>2. [demands[h] EXCEPT !.state = "terminal", !.updated = now] \in DemandRow
      BY <1>0, <3>1, DemandRowUpdates
    <3> QED
      BY <3>1, <3>2 DEF TerminalIfOpen
  <2>4. demands' \in [Holders -> DemandRow \cup {Null}]
    BY <1>2, <2>3 DEF RetainUncertain, RetainRecordedFailure, TypeOK
  <2> QED
    BY <1>2, <2>2, <2>4 DEF RetainUncertain, RetainRecordedFailure, TypeOK, meta, aux, env
<1>3. ASSUME RetainUncertainAfterCleanup(h, t, p) PROVE TypeOK'
  <2>1. permits[h] \in PermitRow
    BY <1>3 DEF RetainUncertainAfterCleanup, Owns, Held, TypeOK
  <2>2. [permits[h] EXCEPT !.state = "uncertain", !.gen = generation, !.pid = p] \in PermitRow
    BY <1>0, <2>1, PermitRowUpdates
  <2> DEFINE d == EnsuredDemand(h, "native", now, now, "granted")
  <2>3. d \in DemandRow
    BY <1>0, EnsuredIsRow DEF Lanes, DemandStates
  <2>4. [d EXCEPT !.state = "terminal", !.updated = now] \in DemandRow
    BY <1>0, <2>3, DemandRowUpdates
  <2>5. demands' \in [Holders -> DemandRow \cup {Null}]
    BY <1>3, <2>3, <2>4 DEF RetainUncertainAfterCleanup, TypeOK
  <2> QED
    BY <1>3, <2>2, <2>5, SequenceAfterNat
       DEF RetainUncertainAfterCleanup, TypeOK, meta, aux, env
<1>4. ASSUME NEW target \in {"eligible", "cancelled", "terminal"},
             ReleaseOwned(h, t, target) \/ ReleaseScaleSetStaged(h, t, target)
      PROVE  TypeOK'
  <2>1. ASSUME Known(h)
        PROVE  [demands[h] EXCEPT !.state = target, !.updated = now] \in DemandRow
    <3>1. demands[h] \in DemandRow
      BY <2>1 DEF Known, TypeOK
    <3> QED
      BY <1>0, <3>1, DemandRowUpdates
  <2>2. demands' \in [Holders -> DemandRow \cup {Null}]
    BY <1>4, <2>1 DEF ReleaseOwned, ReleaseScaleSetStaged, TypeOK
  <2>3. permits' \in [Holders -> PermitRow \cup {Null}]
    BY <1>4 DEF ReleaseOwned, ReleaseScaleSetStaged, TypeOK
  <2> QED
    BY <1>4, <2>2, <2>3 DEF ReleaseOwned, ReleaseScaleSetStaged, TypeOK, meta, aux, env
<1>5. ASSUME NEW target \in ClosedStates, ReleaseNativeOwned(h, t, target)
      PROVE  TypeOK'
  <2> DEFINE d == EnsuredDemand(h, "native", now, now, target)
  <2>1. d \in DemandRow
    BY <1>0, EnsuredIsRow DEF Lanes
  <2>2. [d EXCEPT !.state = target, !.updated = now] \in DemandRow
    BY <1>0, <2>1, DemandRowUpdates
  <2>3. demands' \in [Holders -> DemandRow \cup {Null}]
    BY <1>5, <2>2 DEF ReleaseNativeOwned, TypeOK
  <2>4. permits' \in [Holders -> PermitRow \cup {Null}]
    BY <1>5 DEF ReleaseNativeOwned, TypeOK
  <2>5. sequence' \in Nat
    BY <1>5, SequenceAfterNat DEF ReleaseNativeOwned, TypeOK
  <2> QED
    BY <1>5, <2>3, <2>4, <2>5 DEF ReleaseNativeOwned, TypeOK, meta, env
<1>6. ASSUME NEW lane \in LanesOf[h], ClaimRecordedTerminalCleanup(h, lane, t, p)
      PROVE  TypeOK'
  <2>1. lane \in Lanes
    BY HoldersAssumption
  <2>2. ASSUME Owns(h, t)
        PROVE  [permits[h] EXCEPT !.state = "cleaning", !.gen = generation, !.pid = p]
                   \in PermitRow
    <3>1. permits[h] \in PermitRow
      BY <2>2 DEF Owns, Held, TypeOK
    <3> QED
      BY <1>0, <3>1, PermitRowUpdates
  <2> DEFINE d == EnsuredDemand(h, lane, now, now, "terminal")
  <2>3. d \in DemandRow
    BY <1>0, <2>1, EnsuredIsRow
  <2>4. [d EXCEPT !.state = "terminal", !.updated = now] \in DemandRow
    BY <1>0, <2>3, DemandRowUpdates
  <2>5. demands' \in [Holders -> DemandRow \cup {Null}]
    BY <1>6, <2>4 DEF ClaimRecordedTerminalCleanup, TypeOK
  <2>6. permits' \in [Holders -> PermitRow \cup {Null}]
    BY <1>6, <2>2 DEF ClaimRecordedTerminalCleanup, TypeOK
  <2>7. sequence' \in Nat /\ cleanupReleases' \in SUBSET (Holders \X Token)
    BY <1>6, SequenceAfterNat DEF ClaimRecordedTerminalCleanup, TypeOK
  <2> QED
    BY <1>6, <2>5, <2>6, <2>7 DEF ClaimRecordedTerminalCleanup, TypeOK, meta, env
<1> QED
  BY <1>1, <1>2, <1>3, <1>4, <1>5, <1>6 DEF OwnedCall

\* The demands a reconciliation repairs are finitely many.
LEMMA FiniteHolders ==
    ASSUME NEW S \in SUBSET Holders
    PROVE  IsFiniteSet(S) /\ Cardinality(S) \in Nat
  BY HoldersAssumption, FS_Subset, FS_CardinalityType

\* A reconciliation touches the demands of held permits only.
LEMMA RepairedAreHeld ==
    ASSUME NEW observed \in SUBSET Holders,
           NEW seen \in [observed -> ObservationKinds], Reconcile(seen)
    PROVE  \A h \in Repaired(seen) : Held(h)
<1>1. \A h \in observed : Accepts(h, seen[h])
  BY DEF Reconcile
<1>2. \A h \in observed : seen[h] \in {"alive", "rotation"} => Held(h)
  BY <1>1 DEF Accepts
<1> QED
  BY <1>2 DEF Repaired, Lost, HeldSet

\* Reconciliation keeps the types.
LEMMA ReconcileTypeOK ==
    ASSUME TypeOK, NEW observed \in SUBSET Holders,
           NEW seen \in [observed -> ObservationKinds], Reconcile(seen)
    PROVE  TypeOK'
<1>1. DOMAIN seen = observed
  OBVIOUS
<1>2. /\ Lost(observed) \subseteq Holders
      /\ Repaired(seen) \subseteq Holders
      /\ Undemanded(seen) \subseteq Holders
  BY <1>1 DEF Lost, HeldSet, Repaired, Undemanded
<1>3. Cardinality(Undemanded(seen)) \in Nat
  BY <1>2, FiniteHolders
<1>4. \A h \in Repaired(seen) : permits[h] \in PermitRow
  BY <1>2, RepairedAreHeld DEF Held, TypeOK
<1>5. permits' \in [Holders -> PermitRow \cup {Null}]
  <2>1. \A h \in Lost(observed) :
            [permits[h] EXCEPT !.state = "uncertain", !.gen = generation] \in PermitRow
    BY <1>1, <1>4, PermitRowUpdates DEF TypeOK, PermitStates, Repaired
  <2> QED
    BY <1>1, <2>1 DEF Reconcile, TypeOK
<1>6. demands' \in [Holders -> DemandRow \cup {Null}]
  <2>1. PICK order \in InsertOrders(seen) :
            demands' = [h \in Holders |->
                IF h \in Repaired(seen) THEN RepairedDemand(order, h) ELSE demands[h]]
    BY DEF Reconcile
  <2>2. ASSUME NEW h \in Repaired(seen) PROVE RepairedDemand(order, h) \in DemandRow
    <3>1. permits[h].lane \in Lanes
      BY <1>4 DEF PermitRow
    <3>2. CASE Known(h)
      BY <3>1, <3>2, <1>2, GrantedIsRow DEF RepairedDemand
    <3>3. CASE ~Known(h)
      <4>1. order[h] \in (sequence + 1)..(sequence + Cardinality(Undemanded(seen)))
        BY <3>3 DEF InsertOrders, Undemanded
      <4>2. order[h] \in Nat
        BY <4>1, <1>3 DEF TypeOK
      <4> QED
        BY <3>1, <3>3, <4>2 DEF RepairedDemand, DemandRow, DemandStates, TypeOK
    <3> QED
      BY <3>2, <3>3
  <2> QED
    BY <2>1, <2>2 DEF TypeOK
<1>7. sequence' \in Nat
  <2>1. sequence' = sequence + Cardinality(Undemanded(seen))
    BY DEF Reconcile
  <2> QED
    BY <2>1, <1>3 DEF TypeOK
<1>8. confirmed' \in SUBSET (Holders \X Token)
  <2>1. \A h \in observed \cap HeldSet : permits[h].token \in Token
    BY DEF HeldSet, Held, TypeOK, PermitRow
  <2>2. confirmed' = {<<h, permits[h].token>> : h \in observed \cap HeldSet}
    BY <1>1 DEF Reconcile
  <2> QED
    BY <2>1, <2>2 DEF HeldSet
<1> QED
  BY <1>5, <1>6, <1>7, <1>8 DEF Reconcile, TypeOK, env

\* Every other step keeps the types.
LEMMA OtherStepsTypeOK ==
    ASSUME TypeOK,
           \/ Tick
           \/ \E p \in Pids : StartProcess(p) \/ CrashProcess(p)
           \/ \E n \in Capacities : SetMaxJobs(n) \/ SetMaxJobsIfUnset(n)
           \/ BeginEpoch
           \/ \E p \in Pids : ScaleSetCall(p)
           \/ UNCHANGED ledgerVars
    PROVE  TypeOK'
<1>1. CASE Tick
  BY <1>1 DEF Tick, TypeOK, meta, aux
<1>2. ASSUME NEW p \in Pids, StartProcess(p) \/ CrashProcess(p) PROVE TypeOK'
  BY <1>2 DEF StartProcess, CrashProcess, TypeOK, meta, aux
<1>3. ASSUME NEW n \in Capacities, SetMaxJobs(n) \/ SetMaxJobsIfUnset(n) PROVE TypeOK'
  BY <1>3 DEF SetMaxJobs, SetMaxJobsIfUnset, TypeOK, aux, env
<1>4. CASE BeginEpoch
  BY <1>4 DEF BeginEpoch, TypeOK, aux, env
<1>5. ASSUME NEW p \in Pids, MintToken PROVE TypeOK'
  BY <1>5 DEF MintToken, TypeOK, meta, aux
<1>6. ASSUME NEW p \in Pids, ClaimScaleSetRecovery(p) PROVE TypeOK'
  <2>1. recoveryClaim' \in RecoveryClaim \cup {Null}
    BY <1>6 DEF ClaimScaleSetRecovery, TypeOK, RecoveryClaim, Token
  <2>2. minted' \in Nat
    BY <1>6 DEF ClaimScaleSetRecovery, TypeOK
  <2> QED
    BY <1>6, <2>1, <2>2 DEF ClaimScaleSetRecovery, TypeOK, meta
<1>7. ASSUME NEW p \in Pids, NEW c \in 1..minted, ReleaseRecoveryClaim(p, c) PROVE TypeOK'
  BY <1>7 DEF ReleaseRecoveryClaim, TypeOK, meta, env
<1>8. CASE UNCHANGED ledgerVars
  BY <1>8 DEF ledgerVars, TypeOK, meta, aux, env
<1> QED
  BY <1>1, <1>2, <1>3, <1>4, <1>5, <1>6, <1>7, <1>8 DEF ScaleSetCall

LEMMA NextTypeOK == TypeOK /\ [LedgerNext]_ledgerVars => TypeOK'
<1> SUFFICES ASSUME TypeOK, [LedgerNext]_ledgerVars PROVE TypeOK'
  OBVIOUS
<1>1. ASSUME NEW p \in alive, NEW h \in Holders,
             DemandCall(h) \/ OwnershipCall(h, p) \/ \E t \in 1..minted : OwnedCall(h, t, p)
      PROVE  TypeOK'
  BY <1>1, DemandCallTypeOK, OwnershipCallTypeOK, OwnedCallTypeOK DEF TypeOK, Token
<1>2. ASSUME NEW p \in alive, LedgerCall(p) PROVE TypeOK'
  <2>1. p \in Pids
    BY DEF TypeOK
  <2> QED
    BY <2>1, <1>2, ReconcileTypeOK, OtherStepsTypeOK DEF LedgerCall
<1> QED
  BY <1>1, <1>2, OtherStepsTypeOK DEF LedgerNext

\* Every reachable ledger is well typed: no operation writes a value that the
\* readers of permit_ledger.rs would have to reject as corrupt.
THEOREM LedgerTypeCorrect == LedgerSpec => []TypeOK
  BY InitTypeOK, NextTypeOK, PTL DEF LedgerSpec

-----------------------------------------------------------------------------
(* A permit in use is never also offered *)

\* What HeldIsCommitted says of one holder
Committed(h) ==
    (Held(h) /\ Known(h)) => /\ demands[h].state \in {"granted", "terminal"}
                            /\ demands[h].lane = permits[h].lane

LEMMA CommittedEverywhere == HeldIsCommitted <=> \A h \in Holders : Committed(h)
  BY DEF HeldIsCommitted, Committed, HeldSet

\* A step that leaves the rows of a holder alone leaves it committed.
LEMMA OthersStayCommitted ==
    ASSUME NEW k \in Holders, Committed(k), permits'[k] = permits[k], demands'[k] = demands[k]
    PROVE  Committed(k)'
  BY DEF Committed, Held, Known

\* Lane and state of the row ensure_demand_tx leaves behind
LEMMA EnsuredFacts ==
    ASSUME NEW h \in Holders, NEW lane, NEW first, NEW updated, NEW initial
    PROVE  LET d == EnsuredDemand(h, lane, first, updated, initial)
           IN  /\ Known(h) => d = demands[h]
               /\ ~Known(h) => d.lane = lane /\ d.state = initial
  BY DEF EnsuredDemand

\* The demand that adoption, rotation and reconciliation leave to a held permit
LEMMA GrantedFacts ==
    ASSUME TypeOK, HeldIsCommitted, NEW h \in Holders, Held(h), NEW lane \in Lanes,
           permits[h].lane = lane, DemandLaneAgrees(h, lane)
    PROVE  /\ GrantedDemand(h, lane).state \in {"granted", "terminal"}
           /\ GrantedDemand(h, lane).lane = lane
<1> DEFINE d == EnsuredDemand(h, lane, now, now, "granted")
<1>1. d.state \in {"granted", "terminal"} /\ d.lane = lane
  BY EnsuredFacts, CommittedEverywhere DEF Committed, DemandLaneAgrees
<1> QED
  BY <1>1 DEF GrantedDemand

LEMMA InitCommitted == LedgerInit => HeldIsCommitted
  BY DEF LedgerInit, HeldIsCommitted, HeldSet, Held, Known

LEMMA DemandCallCommitted ==
    ASSUME TypeOK, HeldIsCommitted, NEW h \in Holders, DemandCall(h)
    PROVE  HeldIsCommitted'
<1> SUFFICES ASSUME NEW k \in Holders PROVE Committed(k)'
  BY CommittedEverywhere DEF HeldIsCommitted, Committed, HeldSet, Held, Known
<1>0. Committed(k) /\ Committed(h)
  BY CommittedEverywhere
<1>1. permits' = permits
  BY DEF DemandCall, ObserveDemand, ParkDemand, CancelDemand
<1>2. k # h => demands'[k] = demands[k]
  BY DEF DemandCall, ObserveDemand, ParkDemand, CancelDemand, TypeOK
<1>3. ASSUME NEW lane \in LanesOf[h], NEW first \in 1..now,
             ObserveDemand(h, lane, first, now)
      PROVE  Committed(h)'
  <2> DEFINE d == EnsuredDemand(h, lane, first, now,
                                IF Held(h) THEN "granted" ELSE "eligible")
  <2>1. ASSUME Held(h)
        PROVE  d.state \in {"granted", "terminal"} /\ d.lane = permits[h].lane
    BY <1>0, <1>3, <2>1, EnsuredFacts DEF Committed, ObserveDemand
  <2>2. d \in DemandRow
    BY EnsuredIsRow, HoldersAssumption DEF TypeOK, DemandStates
  <2>3. demands'[h] = IF d.state \in ClosedStates THEN d
                      ELSE [d EXCEPT !.state = RevivedByOffer(d.state), !.updated = now]
    BY <1>3 DEF ObserveDemand, TypeOK
  <2>4. demands'[h].lane = d.lane
    BY <2>2, <2>3 DEF DemandRow
  <2>5. d.state \in {"granted", "terminal"} => demands'[h].state = d.state
    BY <2>2, <2>3 DEF RevivedByOffer, DemandRow
  <2> QED
    BY <1>1, <2>1, <2>4, <2>5 DEF Committed, Held
<1>4. ASSUME ParkDemand(h) \/ CancelDemand(h) PROVE Committed(h)'
  BY <1>0, <1>1, <1>4 DEF Committed, ParkDemand, CancelDemand, Held
<1>5. Committed(h)'
  BY <1>3, <1>4 DEF DemandCall
<1> QED
  BY <1>0, <1>1, <1>2, <1>5, OthersStayCommitted

\* The row an acquisition queues has the lane of the caller.
LEMMA RequeuedFacts ==
    ASSUME TypeOK, NEW h \in Holders, NEW lane \in Lanes, DemandLaneAgrees(h, lane)
    PROVE  /\ Requeued(h, lane)[h] \in DemandRow
           /\ Requeued(h, lane)[h].lane = lane
           /\ Requeued(h, lane)[h].state = "eligible"
           /\ \A k \in Holders \ {h} : Requeued(h, lane)[k] = demands[k]
<1> DEFINE d == EnsuredDemand(h, lane, now, now, "eligible")
<1>1. d \in DemandRow /\ d.lane = lane
  BY EnsuredIsRow, EnsuredFacts DEF TypeOK, DemandStates, DemandLaneAgrees
<1>2. [d EXCEPT !.state = "eligible", !.updated = now] \in DemandRow
  BY <1>1, DemandRowUpdates DEF TypeOK, DemandStates
<1>3. Requeued(h, lane)[h] = [d EXCEPT !.state = "eligible", !.updated = now]
  BY DEF Requeued, TypeOK
<1>4. [d EXCEPT !.state = "eligible", !.updated = now].lane = lane
  BY <1>1 DEF DemandRow
<1>5. [d EXCEPT !.state = "eligible", !.updated = now].state = "eligible"
  BY <1>1 DEF DemandRow
<1> QED
  BY <1>2, <1>3, <1>4, <1>5 DEF Requeued, TypeOK

LEMMA OwnershipCallCommitted ==
    ASSUME TypeOK, HeldIsCommitted, NEW h \in Holders, NEW p \in Pids, OwnershipCall(h, p)
    PROVE  HeldIsCommitted'
<1> SUFFICES ASSUME NEW k \in Holders PROVE Committed(k)'
  BY CommittedEverywhere DEF HeldIsCommitted, Committed, HeldSet, Held, Known
<1>0. Committed(k) /\ Committed(h) /\ LanesOf[h] \subseteq Lanes
  BY CommittedEverywhere, HoldersAssumption
<1>1. ASSUME NEW lane \in Lanes, NEW g \in Nat,
             AcquireFull(h, lane, g) \/ AcquireDeferred(h, lane, g)
      PROVE  Committed(k)'
  <2>1. ~Held(h) /\ permits' = permits /\ demands' = Requeued(h, lane) /\ DemandLaneAgrees(h, lane)
    BY <1>1 DEF AcquireFull, AcquireDeferred, MayAttempt
  <2>2. k # h => demands'[k] = demands[k]
    BY <2>1, RequeuedFacts
  <2> QED
    BY <1>0, <2>1, <2>2, OthersStayCommitted DEF Committed, Held
<1>2. ASSUME NEW lane \in Lanes, NEW s, NEW g, NEW t, Grant(h, lane, s, g, p, t)
      PROVE  Committed(k)'
  <2>1. DemandLaneAgrees(h, lane)
    BY <1>2 DEF Grant, MayAttempt
  <2>2. k # h => permits'[k] = permits[k] /\ demands'[k] = demands[k]
    BY <1>2, <2>1, RequeuedFacts DEF Grant, TypeOK
  <2>3. permits'[h].lane = lane
    BY <1>2 DEF Grant, TypeOK
  <2>4. demands'[h] = [Requeued(h, lane)[h] EXCEPT !.state = "granted"]
    BY <1>2, RequeuedIsTyped DEF Grant
  <2>5. demands'[h].state = "granted" /\ demands'[h].lane = lane
    BY <2>1, <2>4, RequeuedFacts DEF DemandRow
  <2> QED
    BY <1>0, <2>2, <2>3, <2>5, OthersStayCommitted DEF Committed
<1>3. ASSUME NEW lane \in Lanes, NEW s, NEW g, AdoptForRedelivery(h, lane, s, g, p)
      PROVE  Committed(k)'
  <2>1. Held(h) /\ permits[h].lane = lane /\ DemandLaneAgrees(h, lane)
    BY <1>3 DEF AdoptForRedelivery, Adoptable
  <2>2. permits[h] \in PermitRow
    BY <2>1 DEF Held, TypeOK
  <2>3. permits'[h].lane = lane
    BY <1>3, <2>1, <2>2 DEF AdoptForRedelivery, TypeOK, PermitRow
  <2>4. demands'[h] = GrantedDemand(h, lane)
    BY <1>3 DEF AdoptForRedelivery, TypeOK
  <2>5. k # h => permits'[k] = permits[k] /\ demands'[k] = demands[k]
    BY <1>3 DEF AdoptForRedelivery, TypeOK
  <2> QED
    BY <1>0, <2>1, <2>3, <2>4, <2>5, GrantedFacts, OthersStayCommitted DEF Committed
<1>4. ASSUME NEW s, NEW g, NEW prevPid, NEW prev, NEW target, NEW claim,
             RotateScaleSetAttempt(h, s, g, prevPid, prev, target, claim, p)
      PROVE  Committed(k)'
  <2>1. Held(h) /\ permits[h].lane = "scaleset" /\ DemandLaneAgrees(h, "scaleset")
    BY <1>4 DEF RotateScaleSetAttempt
  <2>2. permits[h] \in PermitRow
    BY <2>1 DEF Held, TypeOK
  <2>3. permits'[h].lane = "scaleset"
    BY <1>4, <2>1, <2>2 DEF RotateScaleSetAttempt, TypeOK, PermitRow
  <2>4. demands'[h] = GrantedDemand(h, "scaleset")
    BY <1>4 DEF RotateScaleSetAttempt, TypeOK
  <2>5. k # h => permits'[k] = permits[k] /\ demands'[k] = demands[k]
    BY <1>4 DEF RotateScaleSetAttempt, TypeOK
  <2> QED
    BY <1>0, <2>1, <2>3, <2>4, <2>5, GrantedFacts, OthersStayCommitted DEF Committed, Lanes
<1> QED
  <2>1. 0..generation \subseteq Nat
    BY DEF TypeOK
  <2> QED
    BY <1>0, <1>1, <1>2, <1>3, <1>4, <2>1
       DEF OwnershipCall, AcquireAttempt, AcquireStagedAttempt, Lanes

LEMMA OwnedCallCommitted ==
    ASSUME TypeOK, HeldIsCommitted, NEW h \in Holders, NEW t, NEW p, OwnedCall(h, t, p)
    PROVE  HeldIsCommitted'
<1> SUFFICES ASSUME NEW k \in Holders PROVE Committed(k)'
  BY CommittedEverywhere DEF HeldIsCommitted, Committed, HeldSet, Held, Known
<1>0. Committed(k) /\ Committed(h)
  BY CommittedEverywhere
<1>a. Held(h) => permits[h] \in PermitRow
  BY DEF Held, TypeOK
<1>b. Known(h) => demands[h] \in DemandRow
  BY DEF Known, TypeOK
<1>1. ASSUME NEW g, NEW s, TransitionOwned(h, s, g, t, p) PROVE Committed(k)'
  <2>1. permits'[h].lane = permits[h].lane
    BY <1>1, <1>a DEF TransitionOwned, Owns, TypeOK, PermitRow
  <2>2. Held(h) /\ demands' = demands /\ (k # h => permits'[k] = permits[k])
    BY <1>1 DEF TransitionOwned, Owns, TypeOK
  <2> QED
    BY <1>0, <2>1, <2>2, OthersStayCommitted DEF Committed, Known
<1>2. ASSUME NEW g, RetainUncertain(h, g, t) \/ RetainRecordedFailure(h, g, t)
      PROVE  Committed(k)'
  <2>1. Held(h)
    BY <1>2 DEF RetainUncertain, RetainRecordedFailure, Owns
  <2>2. permits'[h].lane = permits[h].lane
    BY <1>2, <1>a, <2>1 DEF RetainUncertain, RetainRecordedFailure, TypeOK, PermitRow
  <2>3. demands'[h] = IF Known(h) THEN TerminalIfOpen(demands[h]) ELSE demands[h]
    BY <1>2 DEF RetainUncertain, RetainRecordedFailure, TypeOK
  <2>4. k # h => permits'[k] = permits[k] /\ demands'[k] = demands[k]
    BY <1>2 DEF RetainUncertain, RetainRecordedFailure, TypeOK
  <2>5. Known(h) => demands'[h].state = "terminal" /\ demands'[h].lane = demands[h].lane
    BY <1>0, <1>b, <2>1, <2>3 DEF TerminalIfOpen, DemandRow, Committed
  <2>6. ~Known(h) => ~Known(h)'
    BY <2>3 DEF Known
  <2> QED
    BY <1>0, <2>1, <2>2, <2>4, <2>5, <2>6, OthersStayCommitted DEF Committed
<1>3. ASSUME RetainUncertainAfterCleanup(h, t, p) PROVE Committed(k)'
  <2> DEFINE d == EnsuredDemand(h, "native", now, now, "granted")
  <2>1. Held(h) /\ permits[h].lane = "native" /\ DemandLaneAgrees(h, "native")
    BY <1>3 DEF RetainUncertainAfterCleanup, Owns
  <2>2. permits'[h].lane = permits[h].lane
    BY <1>3, <1>a, <2>1 DEF RetainUncertainAfterCleanup, TypeOK, PermitRow
  <2>3. demands'[h] = IF d.state = "cancelled" THEN d
                      ELSE [d EXCEPT !.state = "terminal", !.updated = now]
    BY <1>3 DEF RetainUncertainAfterCleanup, TypeOK
  <2>4. d \in DemandRow /\ d.lane = "native" /\ d.state # "cancelled"
    BY <1>0, <2>1, EnsuredIsRow, EnsuredFacts
       DEF TypeOK, DemandStates, Lanes, DemandLaneAgrees, Committed
  <2>5. demands'[h].state = "terminal" /\ demands'[h].lane = "native"
    BY <2>3, <2>4 DEF DemandRow
  <2>6. k # h => permits'[k] = permits[k] /\ demands'[k] = demands[k]
    BY <1>3 DEF RetainUncertainAfterCleanup, TypeOK
  <2> QED
    BY <1>0, <2>1, <2>2, <2>5, <2>6, OthersStayCommitted DEF Committed
<1>4. ASSUME NEW target,
             \/ ReleaseOwned(h, t, target)
             \/ ReleaseScaleSetStaged(h, t, target)
             \/ ReleaseNativeOwned(h, t, target) /\ Owns(h, t)
      PROVE  Committed(k)'
  <2>1. ~Held(h)'
    BY <1>4 DEF ReleaseOwned, ReleaseScaleSetStaged, ReleaseNativeOwned, TypeOK, Held
  <2>2. k # h => permits'[k] = permits[k] /\ demands'[k] = demands[k]
    BY <1>4 DEF ReleaseOwned, ReleaseScaleSetStaged, ReleaseNativeOwned, TypeOK
  <2> QED
    BY <1>0, <2>1, <2>2, OthersStayCommitted DEF Committed
<1>5. ASSUME NEW target, ReleaseNativeOwned(h, t, target), ~Owns(h, t) PROVE Committed(k)'
  <2>1. permits' = permits /\ demands' = demands
    BY <1>5 DEF ReleaseNativeOwned
  <2> QED
    BY <1>0, <2>1, OthersStayCommitted
<1>6. ASSUME NEW lane, ClaimRecordedTerminalCleanup(h, lane, t, p) PROVE Committed(k)'
  <2>1. CASE Owns(h, t)
    <3>1. Held(h)
      BY <2>1 DEF Owns
    <3>2. permits'[h].lane = permits[h].lane
      BY <1>6, <1>a, <3>1 DEF ClaimRecordedTerminalCleanup, RecordedRelease, TypeOK, PermitRow
    <3>3. demands' = demands /\ (k # h => permits'[k] = permits[k])
      BY <1>6, <3>1 DEF ClaimRecordedTerminalCleanup, RecordedRelease, TypeOK
    <3> QED
      BY <1>0, <3>1, <3>2, <3>3, OthersStayCommitted DEF Committed, Known
  <2>2. CASE ~Owns(h, t)
    <3>1. permits' = permits /\ ~Held(h) /\ (k # h => demands'[k] = demands[k])
      BY <1>6, <2>2 DEF ClaimRecordedTerminalCleanup, RecordedRelease, TypeOK
    <3> QED
      BY <1>0, <3>1, OthersStayCommitted DEF Committed, Held
  <2> QED
    BY <2>1, <2>2
<1> QED
  BY <1>1, <1>2, <1>3, <1>4, <1>5, <1>6 DEF OwnedCall

LEMMA ReconcileCommitted ==
    ASSUME TypeOK, HeldIsCommitted, NEW observed \in SUBSET Holders,
           NEW seen \in [observed -> ObservationKinds], Reconcile(seen)
    PROVE  HeldIsCommitted'
<1> SUFFICES ASSUME NEW k \in Holders PROVE Committed(k)'
  BY CommittedEverywhere DEF HeldIsCommitted, Committed, HeldSet, Held, Known
<1>0. Committed(k)
  BY CommittedEverywhere
<1>1. PICK order \in InsertOrders(seen) :
          demands' = [h \in Holders |->
              IF h \in Repaired(seen) THEN RepairedDemand(order, h) ELSE demands[h]]
  BY DEF Reconcile
<1>2. Held(k) => permits[k] \in PermitRow
  BY DEF Held, TypeOK
<1>3. Held(k)' => Held(k) /\ permits'[k].lane = permits[k].lane
  <2>1. permits'[k] = IF k \in Lost(DOMAIN seen)
                      THEN [permits[k] EXCEPT !.state = "uncertain", !.gen = generation]
                      ELSE permits[k]
    BY DEF Reconcile
  <2>2. k \in Lost(DOMAIN seen) => Held(k)
    BY DEF Lost, HeldSet
  <2> QED
    BY <1>2, <2>1, <2>2 DEF PermitRow, Held
<1>4. CASE k \notin Repaired(seen)
  <2>1. demands'[k] = demands[k]
    BY <1>1, <1>4
  <2> QED
    BY <1>0, <1>3, <2>1 DEF Committed, Known
<1>5. CASE k \in Repaired(seen)
  <2>1. demands'[k] = RepairedDemand(order, k) /\ Held(k)
    BY <1>1, <1>5, RepairedAreHeld
  <2>2. permits[k].lane \in Lanes /\ DemandLaneAgrees(k, permits[k].lane)
    BY <1>0, <1>2, <2>1 DEF Committed, DemandLaneAgrees, PermitRow
  <2> QED
    BY <1>3, <2>1, <2>2, GrantedFacts DEF RepairedDemand, Committed
<1> QED
  BY <1>4, <1>5

LEMMA NextCommitted ==
    ASSUME TypeOK, HeldIsCommitted, [LedgerNext]_ledgerVars
    PROVE  HeldIsCommitted'
<1>1. ASSUME permits' = permits, demands' = demands PROVE HeldIsCommitted'
  BY <1>1 DEF HeldIsCommitted, HeldSet, Held, Known
<1>2. ASSUME NEW p \in alive, NEW h \in Holders,
             DemandCall(h) \/ OwnershipCall(h, p) \/ \E t \in 1..minted : OwnedCall(h, t, p)
      PROVE  HeldIsCommitted'
  BY <1>2, DemandCallCommitted, OwnershipCallCommitted, OwnedCallCommitted DEF TypeOK
<1>3. ASSUME NEW p \in alive, LedgerCall(p) PROVE HeldIsCommitted'
  BY <1>1, <1>3, ReconcileCommitted
     DEF LedgerCall, SetMaxJobs, SetMaxJobsIfUnset, BeginEpoch, ScaleSetCall, MintToken,
         ClaimScaleSetRecovery, ReleaseRecoveryClaim
<1> QED
  BY <1>1, <1>2, <1>3 DEF LedgerNext, Tick, StartProcess, CrashProcess, ledgerVars

\* In every reachable ledger the demand of a held permit is granted or terminal
\* and of the permit's lane, so no job is both in use and queued for admission.
THEOREM HeldNeverOffered == LedgerSpec => []HeldIsCommitted
<1>1. LedgerInit => HeldIsCommitted
  BY InitCommitted
<1>2. TypeOK /\ HeldIsCommitted /\ [LedgerNext]_ledgerVars => HeldIsCommitted'
  BY NextCommitted
<1> QED
  BY <1>1, <1>2, LedgerTypeCorrect, PTL DEF LedgerSpec

=============================================================================
