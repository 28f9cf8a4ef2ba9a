------------------------ MODULE PermitPoolRefinement ------------------------
(***************************************************************************)
(* The permit ledger implements the abstract pool.  Held rows are the      *)
(* permits out, max_jobs the capacity, and a demand's state the phase of   *)
(* its job; tokens, epochs, ages and markers are invisible to the pool.    *)
(***************************************************************************)
EXTENDS PermitLedgerProofs

PhaseMap == [h \in Holders |-> PhaseOf(h)]

\* What the pool sees of a ledger step
PoolStep == Pool!PoolNext \/ UNCHANGED Pool!poolVars

\* How one operation may move one job's phase
PhaseAdvances(h) ==
    \/ PhaseOf(h)' = PhaseOf(h)
    \/ PhaseOf(h) = "unknown" /\ PhaseOf(h)' = "open"
    \/ PhaseOf(h)' = "closed"

\* A step that keeps all permits and moves one job forward is Admit or Close.
LEMMA PhaseStep ==
    ASSUME NEW h \in Holders, HeldSet' = HeldSet, maxJobs' = maxJobs,
           \A k \in Holders \ {h} : PhaseOf(k)' = PhaseOf(k), PhaseAdvances(h)
    PROVE  PoolStep
<1>1. PhaseMap' = [PhaseMap EXCEPT ![h] = PhaseOf(h)']
  BY DEF PhaseMap
<1>2. CASE PhaseOf(h)' = PhaseOf(h)
  <2>1. PhaseMap' = PhaseMap
    BY <1>2 DEF PhaseMap
  <2> QED
    BY <2>1 DEF PoolStep, Pool!poolVars, PhaseMap
<1>3. CASE PhaseOf(h) = "unknown" /\ PhaseOf(h)' = "open"
  <2>1. PhaseMap' = [k \in Holders |-> IF k \in {h} THEN "open" ELSE PhaseMap[k]]
    BY <1>3 DEF PhaseMap
  <2>2. Pool!Admit({h})
    BY <1>3, <2>1 DEF Pool!Admit, PhaseMap
  <2> QED
    BY <2>2 DEF PoolStep, Pool!PoolNext
<1>4. CASE PhaseOf(h)' = "closed"
  <2>1. Pool!Close(h)
    BY <1>1, <1>4 DEF Pool!Close, PhaseMap
  <2> QED
    BY <2>1 DEF PoolStep, Pool!PoolNext
<1> QED
  BY <1>2, <1>3, <1>4 DEF PhaseAdvances

\* Only the rows of h change in an operation on h.
OnlyRowsOf(h) ==
    /\ maxJobs' = maxJobs
    /\ \A k \in Holders \ {h} : permits'[k] = permits[k] /\ demands'[k] = demands[k]

LEMMA OthersKeepPhase ==
    ASSUME NEW h \in Holders, OnlyRowsOf(h)
    PROVE  \A k \in Holders \ {h} : PhaseOf(k)' = PhaseOf(k) /\ (Held(k)' <=> Held(k))
  BY DEF OnlyRowsOf, PhaseOf, Known, Closed, Held

\* An operation that neither takes nor frees h's permit
LEMMA KeepsPermit ==
    ASSUME NEW h \in Holders, OnlyRowsOf(h), Held(h)' <=> Held(h), PhaseAdvances(h)
    PROVE  PoolStep
<1>1. HeldSet' = HeldSet
  BY OthersKeepPhase DEF HeldSet
<1> QED
  BY <1>1, OthersKeepPhase, PhaseStep DEF OnlyRowsOf

\* An operation that frees h's permit
LEMMA FreesPermit ==
    ASSUME NEW h \in Holders, OnlyRowsOf(h), Held(h), ~Held(h)',
           PhaseOf(h)' = PhaseOf(h) \/ PhaseOf(h)' = "closed"
    PROVE  PoolStep
<1>1. h \in HeldSet /\ HeldSet' = HeldSet \ {h}
  BY OthersKeepPhase DEF HeldSet
<1>2. PhaseMap' = [PhaseMap EXCEPT ![h] = PhaseOf(h)']
  BY OthersKeepPhase DEF PhaseMap
<1>3. PhaseMap' = PhaseMap \/ PhaseMap' = [PhaseMap EXCEPT ![h] = "closed"]
  BY <1>2 DEF PhaseMap
<1>4. Pool!TakeBack(h)
  BY <1>1, <1>3 DEF Pool!TakeBack, PhaseMap, OnlyRowsOf
<1> QED
  BY <1>4 DEF PoolStep, Pool!PoolNext

\* The pool counts its permits as the ledger counts its rows.
LEMMA PoolCountsAlike == Pool!Cardinality(HeldSet) = Cardinality(HeldSet)
  BY Zenon DEF Pool!Cardinality, Cardinality

\* The granting outcome of an acquisition gives out a free permit.
LEMMA GrantGives ==
    ASSUME TypeOK, NEW h \in Holders, NEW lane \in Lanes, NEW s \in PermitStates,
           NEW g \in Nat, NEW p \in Pids, NEW t \in Token, Grant(h, lane, s, g, p, t)
    PROVE  PoolStep
<1> DEFINE row == [lane |-> lane, state |-> s, gen |-> g, pid |-> p, token |-> t,
                   rotation |-> Null]
<1>1. DemandLaneAgrees(h, lane) /\ ~Held(h) /\ ~Closed(h) /\ maxJobs # Null /\ Occupied < maxJobs
  BY DEF Grant, MayAttempt
<1>2. OnlyRowsOf(h)
  BY <1>1, RequeuedFacts DEF Grant, TypeOK, OnlyRowsOf, meta
<1>3. permits'[h] = row /\ demands'[h] = [Requeued(h, lane)[h] EXCEPT !.state = "granted"]
  BY RequeuedIsTyped DEF Grant, TypeOK
<1>4. demands'[h] \in DemandRow /\ demands'[h].state = "granted"
  BY <1>1, <1>3, RequeuedFacts DEF DemandRow, DemandStates
<1>5. PhaseOf(h)' = "open"
  BY <1>4, NullAssumption DEF PhaseOf, Known, Closed, ClosedStates
<1>6. row \in PermitRow /\ row # Null
  BY NullAssumption DEF PermitRow
<1>7. HeldSet' = HeldSet \cup {h}
  BY <1>2, <1>3, <1>6, OthersKeepPhase DEF HeldSet, Held
<1>8. PhaseMap' = [PhaseMap EXCEPT ![h] = "open"]
  BY <1>2, <1>5, OthersKeepPhase DEF PhaseMap
<1>9. Pool!Give(h)
  <2>1. Pool!Cardinality(HeldSet) < maxJobs /\ h \notin HeldSet
    BY <1>1, PoolCountsAlike DEF Occupied, HeldSet
  <2>2. PhaseMap[h] # "closed"
    BY <1>1 DEF PhaseMap, PhaseOf
  <2> QED
    BY <1>1, <1>2, <1>7, <1>8, <2>1, <2>2 DEF Pool!Give, PhaseMap, OnlyRowsOf
<1> QED
  BY <1>9 DEF PoolStep, Pool!PoolNext

\* A queueing outcome, an adoption or a rotation keeps the permits as they are.
LEMMA OwnershipCallStep ==
    ASSUME TypeOK, NEW h \in Holders, NEW p \in Pids, OwnershipCall(h, p)
    PROVE  PoolStep
<1>0. /\ LanesOf[h] \subseteq Lanes
      /\ GrantStates \cup {"cleaning", "uncertain"} \subseteq PermitStates
  BY HoldersAssumption, GrantStatesAssumption DEF PermitStates
<1>a. 0..generation \subseteq Nat /\ 1..minted \subseteq Token /\ minted + 1 \in Token
  BY DEF TypeOK, Token
<1>1. ASSUME NEW lane \in Lanes, NEW g, AcquireFull(h, lane, g) \/ AcquireDeferred(h, lane, g)
      PROVE  PoolStep
  <2>1. /\ DemandLaneAgrees(h, lane) /\ ~Closed(h)
        /\ permits' = permits /\ demands' = Requeued(h, lane) /\ maxJobs' = maxJobs
    BY <1>1 DEF AcquireFull, AcquireDeferred, MayAttempt, meta
  <2>2. OnlyRowsOf(h)
    BY <2>1, RequeuedFacts DEF OnlyRowsOf
  <2>3. PhaseOf(h)' = "open"
    BY <2>1, RequeuedFacts, NullAssumption DEF PhaseOf, Known, Closed, ClosedStates
  <2>4. PhaseAdvances(h)
    BY <2>1, <2>3 DEF PhaseAdvances, PhaseOf
  <2> QED
    BY <2>1, <2>2, <2>4, KeepsPermit DEF Held
<1>2. ASSUME NEW d \in DemandRow, NEW r \in PermitRow, OnlyRowsOf(h), Held(h),
             permits'[h] = r, demands'[h] = d, Known(h) => (d.state \in ClosedStates <=> Closed(h)),
             ~Known(h) => d.state = "granted"
      PROVE  PoolStep
  <2>1. Held(h)' /\ Known(h)'
    BY <1>2, NullAssumption DEF Held, Known
  <2>2. PhaseAdvances(h)
    BY <1>2, <2>1 DEF PhaseAdvances, PhaseOf, Closed, ClosedStates
  <2> QED
    BY <1>2, <2>1, <2>2, KeepsPermit
<1>3. ASSUME NEW lane \in Lanes PROVE
          /\ GrantedDemand(h, lane) \in DemandRow
          /\ Known(h) => (GrantedDemand(h, lane).state \in ClosedStates <=> Closed(h))
          /\ ~Known(h) => GrantedDemand(h, lane).state = "granted"
  <2>1. GrantedDemand(h, lane) \in DemandRow
    BY GrantedIsRow
  <2>2. EnsuredDemand(h, lane, now, now, "granted") \in DemandRow
    BY EnsuredIsRow DEF TypeOK, DemandStates
  <2> QED
    BY <2>1, <2>2, EnsuredFacts DEF GrantedDemand, Closed, ClosedStates, DemandRow
<1>4. ASSUME NEW lane \in Lanes, NEW s \in PermitStates, NEW g \in Nat,
             AdoptForRedelivery(h, lane, s, g, p)
      PROVE  PoolStep
  <2>1. Held(h) /\ permits[h] \in PermitRow
    BY <1>4 DEF AdoptForRedelivery, Adoptable, Held, TypeOK
  <2>2. OnlyRowsOf(h) /\ demands'[h] = GrantedDemand(h, lane)
    BY <1>4 DEF AdoptForRedelivery, OnlyRowsOf, TypeOK, meta
  <2>3. permits'[h] \in PermitRow
    <3>1. permits'[h] = [permits[h] EXCEPT !.state = s, !.gen = g, !.pid = p,
                                           !.token = minted + 1, !.rotation = Null]
      BY <1>4 DEF AdoptForRedelivery, TypeOK
    <3>2. [permits[h] EXCEPT !.state = s, !.gen = g, !.pid = p,
                             !.token = minted + 1, !.rotation = Null] \in PermitRow
      BY <2>1, <1>a, PermitRowUpdates
    <3> QED
      BY <3>1, <3>2
  <2> QED
    BY <1>2, <1>3, <2>1, <2>2, <2>3
<1>5. ASSUME NEW s \in PermitStates, NEW g \in Nat, NEW prevPid \in Pids,
             NEW prev \in 1..minted \cup {Null}, NEW target \in 1..minted,
             NEW claim \in 1..minted,
             RotateScaleSetAttempt(h, s, g, prevPid, prev, target, claim, p)
      PROVE  PoolStep
  <2>1. Held(h) /\ permits[h] \in PermitRow
    BY <1>5 DEF RotateScaleSetAttempt, Held, TypeOK
  <2>2. OnlyRowsOf(h) /\ demands'[h] = GrantedDemand(h, "scaleset")
    BY <1>5 DEF RotateScaleSetAttempt, OnlyRowsOf, TypeOK, meta
  <2>3. permits'[h] \in PermitRow
    <3> DEFINE x == [claim |-> claim, pid |-> prevPid, token |-> prev]
    <3>1. permits'[h] = [permits[h] EXCEPT !.state = s, !.gen = g, !.pid = p,
                                           !.token = target, !.rotation = x]
      BY <1>5 DEF RotateScaleSetAttempt, TypeOK
    <3>2. x \in Rotation
      BY <1>a DEF Rotation
    <3>3. [permits[h] EXCEPT !.state = s, !.gen = g, !.pid = p,
                             !.token = target, !.rotation = x] \in PermitRow
      BY <2>1, <3>2, <1>a, PermitRowUpdates
    <3> QED
      BY <3>1, <3>3
  <2> QED
    BY <1>2, <1>3, <2>1, <2>2, <2>3 DEF Lanes
<1> QED
  BY <1>0, <1>a, <1>1, <1>4, <1>5, GrantGives
     DEF OwnershipCall, AcquireAttempt, AcquireStagedAttempt, Lanes

\* A call on the queue opens a job or closes it, and touches no permit.
LEMMA DemandCallStep ==
    ASSUME TypeOK, NEW h \in Holders, DemandCall(h)
    PROVE  PoolStep
<1>1. permits' = permits /\ OnlyRowsOf(h)
  BY DEF DemandCall, ObserveDemand, ParkDemand, CancelDemand, TypeOK, OnlyRowsOf, meta
<1>2. ASSUME NEW lane \in LanesOf[h], NEW first \in 1..now,
             ObserveDemand(h, lane, first, now)
      PROVE  PhaseAdvances(h)
  <2> DEFINE initial == IF Held(h) THEN "granted" ELSE "eligible"
             d == EnsuredDemand(h, lane, first, now, initial)
  <2>1. d \in DemandRow
    BY EnsuredIsRow, HoldersAssumption DEF TypeOK, DemandStates
  <2>2. /\ Known(h) => d = demands[h]
        /\ ~Known(h) => d.state \in {"granted", "eligible"}
    BY EnsuredFacts
  <2>3. demands'[h] = IF d.state \in ClosedStates THEN d
                      ELSE [d EXCEPT !.state = RevivedByOffer(d.state), !.updated = now]
    BY <1>2 DEF ObserveDemand, TypeOK
  <2> HIDE DEF d
  <2>4. demands'[h] \in DemandRow /\ (demands'[h].state \in ClosedStates <=> d.state \in ClosedStates)
    <3>1. CASE d.state \in ClosedStates
      BY <2>1, <2>3, <3>1
    <3>2. CASE d.state \notin ClosedStates
      <4>1. RevivedByOffer(d.state) \in DemandStates \ ClosedStates
        BY <2>1, <3>2 DEF RevivedByOffer, DemandRow, DemandStates, ClosedStates
      <4>2. [d EXCEPT !.state = RevivedByOffer(d.state), !.updated = now] \in DemandRow
        BY <2>1, <4>1, DemandRowUpdates DEF TypeOK
      <4>3. [d EXCEPT !.state = RevivedByOffer(d.state), !.updated = now].state
                = RevivedByOffer(d.state)
        BY <2>1 DEF DemandRow
      <4> QED
        BY <2>3, <3>2, <4>1, <4>2, <4>3
    <3> QED
      BY <3>1, <3>2
  <2> QED
    BY <2>2, <2>4, NullAssumption DEF PhaseAdvances, PhaseOf, Known, Closed, ClosedStates
<1>3. ASSUME ParkDemand(h) PROVE PhaseAdvances(h)
  <2>1. demands[h] \in DemandRow /\ demands[h].state = "eligible"
    BY <1>3 DEF ParkDemand, Known, TypeOK
  <2>2. demands'[h] = [demands[h] EXCEPT !.state = "waiting", !.updated = now]
    BY <1>3, <2>1 DEF ParkDemand, TypeOK, DemandRow
  <2>3. demands'[h] \in DemandRow /\ demands'[h].state = "waiting"
    BY <2>1, <2>2 DEF DemandRow, DemandStates, TypeOK
  <2> QED
    BY <2>1, <2>3, NullAssumption DEF PhaseAdvances, PhaseOf, Known, Closed, ClosedStates
<1>4. ASSUME CancelDemand(h) PROVE PhaseAdvances(h)
  <2>1. demands[h] \in DemandRow
    BY <1>4 DEF CancelDemand, Known, TypeOK
  <2>2. demands'[h] = [demands[h] EXCEPT !.state = "cancelled", !.updated = now]
    BY <1>4, <2>1 DEF CancelDemand, TypeOK, DemandRow
  <2>3. demands'[h] \in DemandRow /\ demands'[h].state = "cancelled"
    BY <2>1, <2>2 DEF DemandRow, DemandStates, TypeOK
  <2> QED
    BY <2>3, NullAssumption DEF PhaseAdvances, PhaseOf, Known, Closed, ClosedStates
<1> QED
  BY <1>1, <1>2, <1>3, <1>4, KeepsPermit DEF DemandCall, Held

\* A call that carries a token keeps the permit, closes its job, or frees it.
LEMMA OwnedCallStep ==
    ASSUME TypeOK, TypeOK', NEW h \in Holders, NEW t \in Token, NEW p \in Pids,
           OwnedCall(h, t, p)
    PROVE  PoolStep
<1>0. OnlyRowsOf(h)
  <2>1. ASSUME NEW g, NEW s, \/ TransitionOwned(h, s, g, t, p) \/ RetainUncertain(h, g, t)
                             \/ RetainRecordedFailure(h, g, t)
                             \/ RetainUncertainAfterCleanup(h, t, p)
        PROVE  OnlyRowsOf(h)
    BY <2>1 DEF TransitionOwned, RetainUncertain, RetainRecordedFailure,
                RetainUncertainAfterCleanup, TypeOK, OnlyRowsOf, meta
  <2>2. ASSUME NEW target, \/ ReleaseOwned(h, t, target) \/ ReleaseScaleSetStaged(h, t, target)
                           \/ ReleaseNativeOwned(h, t, target)
        PROVE  OnlyRowsOf(h)
    BY <2>2 DEF ReleaseOwned, ReleaseScaleSetStaged, ReleaseNativeOwned, TypeOK, OnlyRowsOf, meta
  <2>3. ASSUME NEW lane, ClaimRecordedTerminalCleanup(h, lane, t, p)
        PROVE  OnlyRowsOf(h)
    BY <2>3 DEF ClaimRecordedTerminalCleanup, TypeOK, OnlyRowsOf, meta
  <2> QED
    BY <2>1, <2>2, <2>3 DEF OwnedCall
<1>a. ASSUME demands'[h] = demands[h] PROVE PhaseOf(h)' = PhaseOf(h)
  BY <1>a DEF PhaseOf, Known, Closed
<1>b. ASSUME NEW d \in DemandRow, NEW s \in ClosedStates,
             demands'[h] = [d EXCEPT !.state = s, !.updated = now]
      PROVE  PhaseOf(h)' = "closed"
  <2>1. demands'[h].state = s
    BY <1>b DEF DemandRow
  <2>2. demands'[h] \in DemandRow
    <3>1. s \in DemandStates /\ now \in Nat
      BY <1>b DEF TypeOK, ClosedStates, DemandStates
    <3>2. [d EXCEPT !.state = s, !.updated = now] \in DemandRow
      BY <1>b, <3>1, DemandRowUpdates
    <3> QED
      BY <1>b, <3>2
  <2> QED
    BY <2>1, <2>2, NullAssumption DEF PhaseOf, Known, Closed
<1>c. \A r \in PermitRow : permits'[h] = r => Held(h)'
  BY NullAssumption DEF Held
<1>d. Known(h) => demands[h] \in DemandRow
  BY DEF Known, TypeOK
<1>e. Held(h) => permits[h] \in PermitRow
  BY DEF Held, TypeOK
<1>f. 0..generation \subseteq Nat /\ generation \in Nat /\ now \in Nat
  BY DEF TypeOK
<1>g. GrantStates \cup {"cleaning", "uncertain"} \subseteq PermitStates
  BY GrantStatesAssumption DEF PermitStates
<1>1. ASSUME NEW g \in 0..generation, NEW s \in GrantStates \cup {"cleaning"},
             TransitionOwned(h, s, g, t, p)
      PROVE  PoolStep
  <2>1. Held(h) /\ demands'[h] = demands[h]
    BY <1>1 DEF TransitionOwned, Owns
  <2>2. permits'[h] = [permits[h] EXCEPT !.state = s, !.gen = g, !.pid = p]
    BY <1>1 DEF TransitionOwned, TypeOK
  <2>3. g \in Nat /\ s \in PermitStates
    BY <1>f, <1>g
  <2>4. [permits[h] EXCEPT !.state = s, !.gen = g, !.pid = p] \in PermitRow
    BY <1>e, <2>1, <2>3, PermitRowUpdates
  <2> QED
    BY <1>0, <1>a, <1>c, <2>1, <2>2, <2>4, KeepsPermit DEF PhaseAdvances
<1>2. ASSUME NEW g \in 0..generation, RetainUncertain(h, g, t) \/ RetainRecordedFailure(h, g, t)
      PROVE  PoolStep
  <2>1. Held(h)
    BY <1>2 DEF RetainUncertain, RetainRecordedFailure, Owns
  <2>2. permits'[h] = [permits[h] EXCEPT !.state = "uncertain", !.gen = g]
    BY <1>2 DEF RetainUncertain, RetainRecordedFailure, TypeOK
  <2>3. g \in Nat /\ "uncertain" \in PermitStates
    BY <1>f, <1>g
  <2>4. [permits[h] EXCEPT !.state = "uncertain", !.gen = g] \in PermitRow
    BY <1>e, <2>1, <2>3, PermitRowUpdates
  <2>5. demands'[h] = IF Known(h) THEN TerminalIfOpen(demands[h]) ELSE demands[h]
    BY <1>2 DEF RetainUncertain, RetainRecordedFailure, TypeOK
  <2>6. PhaseAdvances(h)
    BY <1>a, <1>b, <1>d, <2>5 DEF TerminalIfOpen, PhaseAdvances, ClosedStates
  <2> QED
    BY <1>0, <1>c, <2>1, <2>2, <2>4, <2>6, KeepsPermit
<1>3. ASSUME RetainUncertainAfterCleanup(h, t, p) PROVE PoolStep
  <2> DEFINE d == EnsuredDemand(h, "native", now, now, "granted")
  <2>1. Held(h)
    BY <1>3 DEF RetainUncertainAfterCleanup, Owns
  <2>2. permits'[h] = [permits[h] EXCEPT !.state = "uncertain", !.gen = generation, !.pid = p]
    BY <1>3 DEF RetainUncertainAfterCleanup, TypeOK
  <2>3. [permits[h] EXCEPT !.state = "uncertain", !.gen = generation, !.pid = p] \in PermitRow
    BY <1>e, <1>f, <1>g, <2>1, PermitRowUpdates
  <2>4. d \in DemandRow
    BY <1>f, EnsuredIsRow DEF Lanes, DemandStates
  <2>5. demands'[h] = IF d.state = "cancelled" THEN d
                      ELSE [d EXCEPT !.state = "terminal", !.updated = now]
    BY <1>3 DEF RetainUncertainAfterCleanup, TypeOK
  <2>6. PhaseOf(h)' = "closed"
    <3>1. CASE d.state = "cancelled"
      BY <2>4, <2>5, <3>1, NullAssumption DEF PhaseOf, Known, Closed, ClosedStates
    <3>2. CASE d.state # "cancelled"
      BY <1>b, <2>4, <2>5, <3>2 DEF ClosedStates
    <3> QED
      BY <3>1, <3>2
  <2> QED
    BY <1>0, <1>c, <2>1, <2>2, <2>3, <2>6, KeepsPermit DEF PhaseAdvances
<1>4. ASSUME NEW target \in {"eligible", "cancelled", "terminal"},
             ReleaseOwned(h, t, target) \/ ReleaseScaleSetStaged(h, t, target)
      PROVE  PoolStep
  <2>1. Held(h) /\ permits'[h] = Null
    BY <1>4 DEF ReleaseOwned, ReleaseScaleSetStaged, Owns, TypeOK
  <2>2. \/ demands'[h] = demands[h]
        \/ /\ Known(h)
           /\ demands'[h] = [demands[h] EXCEPT !.state = target, !.updated = now]
           /\ target = "eligible" => MayReopen(demands[h])
    <3>1. CASE ReleaseOwned(h, t, target)
      BY <3>1 DEF ReleaseOwned, TypeOK
    <3>2. CASE ReleaseScaleSetStaged(h, t, target)
      BY <3>2, <1>d DEF ReleaseScaleSetStaged, TypeOK, DemandRow
    <3> QED
      BY <1>4, <3>1, <3>2
  <2>3. CASE target = "eligible" /\ MayReopen(demands[h]) /\ Known(h) /\
             demands'[h] = [demands[h] EXCEPT !.state = target, !.updated = now]
    <3>1. demands'[h] \in DemandRow /\ demands'[h].state = "eligible"
      BY <1>d, <1>f, <2>3 DEF DemandRow, DemandStates
    <3>2. PhaseOf(h)' = PhaseOf(h)
      BY <2>3, <3>1, NullAssumption DEF PhaseOf, Known, Closed, ClosedStates, MayReopen
    <3> QED
      BY <1>0, <2>1, <3>2, FreesPermit DEF Held
  <2>4. CASE target \in ClosedStates /\ Known(h) /\
             demands'[h] = [demands[h] EXCEPT !.state = target, !.updated = now]
    BY <1>0, <1>b, <1>d, <2>1, <2>4, FreesPermit DEF Held
  <2>5. CASE demands'[h] = demands[h]
    BY <1>0, <1>a, <2>1, <2>5, FreesPermit DEF Held
  <2> QED
    BY <2>2, <2>3, <2>4, <2>5 DEF ClosedStates
<1>5. ASSUME NEW target \in ClosedStates, ReleaseNativeOwned(h, t, target) PROVE PoolStep
  <2> DEFINE d == EnsuredDemand(h, "native", now, now, target)
  <2>1. CASE Owns(h, t)
    <3>1. Held(h) /\ permits'[h] = Null
      BY <1>5, <2>1 DEF ReleaseNativeOwned, Owns, TypeOK
    <3>2. demands'[h] = [d EXCEPT !.state = target, !.updated = now]
      BY <1>5, <2>1 DEF ReleaseNativeOwned, TypeOK
    <3>3. d \in DemandRow
      BY <1>f, EnsuredIsRow DEF Lanes, DemandStates, ClosedStates
    <3> QED
      BY <1>0, <1>b, <3>1, <3>2, <3>3, FreesPermit DEF Held
  <2>2. CASE ~Owns(h, t)
    <3>1. permits' = permits /\ demands' = demands
      BY <1>5, <2>2 DEF ReleaseNativeOwned
    <3> QED
      BY <1>0, <1>a, <3>1, KeepsPermit DEF PhaseAdvances, Held
  <2> QED
    BY <2>1, <2>2
<1>6. ASSUME NEW lane \in LanesOf[h], ClaimRecordedTerminalCleanup(h, lane, t, p) PROVE PoolStep
  <2> DEFINE d == EnsuredDemand(h, lane, now, now, "terminal")
  <2>1. CASE Owns(h, t)
    <3>1. Held(h) /\ demands'[h] = demands[h]
      BY <1>6, <2>1 DEF ClaimRecordedTerminalCleanup, RecordedRelease, Owns
    <3>2. permits'[h] = [permits[h] EXCEPT !.state = "cleaning", !.gen = generation, !.pid = p]
      BY <1>6, <2>1 DEF ClaimRecordedTerminalCleanup, RecordedRelease, Owns, TypeOK
    <3>3. [permits[h] EXCEPT !.state = "cleaning", !.gen = generation, !.pid = p] \in PermitRow
      BY <1>e, <1>f, <1>g, <3>1, PermitRowUpdates
    <3> QED
      BY <1>0, <1>a, <1>c, <3>1, <3>2, <3>3, KeepsPermit DEF PhaseAdvances
  <2>2. CASE ~Owns(h, t) /\ demands' = demands
    <3>1. permits' = permits
      BY <1>6, <2>2 DEF ClaimRecordedTerminalCleanup
    <3> QED
      BY <1>0, <1>a, <2>2, <3>1, KeepsPermit DEF PhaseAdvances, Held
  <2>3. CASE ~Owns(h, t) /\ demands' # demands
    <3>1. permits' = permits /\ demands'[h] = [d EXCEPT !.state = "terminal", !.updated = now]
      BY <1>6, <2>3 DEF ClaimRecordedTerminalCleanup, TypeOK
    <3>2. d \in DemandRow
      BY <1>f, EnsuredIsRow, HoldersAssumption DEF DemandStates
    <3> QED
      BY <1>0, <1>b, <3>1, <3>2, KeepsPermit DEF PhaseAdvances, Held, ClosedStates
  <2> QED
    BY <2>1, <2>2, <2>3
<1> QED
  BY <1>1, <1>2, <1>3, <1>4, <1>5, <1>6 DEF OwnedCall

\* A reconciliation admits the jobs whose permits had no demand.
LEMMA ReconcileStep ==
    ASSUME TypeOK, NEW observed \in SUBSET Holders,
           NEW seen \in [observed -> ObservationKinds], Reconcile(seen)
    PROVE  PoolStep
<1>1. PICK order \in InsertOrders(seen) :
          demands' = [h \in Holders |->
              IF h \in Repaired(seen) THEN RepairedDemand(order, h) ELSE demands[h]]
  BY DEF Reconcile
<1>2. maxJobs' = maxJobs
  BY DEF Reconcile
<1>3. ASSUME NEW k \in Holders PROVE Held(k)' <=> Held(k)
  <2>1. permits'[k] = IF k \in Lost(DOMAIN seen)
                      THEN [permits[k] EXCEPT !.state = "uncertain", !.gen = generation]
                      ELSE permits[k]
    BY DEF Reconcile
  <2>2. CASE k \in Lost(DOMAIN seen)
    <3>1. Held(k) /\ permits[k] \in PermitRow
      BY <2>2 DEF Lost, HeldSet, Held, TypeOK
    <3>2. [permits[k] EXCEPT !.state = "uncertain", !.gen = generation] \in PermitRow
      BY <3>1, PermitRowUpdates DEF TypeOK, PermitStates
    <3> QED
      BY <2>1, <2>2, <3>1, <3>2, NullAssumption DEF Held
  <2>3. CASE k \notin Lost(DOMAIN seen)
    BY <2>1, <2>3 DEF Held
  <2> QED
    BY <2>2, <2>3
<1>4. HeldSet' = HeldSet
  BY <1>3 DEF HeldSet
<1>5. Undemanded(seen) \subseteq Holders
  BY DEF Undemanded, Repaired, Lost, HeldSet
<1>6. ASSUME NEW k \in Holders
      PROVE  PhaseOf(k)' = IF k \in Undemanded(seen) THEN "open" ELSE PhaseOf(k)
  <2>1. CASE k \notin Repaired(seen)
    <3>1. demands'[k] = demands[k] /\ k \notin Undemanded(seen)
      BY <1>1, <2>1 DEF Undemanded
    <3> QED
      BY <3>1 DEF PhaseOf, Known, Closed
  <2>2. CASE k \in Repaired(seen)
    <3>1. permits[k] \in PermitRow
      BY <2>2, RepairedAreHeld DEF Held, TypeOK
    <3>2. permits[k].lane \in Lanes
      BY <3>1 DEF PermitRow
    <3>3. demands'[k] = RepairedDemand(order, k)
      BY <1>1, <2>2
    <3>4. CASE Known(k)
      <4>1. k \notin Undemanded(seen) /\ demands'[k] = GrantedDemand(k, permits[k].lane)
        BY <3>3, <3>4 DEF Undemanded, RepairedDemand
      <4>2. GrantedDemand(k, permits[k].lane) \in DemandRow
        BY <3>2, GrantedIsRow
      <4>3. demands[k] \in DemandRow
        BY <3>4 DEF Known, TypeOK
      <4>4. GrantedDemand(k, permits[k].lane).state \in ClosedStates
                <=> demands[k].state \in ClosedStates
        BY <3>4, <4>3, EnsuredFacts DEF GrantedDemand, ClosedStates, DemandRow
      <4> QED
        BY <3>4, <4>1, <4>2, <4>4, NullAssumption DEF PhaseOf, Known, Closed
    <3>5. CASE ~Known(k)
      <4>1. k \in Undemanded(seen)
        BY <2>2, <3>5 DEF Undemanded
      <4>2. demands'[k] = [lane |-> permits[k].lane, first |-> now, seq |-> order[k],
                           state |-> "granted", updated |-> now]
        BY <3>3, <3>5 DEF RepairedDemand
      <4>3. order[k] \in Nat
        <5>1. Cardinality(Undemanded(seen)) \in Nat
          BY <1>5, FiniteHolders
        <5>2. order[k] \in (sequence + 1)..(sequence + Cardinality(Undemanded(seen)))
          BY <4>1 DEF InsertOrders
        <5> QED
          BY <5>1, <5>2 DEF TypeOK
      <4>4. demands'[k] \in DemandRow
        BY <3>2, <4>2, <4>3 DEF DemandRow, DemandStates, TypeOK
      <4> QED
        BY <4>1, <4>2, <4>4, NullAssumption DEF PhaseOf, Known, Closed, ClosedStates
    <3> QED
      BY <3>4, <3>5
  <2> QED
    BY <2>1, <2>2
<1>7. PhaseMap' = [k \in Holders |-> IF k \in Undemanded(seen) THEN "open" ELSE PhaseMap[k]]
  BY <1>6 DEF PhaseMap
<1>8. \A k \in Undemanded(seen) : PhaseMap[k] = "unknown"
  BY <1>5 DEF PhaseMap, PhaseOf, Undemanded
<1>9. Pool!Admit(Undemanded(seen))
  BY <1>2, <1>4, <1>7, <1>8 DEF Pool!Admit, PhaseMap
<1> QED
  BY <1>5, <1>9 DEF PoolStep, Pool!PoolNext

LEMMA NextIsPoolStep ==
    ASSUME TypeOK, TypeOK', [LedgerNext]_ledgerVars
    PROVE  PoolStep
<1>1. ASSUME permits' = permits, demands' = demands, maxJobs' = maxJobs PROVE PoolStep
  <2>1. HeldSet' = HeldSet /\ PhaseMap' = PhaseMap
    BY <1>1 DEF HeldSet, Held, PhaseMap, PhaseOf, Known, Closed
  <2> QED
    BY <1>1, <2>1 DEF PoolStep, Pool!poolVars, PhaseMap
<1>2. ASSUME NEW n \in Capacities, SetMaxJobs(n) PROVE PoolStep
  <2>1. HeldSet' = HeldSet /\ PhaseMap' = PhaseMap
    BY <1>2 DEF SetMaxJobs, HeldSet, Held, PhaseMap, PhaseOf, Known, Closed
  <2>2. Pool!Resize(n)
    BY <1>2, <2>1 DEF SetMaxJobs, Pool!Resize, PhaseMap
  <2> QED
    BY <2>2 DEF PoolStep, Pool!PoolNext
<1>3. ASSUME NEW p \in alive, NEW h \in Holders,
             DemandCall(h) \/ OwnershipCall(h, p) \/ \E t \in 1..minted : OwnedCall(h, t, p)
      PROVE  PoolStep
  BY <1>3, DemandCallStep, OwnershipCallStep, OwnedCallStep DEF TypeOK, Token
<1>4. ASSUME NEW p \in alive, LedgerCall(p) PROVE PoolStep
  BY <1>1, <1>2, <1>4, ReconcileStep
     DEF LedgerCall, SetMaxJobsIfUnset, BeginEpoch, ScaleSetCall, MintToken,
         ClaimScaleSetRecovery, ReleaseRecoveryClaim, meta
<1> QED
  BY <1>1, <1>3, <1>4
     DEF LedgerNext, Tick, StartProcess, CrashProcess, ledgerVars, meta

LEMMA InitIsPoolInit == LedgerInit => Pool!PoolInit
  BY DEF LedgerInit, Pool!PoolInit, HeldSet, PhaseOf, Known

\* The ledger implements the pool: whatever interleaving of lanes, recoveries,
\* reconciliations and crashes occurs, a permit is given only while fewer than
\* max_jobs are out and only to a job that is not closed, and a closed job
\* never opens again.
THEOREM LedgerImplementsPool == LedgerSpec => ImplementsPool
<1>1. LedgerInit => Pool!PoolInit
  BY InitIsPoolInit
<1>2. TypeOK /\ TypeOK' /\ [LedgerNext]_ledgerVars => [Pool!PoolNext]_(Pool!poolVars)
  BY NextIsPoolStep DEF PoolStep
<1> QED
  BY <1>1, <1>2, LedgerTypeCorrect, PTL DEF LedgerSpec, ImplementsPool, Pool!PoolSpec

=============================================================================
