-------------------------- MODULE PermitFenceProofs --------------------------
(***************************************************************************)
(* What no call can do to the rows of the permit ledger: which rows a step *)
(* may write, which tokens it may hand out and whose, whom it may admit,   *)
(* and what becomes of a job's place in the queue.  One lemma per kind of  *)
(* call says how it moves the rows of one holder; the fences follow.       *)
(***************************************************************************)
EXTENDS PermitPoolRefinement

\* h's row is not the one of the attempt that had it before the step.
NewAttempt(h) == Held(h)' /\ (~Held(h) \/ permits'[h].token # permits[h].token)

\* A token that was minted and that no row has
FreshToken(h) == permits'[h].token <= minted' /\ TokenIsUnique(permits'[h].token)

\* What AdmitsTheOldest says of one holder
Admits(h) ==
    /\ Occupied < maxJobs
    /\ Occupied' = Occupied + 1
    /\ \A k \in Holders \ {h} :
          (Known(k) /\ demands[k].state = "eligible" /\ Fresh(demands[k]))
              => Older(demands'[h], demands[k])

\* What LiveNativeOwnerKeepsRow says of one holder
GivenUp(h) ==
    permits[h].lane = "native" /\ permits[h].pid \in alive =>
        /\ permits[h].state = "uncertain" /\ demands[h].state = "terminal"
        /\ permits'[h].pid = permits[h].pid

\* h's row says under which claim, and from which pid and token, it was rotated.
Transferred(h) ==
    LET r == permits'[h].rotation
    IN  /\ recoveryClaim # Null
        /\ permits'[h].pid = recoveryClaim.pid
        /\ r.claim = recoveryClaim.token /\ r.pid = permits[h].pid
        /\ r.token \in {permits[h].token, Null}
        /\ r.token = Null => <<h, permits[h].token>> \in migrations

\* What HandoverIsRecorded says of the row of one holder that changes hands
HandedOver(h) ==
    permits[h].lane = "scaleset" =>
        \/ permits[h].pid \notin alive /\ permits'[h].rotation = Null
        \/ Transferred(h)

\* How a step may move the permit of one holder
PermitMove(h) ==
    \/ permits'[h] = permits[h]
    \/ Held(h) /\ ~Held(h)'
    \/ /\ Held(h) /\ Held(h)' /\ permits'[h].gen = generation
       /\ permits'[h].token = permits[h].token
       /\ permits'[h].rotation = permits[h].rotation
    \/ /\ ~Held(h) /\ Held(h)' /\ permits'[h].gen = generation
       /\ FreshToken(h) /\ Admits(h)
    \/ /\ Held(h) /\ Held(h)' /\ permits'[h].gen = generation
       /\ FreshToken(h) /\ GivenUp(h) /\ HandedOver(h)

\* What TicketsAreKept says of one holder
TicketKept(h) ==
    Known(h) => /\ Known(h)' /\ demands'[h].lane = demands[h].lane
                /\ demands'[h].first = demands[h].first
                /\ demands'[h].seq = demands[h].seq

\* A closed job without permit is done for good.
ClosedStays(h) == ~Held(h) /\ Closed(h) => ~Held(h)' /\ demands'[h] = demands[h]

HolderStep(h) == PermitMove(h) /\ TicketKept(h) /\ ClosedStays(h)

-----------------------------------------------------------------------------
(* Helpers *)

\* Only the state and the time of the last change are ever rewritten.
Restamped(h) ==
    \E s \in DemandStates, u \in Nat :
        demands'[h] = [demands[h] EXCEPT !.state = s, !.updated = u]

LEMMA TicketMove ==
    ASSUME TypeOK, NEW h \in Holders, Known(h) => demands'[h] = demands[h] \/ Restamped(h)
    PROVE  TicketKept(h)
<1> SUFFICES ASSUME Known(h) PROVE TicketKept(h)
  BY DEF TicketKept
<1>1. demands[h] \in DemandRow
  BY DEF Known, TypeOK
<1>2. CASE demands'[h] = demands[h]
  BY <1>2 DEF TicketKept, Known
<1>3. CASE Restamped(h)
  <2>1. PICK s \in DemandStates, u \in Nat :
            demands'[h] = [demands[h] EXCEPT !.state = s, !.updated = u]
    BY <1>3 DEF Restamped
  <2>2. demands'[h] \in DemandRow
    BY <1>1, <2>1, DemandRowUpdates
  <2> QED
    BY <1>1, <2>1, <2>2, NullAssumption DEF TicketKept, Known, DemandRow
<1> QED
  BY <1>2, <1>3

\* A step that leaves the rows of a holder alone
LEMMA UntouchedStep ==
    ASSUME NEW h \in Holders, permits'[h] = permits[h], demands'[h] = demands[h]
    PROVE  HolderStep(h) /\ ~NewAttempt(h)
  BY DEF HolderStep, PermitMove, TicketKept, ClosedStays, NewAttempt, Held, Known

\* A call on one holder
OneHolderStep(h) == OnlyRowsOf(h) /\ minted \in Nat /\ minted' \in {minted, minted + 1} /\ HolderStep(h)

\* The row that the demand of a held permit becomes
LEMMA GrantedIsRestamped ==
    ASSUME TypeOK, NEW h \in Holders, NEW lane, demands'[h] = GrantedDemand(h, lane), Known(h)
    PROVE  demands'[h] = demands[h] \/ Restamped(h)
<1>1. EnsuredDemand(h, lane, now, now, "granted") = demands[h]
  BY EnsuredFacts
<1>2. now \in Nat /\ "granted" \in DemandStates
  BY DEF TypeOK, DemandStates
<1> QED
  BY <1>1, <1>2 DEF GrantedDemand, Restamped

-----------------------------------------------------------------------------
(* The calls *)

LEMMA DemandCallMoves ==
    ASSUME TypeOK, NEW h \in Holders, DemandCall(h)
    PROVE  OneHolderStep(h)
<1>1. permits' = permits /\ OnlyRowsOf(h) /\ minted' = minted /\ minted \in Nat
  BY DEF DemandCall, ObserveDemand, ParkDemand, CancelDemand, TypeOK, OnlyRowsOf, meta, env
<1>2. Known(h) => demands[h] \in DemandRow
  BY DEF Known, TypeOK
<1>a. now \in Nat
  BY DEF TypeOK
<1>3. ASSUME NEW lane \in LanesOf[h], NEW first \in 1..now, ObserveDemand(h, lane, first, now),
             Known(h)
      PROVE  /\ demands'[h] = demands[h] \/ Restamped(h)
             /\ Closed(h) => demands'[h] = demands[h]
  <2>1. demands'[h] = IF demands[h].state \in ClosedStates THEN demands[h]
                      ELSE [demands[h] EXCEPT !.state = RevivedByOffer(demands[h].state),
                                              !.updated = now]
    BY <1>3 DEF ObserveDemand, EnsuredDemand, TypeOK
  <2>2. RevivedByOffer(demands[h].state) \in DemandStates
    BY <1>2, <1>3 DEF RevivedByOffer, DemandRow, DemandStates
  <2> QED
    BY <1>a, <2>1, <2>2 DEF Restamped, Closed
<1>4. ASSUME ParkDemand(h) \/ CancelDemand(h)
      PROVE  Restamped(h) /\ ~Closed(h)
  <2>1. PICK s \in {"waiting", "cancelled"} :
            demands'[h] = [demands[h] EXCEPT !.state = s, !.updated = now]
    BY <1>2, <1>4 DEF ParkDemand, CancelDemand, TypeOK, DemandRow
  <2>2. s \in DemandStates
    BY DEF DemandStates
  <2> QED
    BY <1>4, <1>a, <2>1, <2>2 DEF Restamped, Closed, ClosedStates, ParkDemand, CancelDemand
<1>5. Known(h) => demands'[h] = demands[h] \/ Restamped(h)
  BY <1>3, <1>4 DEF DemandCall
<1>6. ClosedStays(h)
  BY <1>1, <1>3, <1>4 DEF DemandCall, ClosedStays, Closed, Held
<1> QED
  BY <1>1, <1>5, <1>6, TicketMove DEF OneHolderStep, HolderStep, PermitMove

\* A grant admits the head of the queue to a free permit.
LEMMA GrantMoves ==
    ASSUME TypeOK, NEW h \in Holders, NEW lane \in Lanes, NEW s \in PermitStates,
           NEW g \in Nat, NEW p \in Pids, NEW t \in Token, Grant(h, lane, s, g, p, t),
           t <= minted', minted' \in {minted, minted + 1}
    PROVE  OneHolderStep(h)
<1> DEFINE row == [lane |-> lane, state |-> s, gen |-> g, pid |-> p, token |-> t,
                   rotation |-> Null]
           old == Requeued(h, lane)[h]
<1>1. /\ DemandLaneAgrees(h, lane) /\ ~Held(h) /\ ~Closed(h) /\ maxJobs # Null
      /\ Occupied < maxJobs /\ g = generation /\ TokenIsUnique(t) /\ HeadOf(h, Requeued(h, lane))
      /\ minted \in Nat /\ now \in Nat
  BY DEF Grant, MayAttempt, TypeOK
<1>2. OnlyRowsOf(h)
  BY <1>1, RequeuedFacts DEF Grant, TypeOK, OnlyRowsOf, meta
<1>3. permits'[h] = row /\ demands'[h] = [old EXCEPT !.state = "granted"]
  BY RequeuedIsTyped DEF Grant, TypeOK
<1>4. row \in PermitRow /\ row # Null
  BY NullAssumption DEF PermitRow
<1>5. HeldSet' = HeldSet \cup {h} /\ h \notin HeldSet /\ Held(h)'
  BY <1>1, <1>2, <1>3, <1>4, OthersKeepPhase DEF HeldSet, Held
<1>6. Occupied' = Occupied + 1
  <2>1. IsFiniteSet(HeldSet)
    BY FiniteHolders DEF HeldSet
  <2>2. Cardinality(HeldSet \cup {h}) = Cardinality(HeldSet) + 1
    BY <1>5, <2>1, FS_AddElement
  <2> QED
    BY <1>5, <2>2 DEF Occupied
<1>7. old \in DemandRow /\ demands'[h].first = old.first /\ demands'[h].seq = old.seq
  BY <1>1, <1>3, RequeuedFacts DEF DemandRow
<1>8. \A k \in Holders \ {h} :
          (Known(k) /\ demands[k].state = "eligible" /\ Fresh(demands[k]))
              => Older(demands'[h], demands[k])
  <2>1. \A k \in Holders \ {h} : Requeued(h, lane)[k] = demands[k]
    BY <1>1, RequeuedFacts
  <2> QED
    BY <1>1, <1>7, <2>1 DEF HeadOf, Older, Known
<1>9. PermitMove(h)
  <2>1. FreshToken(h) /\ permits'[h].gen = generation
    BY <1>1, <1>3 DEF FreshToken
  <2> QED
    BY <1>1, <1>5, <1>6, <1>8, <2>1 DEF PermitMove, Admits
<1>10. Known(h) => Restamped(h)
  <2> SUFFICES ASSUME Known(h) PROVE Restamped(h)
    OBVIOUS
  <2>1. demands[h] \in DemandRow
    BY DEF Known, TypeOK
  <2>2. old = [demands[h] EXCEPT !.state = "eligible", !.updated = now]
    BY DEF Requeued, EnsuredDemand, TypeOK
  <2>3. demands'[h] = [demands[h] EXCEPT !.state = "granted", !.updated = now]
    BY <1>3, <2>1, <2>2 DEF DemandRow
  <2>4. "granted" \in DemandStates
    BY DEF DemandStates
  <2> QED
    BY <1>1, <2>3, <2>4 DEF Restamped
<1> QED
  BY <1>1, <1>2, <1>9, <1>10, TicketMove DEF OneHolderStep, HolderStep, ClosedStays

\* Adoption and rotation hand a row to a new attempt.
LEMMA OwnershipCallMoves ==
    ASSUME TypeOK, TokensFenceAttempts, NEW h \in Holders, NEW p \in Pids, OwnershipCall(h, p)
    PROVE  OneHolderStep(h)
<1>0. /\ LanesOf[h] \subseteq Lanes
      /\ GrantStates \cup {"cleaning", "uncertain"} \subseteq PermitStates
  BY HoldersAssumption, GrantStatesAssumption DEF PermitStates
<1>a. /\ 0..generation \subseteq Nat /\ 1..minted \subseteq Token /\ minted + 1 \in Token
      /\ minted \in Nat /\ now \in Nat /\ \A t \in 1..minted : t <= minted
  BY DEF TypeOK, Token
<1>b. Held(h) => permits[h] \in PermitRow
  BY DEF Held, TypeOK
<1>1. ASSUME NEW lane \in Lanes, NEW g, AcquireFull(h, lane, g) \/ AcquireDeferred(h, lane, g)
      PROVE  OneHolderStep(h)
  <2>1. /\ DemandLaneAgrees(h, lane) /\ ~Closed(h) /\ UNCHANGED <<meta, permits, aux, env>>
        /\ demands' = Requeued(h, lane)
    BY <1>1 DEF AcquireFull, AcquireDeferred, MayAttempt
  <2>2. OnlyRowsOf(h)
    BY <2>1, RequeuedFacts DEF OnlyRowsOf, meta
  <2>3. Known(h) => Restamped(h)
    <3> SUFFICES ASSUME Known(h) PROVE Restamped(h)
      OBVIOUS
    <3>1. demands'[h] = [demands[h] EXCEPT !.state = "eligible", !.updated = now]
      BY <2>1 DEF Requeued, EnsuredDemand, TypeOK
    <3>2. "eligible" \in DemandStates
      BY DEF DemandStates
    <3> QED
      BY <1>a, <3>1, <3>2 DEF Restamped
  <2> QED
    BY <1>a, <2>1, <2>2, <2>3, TicketMove
       DEF OneHolderStep, HolderStep, PermitMove, ClosedStays, env
<1>2. ASSUME NEW lane \in Lanes, NEW s \in PermitStates, NEW g \in Nat,
             AcquireAttempt(h, lane, s, g, p)
      PROVE  OneHolderStep(h)
  <2>1. Grant(h, lane, s, g, p, minted + 1) /\ minted' = minted + 1
    BY <1>2 DEF AcquireAttempt
  <2> QED
    BY <1>a, <2>1, GrantMoves
<1>3. ASSUME NEW s \in PermitStates, NEW g \in Nat, NEW t \in 1..minted,
             AcquireStagedAttempt(h, s, g, p, t)
      PROVE  OneHolderStep(h)
  <2>1. Grant(h, "scaleset", s, g, p, t) /\ minted' = minted /\ "scaleset" \in Lanes
    BY <1>3 DEF AcquireStagedAttempt, Lanes
  <2> QED
    BY <1>a, <2>1, GrantMoves
<1>4. ASSUME NEW lane \in Lanes, NEW s \in PermitStates, NEW g \in Nat,
             AdoptForRedelivery(h, lane, s, g, p)
      PROVE  OneHolderStep(h)
  <2>1. /\ Held(h) /\ permits[h] \in PermitRow /\ g = generation /\ Adoptable(h, lane, p)
        /\ minted' = minted + 1 /\ demands'[h] = GrantedDemand(h, lane)
    BY <1>4, <1>b DEF AdoptForRedelivery, Adoptable, TypeOK
  <2>2. OnlyRowsOf(h)
    BY <1>4 DEF AdoptForRedelivery, OnlyRowsOf, TypeOK, meta
  <2>3. permits'[h] = [permits[h] EXCEPT !.state = s, !.gen = g, !.pid = p,
                                         !.token = minted + 1, !.rotation = Null]
    BY <1>4 DEF AdoptForRedelivery, TypeOK
  <2>4. [permits[h] EXCEPT !.state = s, !.gen = g, !.pid = p,
                           !.token = minted + 1, !.rotation = Null] \in PermitRow
    BY <1>a, <2>1, PermitRowUpdates
  <2>5. /\ Held(h)' /\ permits'[h].gen = generation /\ permits'[h].token = minted + 1
        /\ permits'[h].pid = p /\ permits'[h].rotation = Null
    BY <2>1, <2>3, <2>4, NullAssumption DEF Held, PermitRow
  <2>6. FreshToken(h)
    <3>1. \A k \in Holders : Held(k) => permits[k].token \in Nat /\ permits[k].token <= minted
      BY DEF TokensFenceAttempts, HeldSet, Held, TypeOK, PermitRow, Token
    <3> QED
      BY <1>a, <2>1, <2>5, <3>1 DEF FreshToken, TokenIsUnique
  <2>7. GivenUp(h) /\ HandedOver(h)
    <3>1. GivenUp(h)
      BY <2>1, <2>5 DEF GivenUp, Adoptable, RetainedBySameProcess
    <3>2. permits[h].lane = "scaleset" => permits[h].pid \notin alive
      BY <2>1 DEF Adoptable, RetainedBySameProcess
    <3> QED
      BY <2>5, <3>1, <3>2 DEF HandedOver
  <2>8. Known(h) => demands'[h] = demands[h] \/ Restamped(h)
    BY <2>1, GrantedIsRestamped
  <2> QED
    BY <1>a, <2>1, <2>2, <2>5, <2>6, <2>7, <2>8, TicketMove
       DEF OneHolderStep, HolderStep, PermitMove, ClosedStays
<1>5. ASSUME NEW s \in PermitStates, NEW g \in Nat, NEW prevPid \in Pids,
             NEW prev \in 1..minted \cup {Null}, NEW target \in 1..minted,
             NEW claim \in 1..minted,
             RotateScaleSetAttempt(h, s, g, prevPid, prev, target, claim, p)
      PROVE  OneHolderStep(h)
  <2> DEFINE x == [claim |-> claim, pid |-> prevPid, token |-> prev]
  <2>1. /\ Held(h) /\ permits[h] \in PermitRow /\ g = generation /\ permits[h].lane = "scaleset"
        /\ TokenIsUnique(target) /\ minted' = minted
        /\ demands'[h] = GrantedDemand(h, "scaleset")
    BY <1>5, <1>b DEF RotateScaleSetAttempt, TypeOK, env
  <2>2. OnlyRowsOf(h)
    BY <1>5 DEF RotateScaleSetAttempt, OnlyRowsOf, TypeOK, meta
  <2>3. permits'[h] = [permits[h] EXCEPT !.state = s, !.gen = g, !.pid = p,
                                         !.token = target, !.rotation = x]
    BY <1>5 DEF RotateScaleSetAttempt, TypeOK
  <2>4. [permits[h] EXCEPT !.state = s, !.gen = g, !.pid = p,
                           !.token = target, !.rotation = x] \in PermitRow
    <3>1. x \in Rotation
      BY <1>a DEF Rotation
    <3> QED
      BY <1>a, <2>1, <3>1, PermitRowUpdates
  <2>a. x.claim = claim /\ x.pid = prevPid /\ x.token = prev
    OBVIOUS
  <2> HIDE DEF x
  <2>5. /\ Held(h)' /\ permits'[h].gen = generation /\ permits'[h].token = target
        /\ permits'[h].pid = p /\ permits'[h].rotation = x
    BY <2>1, <2>3, <2>4, NullAssumption DEF Held, PermitRow
  <2>6. FreshToken(h) /\ GivenUp(h)
    BY <1>a, <2>1, <2>5 DEF FreshToken, GivenUp
  <2>b. HandedOver(h)
    <3>1. /\ recoveryClaim = [token |-> claim, pid |-> p] /\ permits[h].pid = prevPid
          /\ PreviousTokenMatches(h, prev)
      BY <1>5 DEF RotateScaleSetAttempt
    <3>2. [token |-> claim, pid |-> p] \in RecoveryClaim
      BY <1>a DEF RecoveryClaim
    <3>3. recoveryClaim # Null /\ recoveryClaim.token = claim /\ recoveryClaim.pid = p
      BY <3>1, <3>2, NullAssumption
    <3>4. /\ prev \in {permits[h].token, Null}
          /\ prev = Null => <<h, permits[h].token>> \in migrations
      BY <3>1 DEF PreviousTokenMatches
    <3>5. Transferred(h)
      BY <2>a, <2>5, <3>1, <3>3, <3>4 DEF Transferred
    <3> QED
      BY <3>5 DEF HandedOver
  <2>7. Known(h) => demands'[h] = demands[h] \/ Restamped(h)
    BY <2>1, GrantedIsRestamped
  <2> QED
    BY <1>a, <2>1, <2>2, <2>5, <2>6, <2>7, <2>b, TicketMove
       DEF OneHolderStep, HolderStep, PermitMove, ClosedStays
<1> QED
  BY <1>0, <1>a, <1>1, <1>2, <1>3, <1>4, <1>5 DEF OwnershipCall

\* A call that carries the token of h's row rewrites the row or removes it.
LEMMA RewrittenMoves ==
    ASSUME TypeOK, NEW h \in Holders, Held(h), OnlyRowsOf(h), minted' = minted,
           permits'[h] = Null
             \/ \E s \in PermitStates :
                    \/ permits'[h] = [permits[h] EXCEPT !.state = s, !.gen = generation]
                    \/ \E p \in Pids : permits'[h] = [permits[h] EXCEPT
                                           !.state = s, !.gen = generation, !.pid = p],
           Known(h) => demands'[h] = demands[h] \/ Restamped(h)
    PROVE  OneHolderStep(h)
<1>1. permits[h] \in PermitRow /\ generation \in Nat /\ minted \in Nat
  BY DEF Held, TypeOK
<1>2. ASSUME permits'[h] = Null PROVE PermitMove(h)
  BY <1>2 DEF PermitMove, Held
<1>3. ASSUME NEW s \in PermitStates,
             permits'[h] = [permits[h] EXCEPT !.state = s, !.gen = generation]
      PROVE  PermitMove(h)
  <2>1. permits'[h] \in PermitRow
    <3>1. [permits[h] EXCEPT !.state = s, !.gen = generation] \in PermitRow
      BY <1>1, PermitRowUpdates
    <3> QED
      BY <1>3, <3>1
  <2>2. /\ permits'[h].gen = generation /\ permits'[h].token = permits[h].token
        /\ permits'[h].rotation = permits[h].rotation
    BY <1>1, <1>3 DEF PermitRow
  <2> QED
    BY <2>1, <2>2, NullAssumption DEF PermitMove, Held
<1>4. ASSUME NEW s \in PermitStates, NEW p \in Pids,
             permits'[h] = [permits[h] EXCEPT !.state = s, !.gen = generation, !.pid = p]
      PROVE  PermitMove(h)
  <2>1. permits'[h] \in PermitRow
    <3>1. [permits[h] EXCEPT !.state = s, !.gen = generation, !.pid = p] \in PermitRow
      BY <1>1, PermitRowUpdates
    <3> QED
      BY <1>4, <3>1
  <2>2. /\ permits'[h].gen = generation /\ permits'[h].token = permits[h].token
        /\ permits'[h].rotation = permits[h].rotation
    BY <1>1, <1>4 DEF PermitRow
  <2> QED
    BY <2>1, <2>2, NullAssumption DEF PermitMove, Held
<1>5. PermitMove(h)
  BY <1>2, <1>3, <1>4
<1> QED
  BY <1>1, <1>5, TicketMove DEF OneHolderStep, HolderStep, ClosedStays

LEMMA OwnedCallMoves ==
    ASSUME TypeOK, NEW h \in Holders, NEW t \in Token, NEW p \in Pids, OwnedCall(h, t, p)
    PROVE  OneHolderStep(h)
<1>0. OnlyRowsOf(h) /\ minted' = minted
  BY DEF OwnedCall, TransitionOwned, RetainUncertain, RetainRecordedFailure,
         RetainUncertainAfterCleanup, ReleaseOwned, ReleaseScaleSetStaged,
         ReleaseNativeOwned, ClaimRecordedTerminalCleanup, TypeOK, OnlyRowsOf, meta, env
<1>a. /\ now \in Nat /\ minted \in Nat /\ {"eligible", "cancelled", "terminal"} \subseteq DemandStates
      /\ GrantStates \cup {"cleaning", "uncertain"} \subseteq PermitStates
  BY GrantStatesAssumption DEF TypeOK, DemandStates, PermitStates
<1>b. Known(h) => demands[h] \in DemandRow
  BY DEF Known, TypeOK
<1>1. ASSUME NEW g, NEW s \in GrantStates \cup {"cleaning"}, TransitionOwned(h, s, g, t, p)
      PROVE  OneHolderStep(h)
  <2>1. /\ Held(h) /\ demands'[h] = demands[h]
        /\ permits'[h] = [permits[h] EXCEPT !.state = s, !.gen = generation, !.pid = p]
    BY <1>1 DEF TransitionOwned, Owns, TypeOK
  <2>2. s \in PermitStates
    BY <1>a
  <2> QED
    BY <1>0, <2>1, <2>2, RewrittenMoves
<1>2. ASSUME NEW g, RetainUncertain(h, g, t) \/ RetainRecordedFailure(h, g, t)
      PROVE  OneHolderStep(h)
  <2>1. /\ Held(h) /\ permits'[h] = [permits[h] EXCEPT !.state = "uncertain", !.gen = generation]
        /\ demands'[h] = IF Known(h) THEN TerminalIfOpen(demands[h]) ELSE demands[h]
    BY <1>2 DEF RetainUncertain, RetainRecordedFailure, Owns, TypeOK
  <2>2. Known(h) => demands'[h] = demands[h] \/ Restamped(h)
    BY <1>a, <2>1 DEF TerminalIfOpen, Restamped
  <2> QED
    BY <1>0, <1>a, <2>1, <2>2, RewrittenMoves
<1>3. ASSUME RetainUncertainAfterCleanup(h, t, p) PROVE OneHolderStep(h)
  <2>1. /\ Held(h)
        /\ permits'[h] = [permits[h] EXCEPT !.state = "uncertain", !.gen = generation, !.pid = p]
    BY <1>3 DEF RetainUncertainAfterCleanup, Owns, TypeOK
  <2>2. Known(h) => demands'[h] = demands[h] \/ Restamped(h)
    <3>1. Known(h) => demands'[h] = demands[h]
                      \/ demands'[h] = [demands[h] EXCEPT !.state = "terminal", !.updated = now]
      BY <1>3 DEF RetainUncertainAfterCleanup, EnsuredDemand, TypeOK
    <3> QED
      BY <1>a, <3>1 DEF Restamped
  <2> QED
    BY <1>0, <1>a, <2>1, <2>2, RewrittenMoves
<1>4. ASSUME NEW target \in {"eligible", "cancelled", "terminal"},
             ReleaseOwned(h, t, target) \/ ReleaseScaleSetStaged(h, t, target)
      PROVE  OneHolderStep(h)
  <2>1. Held(h) /\ permits'[h] = Null
    BY <1>4 DEF ReleaseOwned, ReleaseScaleSetStaged, Owns, TypeOK
  <2>2. Known(h) => demands'[h] = demands[h]
                    \/ demands'[h] = [demands[h] EXCEPT !.state = target, !.updated = now]
    <3>1. CASE ReleaseOwned(h, t, target)
      BY <3>1 DEF ReleaseOwned, TypeOK
    <3>2. CASE ReleaseScaleSetStaged(h, t, target)
      BY <1>b, <3>2 DEF ReleaseScaleSetStaged, TypeOK, DemandRow
    <3> QED
      BY <1>4, <3>1, <3>2
  <2>3. Known(h) => demands'[h] = demands[h] \/ Restamped(h)
    BY <1>a, <2>2 DEF Restamped
  <2> QED
    BY <1>0, <2>1, <2>3, RewrittenMoves
<1>5. ASSUME NEW target \in ClosedStates, ReleaseNativeOwned(h, t, target) PROVE OneHolderStep(h)
  <2>1. CASE Owns(h, t)
    <3>1. Held(h) /\ permits'[h] = Null
      BY <1>5, <2>1 DEF ReleaseNativeOwned, Owns, TypeOK
    <3>2. Known(h) => demands'[h] = [demands[h] EXCEPT !.state = target, !.updated = now]
      BY <1>5, <2>1 DEF ReleaseNativeOwned, EnsuredDemand, TypeOK
    <3>3. Known(h) => Restamped(h)
      BY <1>a, <3>2 DEF Restamped, ClosedStates
    <3> QED
      BY <1>0, <3>1, <3>3, RewrittenMoves
  <2>2. CASE ~Owns(h, t)
    <3>1. permits' = permits /\ demands' = demands
      BY <1>5, <2>2 DEF ReleaseNativeOwned
    <3> QED
      BY <1>0, <1>a, <3>1, UntouchedStep DEF OneHolderStep
  <2> QED
    BY <2>1, <2>2
<1>6. ASSUME NEW lane \in LanesOf[h], ClaimRecordedTerminalCleanup(h, lane, t, p)
      PROVE  OneHolderStep(h)
  <2>1. CASE Owns(h, t)
    <3>1. /\ Held(h) /\ demands'[h] = demands[h]
          /\ permits'[h] = [permits[h] EXCEPT !.state = "cleaning", !.gen = generation, !.pid = p]
      BY <1>6, <2>1 DEF ClaimRecordedTerminalCleanup, RecordedRelease, Owns, TypeOK
    <3> QED
      BY <1>0, <1>a, <3>1, RewrittenMoves
  <2>2. CASE ~Owns(h, t) /\ RecordedRelease(h, lane)
    <3>1. permits' = permits /\ demands' = demands
      BY <1>6, <2>2 DEF ClaimRecordedTerminalCleanup, RecordedRelease
    <3> QED
      BY <1>0, <1>a, <3>1, UntouchedStep DEF OneHolderStep
  <2>3. CASE ~Owns(h, t) /\ ~RecordedRelease(h, lane)
    <3>1. permits' = permits /\ ~Closed(h)
      BY <1>6, <2>3 DEF ClaimRecordedTerminalCleanup
    <3>2. Known(h) => demands'[h] = [demands[h] EXCEPT !.state = "terminal", !.updated = now]
      BY <1>6, <2>3 DEF ClaimRecordedTerminalCleanup, EnsuredDemand, TypeOK
    <3>3. Known(h) => Restamped(h)
      BY <1>a, <3>2 DEF Restamped
    <3> QED
      BY <1>0, <1>a, <3>1, <3>3, TicketMove
         DEF OneHolderStep, HolderStep, PermitMove, ClosedStays
  <2> QED
    BY <2>1, <2>2, <2>3
<1> QED
  BY <1>1, <1>2, <1>3, <1>4, <1>5, <1>6 DEF OwnedCall

\* A reconciliation rewrites the lost rows and hands no token to anyone.
LEMMA ReconcileMoves ==
    ASSUME TypeOK, NEW observed \in SUBSET Holders,
           NEW seen \in [observed -> ObservationKinds], Reconcile(seen), NEW h \in Holders
    PROVE  /\ HolderStep(h) /\ ~NewAttempt(h)
           /\ Held(h) => \/ permits'[h].gen = generation
                         \/ permits'[h].state = "cleaning"
                         \/ <<h, permits'[h].token>> \in confirmed'
<1>1. PICK order \in InsertOrders(seen) :
          demands' = [k \in Holders |->
              IF k \in Repaired(seen) THEN RepairedDemand(order, k) ELSE demands[k]]
  BY DEF Reconcile
<1>2. permits'[h] = IF h \in Lost(observed)
                    THEN [permits[h] EXCEPT !.state = "uncertain", !.gen = generation]
                    ELSE permits[h]
  BY DEF Reconcile
<1>3. h \in Lost(observed) => Held(h)
  BY DEF Lost, HeldSet
<1>4. Held(h) => permits[h] \in PermitRow
  BY DEF Held, TypeOK
<1>5. ASSUME h \in Lost(observed)
      PROVE  /\ Held(h) /\ Held(h)' /\ permits'[h].gen = generation
             /\ permits'[h].token = permits[h].token
             /\ permits'[h].rotation = permits[h].rotation
  <2>1. [permits[h] EXCEPT !.state = "uncertain", !.gen = generation] \in PermitRow
    BY <1>3, <1>4, <1>5, PermitRowUpdates DEF TypeOK, PermitStates
  <2>2. permits'[h] \in PermitRow
    BY <1>2, <1>5, <2>1
  <2>3. /\ permits'[h].gen = generation /\ permits'[h].token = permits[h].token
        /\ permits'[h].rotation = permits[h].rotation
    BY <1>2, <1>3, <1>4, <1>5 DEF PermitRow
  <2> QED
    BY <1>3, <1>5, <2>2, <2>3, NullAssumption DEF Held
<1>6. PermitMove(h) /\ ~NewAttempt(h)
  BY <1>2, <1>5 DEF PermitMove, NewAttempt, Held
<1>7. Known(h) => demands'[h] = demands[h] \/ Restamped(h)
  <2>1. CASE h \in Repaired(seen) /\ Known(h)
    <3>1. demands'[h] = GrantedDemand(h, permits[h].lane)
      BY <1>1, <2>1 DEF RepairedDemand
    <3> QED
      BY <2>1, <3>1, GrantedIsRestamped
  <2>2. CASE h \notin Repaired(seen)
    BY <1>1, <2>2
  <2> QED
    BY <2>1, <2>2
<1>8. ClosedStays(h)
  <2> SUFFICES ASSUME ~Held(h) PROVE ~Held(h)' /\ demands'[h] = demands[h]
    BY DEF ClosedStays
  <2>1. h \notin Repaired(seen) /\ h \notin Lost(observed)
    BY <1>3, RepairedAreHeld
  <2> QED
    BY <1>1, <1>2, <2>1 DEF Held
<1>9. Held(h) => \/ permits'[h].gen = generation
                 \/ permits'[h].state = "cleaning"
                 \/ <<h, permits'[h].token>> \in confirmed'
  <2> SUFFICES ASSUME Held(h), h \notin Lost(observed), permits[h].state # "cleaning"
               PROVE  <<h, permits'[h].token>> \in confirmed'
    BY <1>2, <1>5
  <2>1. h \in observed \cap HeldSet
    BY DEF Lost, HeldSet
  <2>2. confirmed' = {<<k, permits[k].token>> : k \in observed \cap HeldSet}
    BY DEF Reconcile
  <2> QED
    BY <1>2, <2>1, <2>2
<1> QED
  BY <1>6, <1>7, <1>8, <1>9, TicketMove DEF HolderStep

\* How a step moves the epoch and the list of confirmed attempts
EpochMove ==
    \/ UNCHANGED <<generation, reconciledGeneration, confirmed>>
    \/ BeginEpoch
    \/ \E observed \in SUBSET Holders : \E seen \in [observed -> ObservationKinds] : Reconcile(seen)

\* A marker is written only for a cancelled job without permit.
MarkersMove ==
    \A m \in cleanupReleases' :
        \/ m \in cleanupReleases
        \/ \E h \in Holders, t \in Token :
              m = <<h, t>> /\ ~Held(h) /\ Known(h) /\ demands[h].state = "cancelled"

LedgerMove ==
    /\ \A h \in Holders : HolderStep(h)
    /\ \A h, k \in Holders : NewAttempt(h) /\ NewAttempt(k) => h = k
    /\ minted \in Nat /\ minted' \in {minted, minted + 1}
    /\ EpochMove /\ MarkersMove /\ migrations' = migrations

LEMMA OneHolderMoves ==
    ASSUME NEW h \in Holders, OneHolderStep(h)
    PROVE  /\ \A k \in Holders : HolderStep(k)
           /\ \A k, l \in Holders : NewAttempt(k) /\ NewAttempt(l) => k = l
           /\ minted \in Nat /\ minted' \in {minted, minted + 1}
<1>1. \A k \in Holders \ {h} : permits'[k] = permits[k] /\ demands'[k] = demands[k]
  BY DEF OneHolderStep, OnlyRowsOf
<1>2. \A k \in Holders \ {h} : HolderStep(k) /\ ~NewAttempt(k)
  BY <1>1, UntouchedStep
<1> QED
  BY <1>2 DEF OneHolderStep

LEMMA LedgerMoves ==
    ASSUME TypeOK, TokensFenceAttempts, [LedgerNext]_ledgerVars
    PROVE  LedgerMove
<1>0. minted \in Nat
  BY DEF TypeOK
<1>1. ASSUME permits' = permits, demands' = demands, minted' \in {minted, minted + 1},
             cleanupReleases' = cleanupReleases, migrations' = migrations, EpochMove
      PROVE  LedgerMove
  <2>1. \A h \in Holders : HolderStep(h) /\ ~NewAttempt(h)
    BY <1>1, UntouchedStep
  <2> QED
    BY <1>0, <1>1, <2>1 DEF LedgerMove, MarkersMove
<1>2. ASSUME NEW h \in Holders, DemandCall(h) PROVE LedgerMove
  <2>1. UNCHANGED <<generation, reconciledGeneration, confirmed, cleanupReleases, migrations>>
    BY <1>2 DEF DemandCall, ObserveDemand, ParkDemand, CancelDemand, meta, aux
  <2> QED
    BY <1>2, <2>1, DemandCallMoves, OneHolderMoves DEF LedgerMove, EpochMove, MarkersMove
<1>3. ASSUME NEW h \in Holders, NEW p \in Pids, OwnershipCall(h, p) PROVE LedgerMove
  <2>1. UNCHANGED <<generation, reconciledGeneration, confirmed, cleanupReleases, migrations>>
    <3>1. ASSUME NEW lane, NEW s, NEW g, NEW t,
                 \/ AcquireFull(h, lane, g) \/ AcquireDeferred(h, lane, g)
                 \/ AcquireAttempt(h, lane, s, g, p) \/ AcquireStagedAttempt(h, s, g, p, t)
                 \/ AdoptForRedelivery(h, lane, s, g, p)
          PROVE  UNCHANGED <<meta, aux>>
      BY <3>1 DEF AcquireFull, AcquireDeferred, AcquireAttempt, AcquireStagedAttempt, Grant,
                  AdoptForRedelivery
    <3>2. ASSUME NEW s, NEW g, NEW prevPid, NEW prev, NEW target, NEW claim,
                 RotateScaleSetAttempt(h, s, g, prevPid, prev, target, claim, p)
          PROVE  UNCHANGED <<meta, aux>>
      BY <3>2 DEF RotateScaleSetAttempt
    <3>3. UNCHANGED <<meta, aux>>
      BY <1>3, <3>1, <3>2 DEF OwnershipCall
    <3> QED
      BY <3>3 DEF meta, aux
  <2> QED
    BY <1>3, <2>1, OwnershipCallMoves, OneHolderMoves DEF LedgerMove, EpochMove, MarkersMove
<1>4. ASSUME NEW h \in Holders, NEW p \in Pids, NEW t \in Token, OwnedCall(h, t, p)
      PROVE  LedgerMove
  <2>1. UNCHANGED <<generation, reconciledGeneration, confirmed, migrations>>
    BY <1>4 DEF OwnedCall, TransitionOwned, RetainUncertain, RetainRecordedFailure,
                RetainUncertainAfterCleanup, ReleaseOwned, ReleaseScaleSetStaged,
                ReleaseNativeOwned, ClaimRecordedTerminalCleanup, meta, aux
  <2>2. \/ cleanupReleases' \subseteq cleanupReleases
        \/ /\ cleanupReleases' = cleanupReleases \cup {<<h, t>>}
           /\ ~Held(h) /\ Known(h) /\ demands[h].state = "cancelled"
    BY <1>4 DEF OwnedCall, TransitionOwned, RetainUncertain, RetainRecordedFailure,
                RetainUncertainAfterCleanup, ReleaseOwned, ReleaseScaleSetStaged,
                ReleaseNativeOwned, ClaimRecordedTerminalCleanup, RecordedRelease, Closed, aux
  <2>3. MarkersMove
    BY <2>2 DEF MarkersMove
  <2> QED
    BY <1>4, <2>1, <2>3, OwnedCallMoves, OneHolderMoves DEF LedgerMove, EpochMove
<1>5. ASSUME NEW observed \in SUBSET Holders, NEW seen \in [observed -> ObservationKinds],
             Reconcile(seen)
      PROVE  LedgerMove
  <2>1. minted' = minted /\ cleanupReleases' = cleanupReleases /\ migrations' = migrations
    BY <1>5 DEF Reconcile, env
  <2>2. \A h \in Holders : HolderStep(h) /\ ~NewAttempt(h)
    BY <1>5, ReconcileMoves
  <2>3. EpochMove
    BY <1>5 DEF EpochMove
  <2> QED
    BY <1>0, <2>1, <2>2, <2>3 DEF LedgerMove, MarkersMove
<1>6. ASSUME NEW p \in alive, NEW h \in Holders,
             DemandCall(h) \/ OwnershipCall(h, p) \/ \E t \in 1..minted : OwnedCall(h, t, p)
      PROVE  LedgerMove
  BY <1>2, <1>3, <1>4, <1>6 DEF TypeOK, Token
<1>7. ASSUME NEW n, SetMaxJobs(n) \/ SetMaxJobsIfUnset(n) PROVE LedgerMove
  BY <1>1, <1>7 DEF SetMaxJobs, SetMaxJobsIfUnset, EpochMove, aux, env
<1>8. CASE BeginEpoch
  BY <1>1, <1>8 DEF BeginEpoch, EpochMove, env
<1>9. ASSUME NEW p, ScaleSetCall(p) PROVE LedgerMove
  BY <1>1, <1>9 DEF ScaleSetCall, MintToken, ClaimScaleSetRecovery, ReleaseRecoveryClaim,
                    EpochMove, meta, aux, env
<1>10. ASSUME NEW p \in alive, LedgerCall(p) PROVE LedgerMove
  BY <1>5, <1>7, <1>8, <1>9, <1>10 DEF LedgerCall
<1>11. ASSUME NEW p, Tick \/ StartProcess(p) \/ CrashProcess(p) \/ UNCHANGED ledgerVars
       PROVE  LedgerMove
  BY <1>1, <1>11 DEF Tick, StartProcess, CrashProcess, ledgerVars, EpochMove, meta, aux, env
<1> QED
  BY <1>6, <1>10, <1>11 DEF LedgerNext

-----------------------------------------------------------------------------
(* Tokens *)

LEMMA InitTokens == LedgerInit => TokensFenceAttempts
<1> SUFFICES ASSUME LedgerInit PROVE TokensFenceAttempts
  OBVIOUS
<1>1. \A h \in HeldSet : permits[h] \in LegacyRows
  BY DEF LedgerInit, HeldSet, Held
<1>2. Cardinality(LegacyHolders) \in Nat
  BY HoldersAssumption, FS_Subset, FS_CardinalityType
<1>3. \A h \in HeldSet : permits[h].token <= minted
  BY <1>1, <1>2 DEF LedgerInit, LegacyRows
<1> QED
  BY <1>3 DEF LedgerInit, TokensFenceAttempts

LEMMA TokensStep ==
    ASSUME TypeOK, TypeOK', TokensFenceAttempts, LedgerMove
    PROVE  TokensFenceAttempts'
<1>1. \A h \in HeldSet : permits[h].token \in Nat /\ permits[h].token <= minted
  BY DEF TokensFenceAttempts, HeldSet, Held, TypeOK, PermitRow, Token
<1>2. minted \in Nat /\ minted' \in Nat /\ minted <= minted'
  BY DEF LedgerMove
<1>3. ASSUME NEW h \in HeldSet' PROVE h \in Holders /\ Held(h)' /\ permits'[h].token \in Nat
  BY <1>3 DEF HeldSet, Held, TypeOK, PermitRow, Token
<1>4. ASSUME NEW h \in HeldSet', NewAttempt(h)
      PROVE  FreshToken(h)
  BY <1>3, <1>4 DEF LedgerMove, HolderStep, PermitMove, NewAttempt, Held
<1>5. ASSUME NEW h \in HeldSet', ~NewAttempt(h)
      PROVE  h \in HeldSet /\ permits'[h].token = permits[h].token
  BY <1>3, <1>5 DEF NewAttempt, HeldSet
<1>6. ASSUME NEW h \in HeldSet' PROVE permits'[h].token <= minted'
  BY <1>1, <1>2, <1>3, <1>4, <1>5 DEF FreshToken
<1>7. ASSUME NEW h \in HeldSet', NEW k \in HeldSet', permits'[h].token = permits'[k].token
      PROVE  h = k
  <2>1. CASE NewAttempt(h) /\ NewAttempt(k)
    BY <1>3, <2>1 DEF LedgerMove
  <2>2. ASSUME NEW x \in HeldSet', NEW y \in HeldSet', NewAttempt(x), ~NewAttempt(y)
        PROVE  permits'[x].token # permits'[y].token
    BY <1>3, <1>4, <1>5, <2>2 DEF FreshToken, TokenIsUnique, HeldSet
  <2>3. CASE ~NewAttempt(h) /\ ~NewAttempt(k)
    BY <1>5, <1>7, <2>3 DEF TokensFenceAttempts
  <2> QED
    BY <1>7, <2>1, <2>2, <2>3
<1> QED
  BY <1>6, <1>7 DEF TokensFenceAttempts

\* No two permit rows carry one attempt token and no token is from the future,
\* for any number of lanes, redeliveries, rotations and recoveries.
THEOREM LedgerTokensFence == LedgerSpec => []TokensFenceAttempts
<1>1. TypeOK /\ TypeOK' /\ TokensFenceAttempts /\ [LedgerNext]_ledgerVars => TokensFenceAttempts'
  BY LedgerMoves, TokensStep
<1> QED
  BY <1>1, InitTokens, LedgerTypeCorrect, PTL DEF LedgerSpec

\* What the step theorems below rest on
LEMMA EveryStepMoves == LedgerSpec => [][LedgerMove]_ledgerVars
<1>1. TypeOK /\ TokensFenceAttempts /\ [LedgerNext]_ledgerVars => [LedgerMove]_ledgerVars
  BY LedgerMoves
<1> QED
  BY <1>1, LedgerTypeCorrect, LedgerTokensFence, PTL DEF LedgerSpec

-----------------------------------------------------------------------------
(* Steps *)

\* A row that a step creates or changes has the ledger's generation: a caller
\* of an earlier epoch writes nothing.
THEOREM LedgerEpochFences == LedgerSpec => EpochFencesWriters
<1>1. LedgerMove => \A h \in Holders :
          (Held(h)' /\ permits'[h] # permits[h]) => permits'[h].gen = generation
  BY DEF LedgerMove, HolderStep, PermitMove
<1> QED
  BY <1>1, EveryStepMoves, PTL DEF EpochFencesWriters

\* A step that admits a job takes a free permit for that job alone, and no fresh
\* older offer of any lane is overtaken.
THEOREM LedgerAdmitsTheOldest == LedgerSpec => AdmitsTheOldest
<1>1. LedgerMove => \A h \in Holders : (~Held(h) /\ Held(h)') => Admits(h)
  BY DEF LedgerMove, HolderStep, PermitMove, Held
<1>2. LedgerMove => \A h \in Holders :
          (~Held(h) /\ Held(h)') =>
              /\ Occupied < maxJobs
              /\ Occupied' = Occupied + 1
              /\ \A k \in Holders \ {h} :
                    (Known(k) /\ demands[k].state = "eligible" /\ Fresh(demands[k]))
                        => Older(demands'[h], demands[k])
  BY <1>1 DEF Admits
<1> QED
  BY <1>2, EveryStepMoves, PTL DEF AdmitsTheOldest

\* The row of a live native process passes to a new attempt only when that
\* process gave it up and takes it itself.
THEOREM LedgerLiveOwnerKeepsRow == LedgerSpec => LiveNativeOwnerKeepsRow
<1>1. LedgerMove => \A h \in Holders :
          (/\ Held(h) /\ permits[h].lane = "native" /\ permits[h].pid \in alive
           /\ Held(h)' /\ permits'[h].token # permits[h].token)
              => /\ permits[h].state = "uncertain"
                 /\ demands[h].state = "terminal"
                 /\ permits'[h].pid = permits[h].pid
  BY DEF LedgerMove, HolderStep, PermitMove, GivenUp, Held
<1> QED
  BY <1>1, EveryStepMoves, PTL DEF LiveNativeOwnerKeepsRow

\* The migration that gave tokens to old rows gave each row one, once.
MigratedOnce ==
    \A h \in Holders : \A t, u \in Token :
        <<h, t>> \in migrations /\ <<h, u>> \in migrations => t = u

LEMMA MigratedOnceHolds == LedgerSpec => []MigratedOnce
<1>1. LedgerInit => MigratedOnce
  BY DEF LedgerInit, MigratedOnce
<1>2. MigratedOnce /\ [LedgerMove]_ledgerVars => MigratedOnce'
  BY DEF MigratedOnce, LedgerMove, ledgerVars, aux
<1> QED
  BY <1>1, <1>2, EveryStepMoves, PTL DEF LedgerSpec

LEMMA HandoverStep ==
    ASSUME TypeOK, TypeOK', TokensFenceAttempts, MigratedOnce, LedgerMove, NEW h \in Holders,
           Held(h), Held(h)', permits[h].lane = "scaleset"
    PROVE  \/ /\ permits'[h].token = permits[h].token
              /\ permits'[h].rotation = permits[h].rotation
           \/ /\ \/ permits[h].pid \notin alive /\ permits'[h].rotation = Null
                 \/ RotationIsRecorded(h)
              /\ \A k \in Holders : Held(k)' => permits'[k].token # permits[h].token
<1>1. PermitMove(h)
  BY DEF LedgerMove, HolderStep
<1> SUFFICES ASSUME ~(/\ permits'[h].token = permits[h].token
                      /\ permits'[h].rotation = permits[h].rotation)
             PROVE  /\ \/ permits[h].pid \notin alive /\ permits'[h].rotation = Null
                       \/ RotationIsRecorded(h)
                    /\ \A k \in Holders : Held(k)' => permits'[k].token # permits[h].token
  OBVIOUS
<1>2. FreshToken(h) /\ HandedOver(h)
  BY <1>1 DEF PermitMove
<1>3. permits'[h].token # permits[h].token
  BY <1>2 DEF FreshToken, TokenIsUnique
<1>4. permits[h].token \in Token /\ permits'[h].token \in Token
  BY DEF TypeOK, Held, PermitRow
<1>5. Transferred(h) => RotationIsRecorded(h)
  <2>1. <<h, permits[h].token>> \in migrations => <<h, permits'[h].token>> \notin migrations
    BY <1>3, <1>4 DEF MigratedOnce
  <2> QED
    BY <2>1 DEF Transferred, RotationIsRecorded
<1>6. ASSUME NEW k \in Holders, Held(k)', k # h PROVE permits'[k].token # permits[h].token
  <2>1. NewAttempt(h)
    BY <1>3 DEF NewAttempt
  <2>2. ~NewAttempt(k)
    BY <1>6, <2>1 DEF LedgerMove
  <2>3. Held(k) /\ permits'[k].token = permits[k].token
    BY <1>6, <2>2 DEF NewAttempt
  <2> QED
    BY <1>6, <2>3 DEF TokensFenceAttempts, HeldSet
<1> QED
  BY <1>2, <1>3, <1>5, <1>6 DEF HandedOver

\* A Scale Set permit passes to a new attempt from a dead process, or by a rotation
\* of the one recovery claim that the row records until it changes hands again;
\* the token before it is then on no row.
THEOREM LedgerHandoverIsRecorded == LedgerSpec => HandoverIsRecorded
<1>1. TypeOK /\ TypeOK' /\ TokensFenceAttempts /\ MigratedOnce /\ LedgerMove =>
          \A h \in Holders :
              (Held(h) /\ Held(h)' /\ permits[h].lane = "scaleset") =>
                  \/ /\ permits'[h].token = permits[h].token
                     /\ permits'[h].rotation = permits[h].rotation
                  \/ /\ \/ permits[h].pid \notin alive /\ permits'[h].rotation = Null
                        \/ RotationIsRecorded(h)
                     /\ \A k \in Holders : Held(k)' => permits'[k].token # permits[h].token
  BY HandoverStep
<1> QED
  BY <1>1, EveryStepMoves, LedgerTypeCorrect, LedgerTokensFence, MigratedOnceHolds, PTL
     DEF HandoverIsRecorded

\* A job's lane, first-seen time and sequence number survive every step.
THEOREM LedgerTicketsKept == LedgerSpec => TicketsAreKept
<1>1. LedgerMove => \A h \in Holders :
          Known(h) => /\ Known(h)'
                      /\ demands'[h].lane = demands[h].lane
                      /\ demands'[h].first = demands[h].first
                      /\ demands'[h].seq = demands[h].seq
  BY DEF LedgerMove, HolderStep, TicketKept
<1> QED
  BY <1>1, EveryStepMoves, PTL DEF TicketsAreKept

-----------------------------------------------------------------------------
(* Cleanup markers *)

\* Every marker stands for a cancelled job without permit, whatever its token.
MarkersSpent ==
    \A h \in Holders, t \in Token :
        <<h, t>> \in cleanupReleases => ~Held(h) /\ Known(h) /\ demands[h].state = "cancelled"

LEMMA MarkersStep ==
    ASSUME MarkersSpent, LedgerMove
    PROVE  MarkersSpent'
<1> SUFFICES ASSUME NEW h \in Holders, NEW t \in Token, <<h, t>> \in cleanupReleases'
             PROVE  ~Held(h)' /\ Known(h)' /\ demands'[h].state = "cancelled"
  BY DEF MarkersSpent
<1>1. ~Held(h) /\ Known(h) /\ demands[h].state = "cancelled"
  BY DEF LedgerMove, MarkersMove, MarkersSpent
<1>2. ~Held(h)' /\ demands'[h] = demands[h]
  BY <1>1 DEF LedgerMove, HolderStep, ClosedStays, Closed, ClosedStates
<1> QED
  BY <1>1, <1>2 DEF Known

\* A recorded cleanup release never outlives the absence of its job's permit: no
\* later attempt of the job can be taken for released by it.
THEOREM LedgerMarkersAreSpent == LedgerSpec => []CleanupMarkersAreSpent
<1>1. LedgerInit => MarkersSpent
  BY DEF LedgerInit, MarkersSpent
<1>2. MarkersSpent /\ [LedgerMove]_ledgerVars => MarkersSpent'
  <2>1. MarkersSpent /\ UNCHANGED ledgerVars => MarkersSpent'
    BY DEF MarkersSpent, ledgerVars, aux, Held, Known
  <2> QED
    BY <2>1, MarkersStep
<1>3. TypeOK /\ MarkersSpent => CleanupMarkersAreSpent
  BY DEF TypeOK, MarkersSpent, CleanupMarkersAreSpent, Token
<1> QED
  BY <1>1, <1>2, <1>3, EveryStepMoves, LedgerTypeCorrect, PTL DEF LedgerSpec

-----------------------------------------------------------------------------
(* Reconciliation *)

\* No epoch is reconciled before it begins.
EpochsInOrder == reconciledGeneration <= generation

LEMMA AccountsStep ==
    ASSUME TypeOK, EpochsInOrder, ReconciledAccounts, LedgerMove
    PROVE  EpochsInOrder' /\ ReconciledAccounts'
<1>0. generation \in Nat /\ reconciledGeneration \in Nat \cup {-1}
  BY DEF TypeOK
<1>1. CASE UNCHANGED <<generation, reconciledGeneration, confirmed>>
  <2>1. ASSUME Reconciled', NEW h \in HeldSet'
        PROVE  \/ permits'[h].gen = generation'
               \/ permits'[h].state = "cleaning"
               \/ <<h, permits'[h].token>> \in confirmed'
    <3>1. h \in Holders /\ Held(h)' /\ Reconciled
      BY <1>1, <2>1 DEF HeldSet, Reconciled
    <3>2. permits'[h] = permits[h] \/ permits'[h].gen = generation
      BY <3>1 DEF LedgerMove, HolderStep, PermitMove
    <3> QED
      BY <1>1, <3>1, <3>2 DEF ReconciledAccounts, HeldSet, Held
  <2> QED
    BY <1>1, <2>1 DEF EpochsInOrder, ReconciledAccounts
<1>2. CASE BeginEpoch
  <2>1. ~Reconciled' /\ EpochsInOrder'
    BY <1>0, <1>2 DEF BeginEpoch, EpochsInOrder, Reconciled
  <2> QED
    BY <2>1 DEF ReconciledAccounts
<1>3. ASSUME NEW observed \in SUBSET Holders, NEW seen \in [observed -> ObservationKinds],
             Reconcile(seen)
      PROVE  EpochsInOrder' /\ ReconciledAccounts'
  <2>1. generation' = generation /\ reconciledGeneration' = generation
    BY <1>3 DEF Reconcile
  <2>2. ASSUME NEW h \in HeldSet'
        PROVE  \/ permits'[h].gen = generation'
               \/ permits'[h].state = "cleaning"
               \/ <<h, permits'[h].token>> \in confirmed'
    <3>1. h \in Holders /\ Held(h)'
      BY <2>2 DEF HeldSet
    <3>2. ~NewAttempt(h)
      BY <1>3, <3>1, ReconcileMoves
    <3>3. Held(h)
      BY <3>1, <3>2 DEF NewAttempt
    <3> QED
      BY <1>3, <2>1, <3>1, <3>3, ReconcileMoves
  <2> QED
    BY <1>0, <2>1, <2>2 DEF EpochsInOrder, ReconciledAccounts
<1> QED
  BY <1>1, <1>2, <1>3 DEF LedgerMove, EpochMove

\* Once an epoch is reconciled, every permit was written in it, is under a
\* cleanup claim, or was named live by its exact attempt.
THEOREM LedgerReconciledAccounts == LedgerSpec => []ReconciledAccounts
<1>1. LedgerInit => EpochsInOrder /\ ReconciledAccounts
  BY DEF LedgerInit, EpochsInOrder, ReconciledAccounts, Reconciled
<1>2. TypeOK /\ EpochsInOrder /\ ReconciledAccounts /\ [LedgerMove]_ledgerVars
          => EpochsInOrder' /\ ReconciledAccounts'
  <2>1. EpochsInOrder /\ ReconciledAccounts /\ UNCHANGED ledgerVars
            => EpochsInOrder' /\ ReconciledAccounts'
    BY DEF EpochsInOrder, ReconciledAccounts, Reconciled, HeldSet, Held, ledgerVars, meta, aux
  <2> QED
    BY <2>1, AccountsStep
<1> QED
  BY <1>1, <1>2, EveryStepMoves, LedgerTypeCorrect, PTL DEF LedgerSpec

=============================================================================
