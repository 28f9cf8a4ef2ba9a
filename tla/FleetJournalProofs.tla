------------------------- MODULE FleetJournalProofs -------------------------
(***************************************************************************)
(* Proofs about the fleet journal, for every set of slots, jobs and        *)
(* payloads and for every bound.                                           *)
(*                                                                         *)
(* The journal folds the same reducer over two states, the tables and the  *)
(* replay, so what the reducer keeps is stated here of a state `st`: Sound *)
(* is kept by every event that the reducer accepts, and Evolves relates    *)
(* the state an event is applied to and the one that comes out.            *)
(***************************************************************************)
EXTENDS FleetJournal, TLAPS

\* A job is of its slot's generation, and its slot's phase tells of it.
JobsFit(st) ==
    \A j \in JobIds : HasJob(st, j) =>
        /\ st.jobs[j].gen = st.slots[st.jobs[j].slot].gen
        /\ st.slots[st.jobs[j].slot].phase \in {"assigned", "fenced"}

OneJobPerSlot(st) ==
    \A j, k \in JobIds :
        HasJob(st, j) /\ HasJob(st, k) /\ st.jobs[j].slot = st.jobs[k].slot => j = k

AssignedAreOccupied(st) ==
    \A s \in Slots : st.slots[s].phase = "assigned" => Occupied(st, s)

AllOwnersProven(st) == \A j \in JobIds : Pending(st.outbox[j]) => OwnerProven(st, j)

\* Proofs on a slot are of its own generation, and a ready slot has them.
ProofsCurrent(slot) ==
    /\ slot.session \in {0, slot.gen} /\ slot.executor \in {0, slot.gen}
    /\ slot.phase = "ready" =>
        slot.permit /\ slot.registered /\ slot.session # 0 /\ slot.executor # 0

Sound(st) ==
    /\ st \in FleetState
    /\ JobsFit(st) /\ OneJobPerSlot(st) /\ AssignedAreOccupied(st)
    /\ AllOwnersProven(st)
    /\ \A s \in Slots : ProofsCurrent(st.slots[s])

\* What an event may do to a slot, and to a pending completion.
SlotsEvolve(st, nx) ==
    \A s \in Slots :
        /\ nx.slots[s].gen >= st.slots[s].gen
        /\ nx.slots[s].gen # st.slots[s].gen => ~Occupied(st, s)
        /\ st.slots[s].phase = "fenced" /\ nx.slots[s].gen = st.slots[s].gen
              => nx.slots[s].phase = "fenced"

OutboxEvolves(st, nx) ==
    \A j \in JobIds : Pending(st.outbox[j]) /\ Pending(nx.outbox[j]) =>
        LET old == st.outbox[j]
            new == nx.outbox[j]
        IN  /\ <<new.slot, new.gen, new.payload>> = <<old.slot, old.gen, old.payload>>
            /\ old.sent => new.sent
            /\ old.attempts <= new.attempts
            /\ old.permanent => new.permanent

Evolves(st, nx) == SlotsEvolve(st, nx) /\ OutboxEvolves(st, nx)

-----------------------------------------------------------------------------
(* The shape of a state, and updates of one of its rows *)

\* A fleet state is the record of its four tables.
LEMMA StateShape ==
    ASSUME NEW st \in FleetState
    PROVE  /\ st = [slots |-> st.slots, jobs |-> st.jobs, outbox |-> st.outbox,
                    routing |-> st.routing]
           /\ st.slots \in [Slots -> SlotRecord]
           /\ st.jobs \in [JobIds -> JobRecord \cup {Nothing}]
           /\ st.outbox \in [JobIds -> OutboxRecord \cup {Nothing, Terminal}]
           /\ st.routing \in BOOLEAN
  BY DEF FleetState

LEMMA JobIsTyped ==
    ASSUME NEW st \in FleetState, NEW j \in JobIds, HasJob(st, j)
    PROVE  st.jobs[j] \in JobRecord
  BY StateShape DEF HasJob

LEMMA RowIsTyped ==
    ASSUME NEW st \in FleetState, NEW j \in JobIds, Pending(st.outbox[j])
    PROVE  st.outbox[j] \in OutboxRecord
  BY StateShape DEF Pending

LEMMA SameOutboxEvolves ==
    ASSUME NEW st \in FleetState, NEW nx, nx.outbox = st.outbox
    PROVE  OutboxEvolves(st, nx)
  BY RowIsTyped, FleetConstants DEF OutboxEvolves, OutboxRecord

LEMMA SameSlotsEvolve ==
    ASSUME NEW st \in FleetState, NEW nx, nx.slots = st.slots
    PROVE  SlotsEvolve(st, nx)
  BY StateShape, FleetConstants DEF SlotsEvolve, SlotRecord, Generations

\* One slot is rewritten: it keeps its generation and a phase for jobs while
\* it has one, and the proofs it shows are its own.
LEMMA SlotUpdate ==
    ASSUME NEW st, Sound(st), NEW s \in Slots, NEW r \in SlotRecord, ProofsCurrent(r),
           Occupied(st, s) => /\ r.gen = st.slots[s].gen
                              /\ r.phase \in {"assigned", "fenced"},
           r.phase = "assigned" => Occupied(st, s),
           r.gen >= st.slots[s].gen,
           st.slots[s].phase = "fenced" /\ r.gen = st.slots[s].gen => r.phase = "fenced"
    PROVE  /\ Sound([st EXCEPT !.slots[s] = r])
           /\ Evolves(st, [st EXCEPT !.slots[s] = r])
<1> DEFINE nx == [st EXCEPT !.slots[s] = r]
<1>0. st \in FleetState
  BY DEF Sound
<1>1. /\ nx \in FleetState /\ nx.jobs = st.jobs /\ nx.outbox = st.outbox
      /\ nx.slots = [st.slots EXCEPT ![s] = r]
  BY <1>0, StateShape DEF FleetState
<1> HIDE DEF nx
<1>2. \A j \in JobIds : HasJob(nx, j) <=> HasJob(st, j)
  BY <1>1 DEF HasJob
<1>3. \A t \in Slots : Occupied(nx, t) <=> Occupied(st, t)
  BY <1>1, <1>2 DEF Occupied
<1>4. \A t \in Slots : nx.slots[t] = IF t = s THEN r ELSE st.slots[t]
  BY <1>0, <1>1, StateShape
<1>5. \A j \in JobIds : HasJob(st, j) =>
        /\ st.jobs[j].slot \in Slots
        /\ nx.slots[st.jobs[j].slot].gen = st.slots[st.jobs[j].slot].gen
        /\ nx.slots[st.jobs[j].slot].phase \in {"assigned", "fenced"}
  <2> SUFFICES ASSUME NEW j \in JobIds, HasJob(st, j)
               PROVE  /\ st.jobs[j].slot \in Slots
                      /\ nx.slots[st.jobs[j].slot].gen = st.slots[st.jobs[j].slot].gen
                      /\ nx.slots[st.jobs[j].slot].phase \in {"assigned", "fenced"}
    OBVIOUS
  <2>1. st.jobs[j].slot \in Slots
    BY <1>0, JobIsTyped DEF JobRecord
  <2>2. CASE st.jobs[j].slot = s
    BY <1>4, <2>1, <2>2 DEF Occupied
  <2>3. CASE st.jobs[j].slot # s
    BY <1>4, <2>1, <2>3 DEF Sound, JobsFit
  <2> QED
    BY <2>1, <2>2, <2>3
<1>6. JobsFit(nx)
  BY <1>1, <1>2, <1>5 DEF JobsFit, Sound
<1>7. OneJobPerSlot(nx)
  BY <1>1, <1>2 DEF OneJobPerSlot, Sound
<1>8. AssignedAreOccupied(nx)
  BY <1>3, <1>4 DEF AssignedAreOccupied, Sound
<1>9. AllOwnersProven(nx)
  <2> SUFFICES ASSUME NEW j \in JobIds, Pending(nx.outbox[j]) PROVE OwnerProven(nx, j)
    BY DEF AllOwnersProven
  <2>1. OwnerProven(st, j)
    BY <1>1 DEF Sound, AllOwnersProven
  <2> QED
    BY <1>1, <1>2, <1>5, <2>1 DEF OwnerProven
<1>10. \A t \in Slots : ProofsCurrent(nx.slots[t])
  BY <1>4 DEF Sound
<1>11. SlotsEvolve(st, nx)
  BY <1>0, <1>4, FleetConstants, StateShape DEF SlotsEvolve, SlotRecord, Generations
<1>12. Evolves(st, nx)
  BY <1>0, <1>1, <1>11, SameOutboxEvolves DEF Evolves
<1> QED
  BY <1>1, <1>6, <1>7, <1>8, <1>9, <1>10, <1>12 DEF Sound, nx

\* One job's row is rewritten and stays on its slot and at its generation; an
\* owned row does not become provisional again.
LEMMA JobUpdate ==
    ASSUME NEW st, Sound(st), NEW j \in JobIds, HasJob(st, j), NEW r \in JobRecord,
           r.slot = st.jobs[j].slot, r.gen = st.jobs[j].gen,
           r.provisional => st.jobs[j].provisional
    PROVE  Sound([st EXCEPT !.jobs[j] = r]) /\ Evolves(st, [st EXCEPT !.jobs[j] = r])
<1> DEFINE nx == [st EXCEPT !.jobs[j] = r]
<1>0. st \in FleetState /\ r # Nothing
  BY RowMarkers DEF Sound
<1>1. /\ nx \in FleetState /\ nx.slots = st.slots /\ nx.outbox = st.outbox
      /\ nx.jobs = [st.jobs EXCEPT ![j] = r]
  BY <1>0, StateShape DEF FleetState
<1> HIDE DEF nx
<1>2. \A k \in JobIds : nx.jobs[k] = IF k = j THEN r ELSE st.jobs[k]
  BY <1>0, <1>1, StateShape
<1>3. \A k \in JobIds : HasJob(nx, k) <=> HasJob(st, k)
  BY <1>0, <1>2 DEF HasJob
<1>4. \A k \in JobIds : /\ nx.jobs[k].slot = st.jobs[k].slot
                        /\ nx.jobs[k].gen = st.jobs[k].gen
                        /\ nx.jobs[k].provisional => st.jobs[k].provisional
  BY <1>2
<1>5. JobsFit(nx) /\ OneJobPerSlot(nx)
  BY <1>1, <1>3, <1>4 DEF JobsFit, OneJobPerSlot, Sound
<1>6. AssignedAreOccupied(nx)
  BY <1>1, <1>3, <1>4 DEF AssignedAreOccupied, Occupied, Sound
<1>7. AllOwnersProven(nx)
  BY <1>1, <1>3, <1>4 DEF AllOwnersProven, OwnerProven, Sound
<1>8. Evolves(st, nx)
  BY <1>0, <1>1, SameSlotsEvolve, SameOutboxEvolves DEF Evolves
<1> QED
  BY <1>1, <1>5, <1>6, <1>7, <1>8 DEF Sound, nx

\* A provisional row takes a ready slot.
LEMMA IntendedSound ==
    ASSUME NEW st, Sound(st), NEW b, NEW s \in Slots, NEW j \in JobIds, NEW g \in Generations,
           CanIntend(st, b, s, j, g)
    PROVE  Sound(Intended(st, s, j, g)) /\ Evolves(st, Intended(st, s, j, g))
<1> DEFINE nx == Intended(st, s, j, g)
           r == [slot |-> s, gen |-> g, phase |-> "assigned", plan |-> FALSE,
                 provisional |-> TRUE, conclusion |-> Nothing, probes |-> 0]
           slot == [st.slots[s] EXCEPT !.phase = "assigned"]
<1>a. st \in FleetState /\ st.slots[s] \in SlotRecord
  BY StateShape DEF Sound
<1>b. r \in JobRecord
  BY FleetConstants DEF JobRecord, JobPhases
<1>c. slot \in SlotRecord
  BY <1>a DEF SlotRecord, SlotPhases
<1>0. /\ st \in FleetState /\ r \in JobRecord /\ r # Nothing
      /\ st.slots[s] \in SlotRecord /\ slot \in SlotRecord
  BY <1>a, <1>b, <1>c, RowMarkers
<1>1. /\ nx \in FleetState /\ nx.outbox = st.outbox
      /\ nx.slots = [st.slots EXCEPT ![s] = slot]
      /\ nx.jobs = [st.jobs EXCEPT ![j] = r]
  BY <1>0, StateShape DEF FleetState, Intended
<1>2. /\ r.slot = s /\ r.gen = g /\ r.provisional
      /\ slot.gen = g /\ slot.phase = "assigned" /\ slot.session = st.slots[s].session
      /\ slot.executor = st.slots[s].executor
  BY <1>0 DEF CanIntend, SlotRecord
<1> HIDE DEF nx, r, slot
<1>3. \A t \in Slots : nx.slots[t] = IF t = s THEN slot ELSE st.slots[t]
  BY <1>0, <1>1, StateShape
<1>4. \A k \in JobIds : nx.jobs[k] = IF k = j THEN r ELSE st.jobs[k]
  BY <1>0, <1>1, StateShape
<1>5. ~HasJob(st, j) /\ ~Occupied(st, s) /\ HasJob(nx, j)
  <2>1. ASSUME NEW k \in JobIds, HasJob(st, k), st.jobs[k].slot = s PROVE FALSE
    BY <2>1 DEF CanIntend, Sound, JobsFit
  <2> QED
    BY <1>0, <1>4, <2>1 DEF CanIntend, Occupied, HasJob
<1>6. \A k \in JobIds \ {j} : /\ HasJob(nx, k) <=> HasJob(st, k)
                              /\ nx.jobs[k] = st.jobs[k]
                              /\ HasJob(st, k) => st.jobs[k].slot # s /\ st.jobs[k].slot \in Slots
  BY <1>0, <1>4, <1>5, JobIsTyped DEF HasJob, Occupied, JobRecord
<1>7. JobsFit(nx) /\ OneJobPerSlot(nx)
  BY <1>2, <1>3, <1>4, <1>5, <1>6 DEF JobsFit, OneJobPerSlot, Sound
<1>8. AssignedAreOccupied(nx)
  <2> SUFFICES ASSUME NEW t \in Slots, nx.slots[t].phase = "assigned" PROVE Occupied(nx, t)
    BY DEF AssignedAreOccupied
  <2>1. CASE t = s
    BY <1>2, <1>4, <1>5, <2>1 DEF Occupied
  <2>2. CASE t # s
    <3>1. PICK k \in JobIds : HasJob(st, k) /\ st.jobs[k].slot = t
      BY <1>3, <2>2 DEF Sound, AssignedAreOccupied, Occupied
    <3> QED
      BY <1>5, <1>6, <3>1 DEF Occupied
  <2> QED
    BY <2>1, <2>2
<1>9. AllOwnersProven(nx)
  <2> SUFFICES ASSUME NEW k \in JobIds, Pending(nx.outbox[k]) PROVE OwnerProven(nx, k)
    BY DEF AllOwnersProven
  <2>1. OwnerProven(st, k)
    BY <1>1 DEF Sound, AllOwnersProven
  <2>2. HasJob(st, k) /\ k # j
    BY <1>5, <2>1 DEF OwnerProven
  <2> QED
    BY <1>1, <1>3, <1>6, <2>1, <2>2 DEF OwnerProven
<1>10. \A t \in Slots : ProofsCurrent(nx.slots[t])
  BY <1>2, <1>3 DEF Sound, ProofsCurrent, CanIntend
<1>11. Evolves(st, nx)
  <2>1. SlotsEvolve(st, nx)
    BY <1>0, <1>2, <1>3, FleetConstants, StateShape
       DEF SlotsEvolve, CanIntend, SlotRecord, Generations
  <2>2. OutboxEvolves(st, nx)
    BY <1>0, <1>1, SameOutboxEvolves
  <2> QED
    BY <2>1, <2>2 DEF Evolves
<1> QED
  BY <1>1, <1>7, <1>8, <1>9, <1>10, <1>11 DEF Sound, nx

\* One completion row is rewritten: a pending one belongs to the job's owned
\* row, and keeps what an earlier pending one says.
LEMMA OutboxUpdate ==
    ASSUME NEW st, Sound(st), NEW j \in JobIds,
           NEW r \in OutboxRecord \cup {Nothing, Terminal},
           Pending(r) => /\ HasJob(st, j) /\ ~st.jobs[j].provisional
                         /\ r.slot = st.jobs[j].slot /\ r.gen = st.jobs[j].gen,
           Pending(r) /\ Pending(st.outbox[j]) =>
              /\ r.payload = st.outbox[j].payload
              /\ st.outbox[j].sent => r.sent
              /\ st.outbox[j].attempts <= r.attempts
              /\ st.outbox[j].permanent => r.permanent
    PROVE  Sound([st EXCEPT !.outbox[j] = r]) /\ Evolves(st, [st EXCEPT !.outbox[j] = r])
<1> DEFINE nx == [st EXCEPT !.outbox[j] = r]
<1>0. st \in FleetState
  BY DEF Sound
<1>1. /\ nx \in FleetState /\ nx.slots = st.slots /\ nx.jobs = st.jobs
      /\ nx.outbox = [st.outbox EXCEPT ![j] = r]
  BY <1>0, StateShape DEF FleetState
<1> HIDE DEF nx
<1>2. \A k \in JobIds : nx.outbox[k] = IF k = j THEN r ELSE st.outbox[k]
  BY <1>0, <1>1, StateShape
<1>3. \A k \in JobIds : HasJob(nx, k) <=> HasJob(st, k)
  BY <1>1 DEF HasJob
<1>4. JobsFit(nx) /\ OneJobPerSlot(nx) /\ AssignedAreOccupied(nx)
  BY <1>1, <1>3 DEF JobsFit, OneJobPerSlot, AssignedAreOccupied, Occupied, Sound
<1>5. AllOwnersProven(nx)
  <2> SUFFICES ASSUME NEW k \in JobIds, Pending(nx.outbox[k]) PROVE OwnerProven(nx, k)
    BY DEF AllOwnersProven
  <2>1. CASE k = j
    BY <1>1, <1>2, <1>3, <2>1 DEF OwnerProven, Sound, JobsFit
  <2>2. CASE k # j
    BY <1>1, <1>2, <1>3, <2>2 DEF OwnerProven, Sound, AllOwnersProven
  <2> QED
    BY <2>1, <2>2
<1>6. OutboxEvolves(st, nx)
  <2> SUFFICES ASSUME NEW k \in JobIds, Pending(st.outbox[k]), Pending(nx.outbox[k])
               PROVE  LET old == st.outbox[k]
                          new == nx.outbox[k]
                      IN  /\ <<new.slot, new.gen, new.payload>>
                                = <<old.slot, old.gen, old.payload>>
                          /\ old.sent => new.sent
                          /\ old.attempts <= new.attempts
                          /\ old.permanent => new.permanent
    BY DEF OutboxEvolves
  <2>1. CASE k # j
    BY <1>0, <1>2, <2>1, RowIsTyped, FleetConstants DEF OutboxRecord
  <2>2. CASE k = j
    <3>1. OwnerProven(st, j)
      BY <2>2 DEF Sound, AllOwnersProven
    <3> QED
      BY <1>2, <2>2, <3>1 DEF OwnerProven
  <2> QED
    BY <2>1, <2>2
<1>7. Evolves(st, nx)
  BY <1>0, <1>1, <1>6, SameSlotsEvolve DEF Evolves
<1> QED
  BY <1>1, <1>4, <1>5, <1>7 DEF Sound, nx

\* A job without a pending completion leaves, and its slot is restored.
LEMMA WithoutJobSound ==
    ASSUME NEW st, Sound(st), NEW j \in JobIds, HasJob(st, j), ~Pending(st.outbox[j])
    PROVE  Sound(WithoutJob(st, j)) /\ Evolves(st, WithoutJob(st, j))
<1> DEFINE nx == WithoutJob(st, j)
           s == st.jobs[j].slot
           phase == PhaseWithout(st.slots[s], st.jobs[j].gen)
           slot == [st.slots[s] EXCEPT !.phase = phase]
<1>0. /\ st \in FleetState /\ s \in Slots /\ st.slots[s] \in SlotRecord
      /\ st.jobs[j] \in JobRecord
  BY JobIsTyped, StateShape DEF Sound, JobRecord
<1>1. /\ st.jobs[j].gen = st.slots[s].gen
      /\ st.slots[s].phase \in {"assigned", "fenced"}
  BY DEF Sound, JobsFit
<1>2. /\ phase \in {"fenced", "ready", "registered", "provisioning"}
      /\ st.slots[s].phase = "fenced" => phase = "fenced"
      /\ phase = "ready" => ReadyProof(st.slots[s]) /\ st.slots[s].registered
  BY <1>1 DEF PhaseWithout
<1>3. slot \in SlotRecord
  BY <1>0, <1>2 DEF SlotRecord, SlotPhases
<1>4. /\ nx \in FleetState /\ nx.outbox = st.outbox
      /\ nx.jobs = [st.jobs EXCEPT ![j] = Nothing]
      /\ nx.slots = [st.slots EXCEPT ![s] = slot]
  BY <1>0, <1>3, StateShape DEF FleetState, WithoutJob
<1>5. /\ slot.gen = st.slots[s].gen /\ slot.phase = phase
      /\ slot.session = st.slots[s].session /\ slot.executor = st.slots[s].executor
      /\ slot.permit = st.slots[s].permit /\ slot.registered = st.slots[s].registered
  BY <1>0 DEF SlotRecord
<1> HIDE DEF nx, s, phase, slot
<1>6. \A t \in Slots : nx.slots[t] = IF t = s THEN slot ELSE st.slots[t]
  BY <1>0, <1>4, StateShape
<1>7. \A k \in JobIds : nx.jobs[k] = IF k = j THEN Nothing ELSE st.jobs[k]
  BY <1>0, <1>4, StateShape
<1>8. \A k \in JobIds : HasJob(nx, k) =>
        /\ k # j /\ HasJob(st, k) /\ nx.jobs[k] = st.jobs[k]
        /\ st.jobs[k].slot # s /\ st.jobs[k].slot \in Slots
  BY <1>0, <1>7, JobIsTyped DEF HasJob, Sound, OneJobPerSlot, s, JobRecord
<1>9. JobsFit(nx) /\ OneJobPerSlot(nx)
  BY <1>6, <1>8 DEF JobsFit, OneJobPerSlot, Sound
<1>10. AssignedAreOccupied(nx)
  <2> SUFFICES ASSUME NEW t \in Slots, nx.slots[t].phase = "assigned" PROVE Occupied(nx, t)
    BY DEF AssignedAreOccupied
  <2>1. t # s /\ st.slots[t].phase = "assigned"
    BY <1>2, <1>5, <1>6
  <2>2. PICK k \in JobIds : HasJob(st, k) /\ st.jobs[k].slot = t
    BY <2>1 DEF Sound, AssignedAreOccupied, Occupied
  <2>3. k # j
    BY <2>1, <2>2 DEF s
  <2> QED
    BY <1>7, <2>2, <2>3 DEF Occupied, HasJob
<1>11. AllOwnersProven(nx)
  <2> SUFFICES ASSUME NEW k \in JobIds, Pending(nx.outbox[k]) PROVE OwnerProven(nx, k)
    BY DEF AllOwnersProven
  <2>1. k # j /\ OwnerProven(st, k)
    BY <1>4 DEF Sound, AllOwnersProven
  <2>2. HasJob(nx, k) /\ nx.jobs[k] = st.jobs[k] /\ st.jobs[k].slot = st.outbox[k].slot
    BY <1>7, <2>1 DEF OwnerProven, HasJob
  <2>3. nx.slots[st.outbox[k].slot] = st.slots[st.outbox[k].slot]
    BY <1>6, <1>8, <2>2
  <2> QED
    BY <1>4, <2>1, <2>2, <2>3 DEF OwnerProven
<1>12. \A t \in Slots : ProofsCurrent(nx.slots[t])
  BY <1>0, <1>2, <1>5, <1>6 DEF Sound, ProofsCurrent, ReadyProof
<1>13. Evolves(st, nx)
  <2>1. SlotsEvolve(st, nx)
    BY <1>0, <1>2, <1>5, <1>6, FleetConstants, StateShape
       DEF SlotsEvolve, SlotRecord, Generations
  <2> QED
    BY <1>0, <1>4, <2>1, SameOutboxEvolves DEF Evolves
<1> QED
  BY <1>4, <1>9, <1>10, <1>11, <1>12, <1>13 DEF Sound, nx

\* A settled completion takes its job with it.
LEMMA SettledSound ==
    ASSUME NEW st, Sound(st), NEW j \in JobIds, HasJob(st, j)
    PROVE  Sound(Settled(st, j)) /\ Evolves(st, Settled(st, j))
<1> DEFINE mid == [st EXCEPT !.outbox[j] = Terminal]
           nx == Settled(st, j)
<1>0. st \in FleetState /\ ~Pending(Terminal)
  BY DEF Sound, Pending
<1>1. Sound(mid)
  BY <1>0, OutboxUpdate
<1>2. /\ mid.slots = st.slots /\ mid.jobs = st.jobs
      /\ mid.outbox = [st.outbox EXCEPT ![j] = Terminal]
  BY <1>0, StateShape DEF FleetState
<1>3. nx = WithoutJob(mid, j)
  BY DEF Settled
<1>4. WithoutJob(mid, j).outbox = mid.outbox
  BY <1>1, StateShape DEF Sound, FleetState, WithoutJob
<1> HIDE DEF mid, nx
<1>5. HasJob(mid, j) /\ ~Pending(mid.outbox[j])
  BY <1>0, <1>2, StateShape DEF HasJob
<1>6. Sound(nx) /\ Evolves(mid, nx)
  BY <1>1, <1>3, <1>5, WithoutJobSound
<1>7. \A s \in Slots : Occupied(mid, s) <=> Occupied(st, s)
  BY <1>2 DEF Occupied, HasJob
<1>8. SlotsEvolve(st, nx)
  BY <1>2, <1>6, <1>7 DEF Evolves, SlotsEvolve
<1>9. OutboxEvolves(st, nx)
  <2>1. \A k \in JobIds : Pending(nx.outbox[k]) => nx.outbox[k] = st.outbox[k]
    BY <1>0, <1>2, <1>3, <1>4, StateShape
  <2> QED
    BY <1>0, <2>1, RowIsTyped, FleetConstants DEF OutboxEvolves, OutboxRecord
<1> QED
  BY <1>6, <1>8, <1>9 DEF Evolves, nx

\* The row of an acquisition moves to the identity that the reply named.
LEMMA ResolvedSound ==
    ASSUME NEW st, Sound(st), NEW i \in JobIds, NEW j \in JobIds, NEW g \in Generations,
           CanResolve(st, i, j, g)
    PROVE  Sound(Resolved(st, i, j)) /\ Evolves(st, Resolved(st, i, j))
<1> DEFINE nx == Resolved(st, i, j)
           r == [st.jobs[i] EXCEPT !.plan = TRUE]
<1>0. /\ st \in FleetState /\ HasJob(st, i) /\ st.jobs[i].provisional
      /\ i # j => ~HasJob(st, j)
  BY DEF Sound, CanResolve, ProvisionalRow
<1>1. st.jobs[i] \in JobRecord
  BY <1>0, JobIsTyped
<1>2. /\ r \in JobRecord /\ r.slot = st.jobs[i].slot /\ r.gen = st.jobs[i].gen
      /\ r.provisional
  BY <1>0, <1>1 DEF JobRecord
<1>3. /\ nx \in FleetState /\ nx.slots = st.slots /\ nx.outbox = st.outbox
      /\ nx.jobs = [[st.jobs EXCEPT ![i] = Nothing] EXCEPT ![j] = r]
  BY <1>0, <1>2, StateShape DEF FleetState, Resolved
<1> HIDE DEF nx, r
<1>4. \A k \in JobIds : nx.jobs[k] = IF k = j THEN r ELSE IF k = i THEN Nothing ELSE st.jobs[k]
  BY <1>0, <1>3, StateShape
<1>5. HasJob(nx, j) /\ r # Nothing
  BY <1>2, <1>4, RowMarkers DEF HasJob
<1>6. \A k \in JobIds \ {i, j} : /\ HasJob(nx, k) <=> HasJob(st, k)
                                 /\ nx.jobs[k] = st.jobs[k]
  BY <1>4 DEF HasJob
<1>7. i # j => ~HasJob(nx, i)
  BY <1>4 DEF HasJob
<1>8. JobsFit(nx)
  BY <1>0, <1>2, <1>3, <1>4, <1>5, <1>6, <1>7 DEF JobsFit, Sound
<1>9. OneJobPerSlot(nx)
  BY <1>0, <1>2, <1>3, <1>4, <1>5, <1>6, <1>7 DEF OneJobPerSlot, Sound
<1>10. AssignedAreOccupied(nx)
  <2> SUFFICES ASSUME NEW t \in Slots, nx.slots[t].phase = "assigned" PROVE Occupied(nx, t)
    BY DEF AssignedAreOccupied
  <2>1. PICK k \in JobIds : HasJob(st, k) /\ st.jobs[k].slot = t
    BY <1>3 DEF Sound, AssignedAreOccupied, Occupied
  <2>2. CASE k \in {i, j}
    BY <1>0, <1>2, <1>4, <1>5, <2>1, <2>2 DEF Occupied
  <2>3. CASE k \notin {i, j}
    BY <1>6, <2>1, <2>3 DEF Occupied
  <2> QED
    BY <2>2, <2>3
<1>11. AllOwnersProven(nx)
  <2> SUFFICES ASSUME NEW k \in JobIds, Pending(nx.outbox[k]) PROVE OwnerProven(nx, k)
    BY DEF AllOwnersProven
  <2>1. OwnerProven(st, k)
    BY <1>3 DEF Sound, AllOwnersProven
  <2>2. k \notin {i, j}
    BY <1>0, <2>1 DEF OwnerProven
  <2> QED
    BY <1>3, <1>6, <2>1, <2>2 DEF OwnerProven
<1>12. Evolves(st, nx)
  BY <1>0, <1>3, SameSlotsEvolve, SameOutboxEvolves DEF Evolves
<1> QED
  BY <1>3, <1>8, <1>9, <1>10, <1>11, <1>12 DEF Sound, nx

\* All slots are rewritten without a change of generation: each is left as it
\* was or fenced, apart from its routing.
LEMMA AllSlotsSound ==
    ASSUME NEW st, Sound(st), NEW new \in [Slots -> SlotRecord], NEW v \in BOOLEAN,
           \A s \in Slots :
              /\ new[s].gen = st.slots[s].gen /\ ProofsCurrent(new[s])
              /\ new[s].phase \in {st.slots[s].phase, "fenced"}
    PROVE  /\ Sound([st EXCEPT !.routing = v, !.slots = new])
           /\ Evolves(st, [st EXCEPT !.routing = v, !.slots = new])
<1> DEFINE nx == [st EXCEPT !.routing = v, !.slots = new]
<1>0. st \in FleetState
  BY DEF Sound
<1>1. nx \in FleetState /\ nx.slots = new /\ nx.jobs = st.jobs /\ nx.outbox = st.outbox
  BY <1>0, StateShape DEF FleetState
<1> HIDE DEF nx
<1>2. \A k \in JobIds : /\ HasJob(nx, k) <=> HasJob(st, k)
                        /\ HasJob(st, k) => st.jobs[k].slot \in Slots
  BY <1>0, <1>1, JobIsTyped DEF HasJob, JobRecord
<1>3. JobsFit(nx) /\ OneJobPerSlot(nx)
  BY <1>1, <1>2 DEF JobsFit, OneJobPerSlot, Sound
<1>4. AssignedAreOccupied(nx)
  BY <1>1, <1>2 DEF AssignedAreOccupied, Occupied, Sound
<1>5. AllOwnersProven(nx)
  BY <1>1, <1>2 DEF AllOwnersProven, OwnerProven, Sound
<1>6. SlotsEvolve(st, nx)
  BY <1>0, <1>1, FleetConstants, StateShape DEF SlotsEvolve, SlotRecord, Generations
<1>7. Evolves(st, nx)
  BY <1>0, <1>1, <1>6, SameOutboxEvolves DEF Evolves
<1> QED
  BY <1>1, <1>3, <1>4, <1>5, <1>7 DEF Sound, nx

-----------------------------------------------------------------------------
(* Every accepted event keeps a state sound *)

LEMMA RoutedSound ==
    ASSUME NEW st, Sound(st), NEW v \in BOOLEAN
    PROVE  Sound(Routed(st, v)) /\ Evolves(st, Routed(st, v))
<1> DEFINE new == [s \in Slots |-> [st.slots[s] EXCEPT !.routing = v]]
<1>1. st \in FleetState /\ st.slots \in [Slots -> SlotRecord]
  BY StateShape DEF Sound
<1>2. new \in [Slots -> SlotRecord]
  BY <1>1 DEF SlotRecord
<1>3. \A s \in Slots : /\ new[s].gen = st.slots[s].gen /\ new[s].phase = st.slots[s].phase
                       /\ ProofsCurrent(new[s])
  BY <1>1 DEF Sound, ProofsCurrent, SlotRecord
<1>4. Routed(st, v) = [st EXCEPT !.routing = v, !.slots = new]
  BY <1>1 DEF Routed, FleetState
<1> HIDE DEF new
<1>5. \A s \in Slots :
        /\ new[s].gen = st.slots[s].gen /\ ProofsCurrent(new[s])
        /\ new[s].phase \in {st.slots[s].phase, "fenced"}
  BY <1>3
<1>6. /\ Sound([st EXCEPT !.routing = v, !.slots = new])
      /\ Evolves(st, [st EXCEPT !.routing = v, !.slots = new])
  BY <1>2, <1>5, AllSlotsSound
<1> QED
  BY <1>3, <1>4, <1>6

LEMMA AllFencedSound ==
    ASSUME NEW st, Sound(st)
    PROVE  /\ Sound(AllFenced(st)) /\ Evolves(st, AllFenced(st))
           /\ \A s \in Slots : AllFenced(st).slots[s].phase = "fenced"
<1> DEFINE new == [s \in Slots |-> [st.slots[s] EXCEPT !.phase = "fenced"]]
<1>1. /\ st \in FleetState /\ st.slots \in [Slots -> SlotRecord]
      /\ st.routing \in BOOLEAN
  BY StateShape DEF Sound
<1>2. new \in [Slots -> SlotRecord]
  BY <1>1 DEF SlotRecord, SlotPhases
<1>3. \A s \in Slots : /\ new[s].gen = st.slots[s].gen /\ new[s].phase = "fenced"
                       /\ ProofsCurrent(new[s])
  BY <1>1 DEF Sound, ProofsCurrent, SlotRecord
<1>4. /\ AllFenced(st) = [st EXCEPT !.routing = st.routing, !.slots = new]
      /\ AllFenced(st).slots = new
  BY <1>1 DEF AllFenced, FleetState
<1> HIDE DEF new
<1>5. \A s \in Slots :
        /\ new[s].gen = st.slots[s].gen /\ ProofsCurrent(new[s])
        /\ new[s].phase \in {st.slots[s].phase, "fenced"}
  BY <1>3
<1>6. /\ Sound([st EXCEPT !.routing = st.routing, !.slots = new])
      /\ Evolves(st, [st EXCEPT !.routing = st.routing, !.slots = new])
  BY <1>1, <1>2, <1>5, AllSlotsSound
<1> QED
  BY <1>3, <1>4, <1>6

\* A pending completion of a slot occupies it, so an unoccupied slot of a sound
\* state is not blocked.
LEMMA BlockedMeansOccupied ==
    ASSUME NEW st, Sound(st), NEW s \in Slots, NEW g, Blocked(st, s, g)
    PROVE  Occupied(st, s)
<1> SUFFICES ASSUME OutboxBlocks(st, s, g) PROVE Occupied(st, s)
  BY DEF Blocked
<1>1. PICK j \in JobIds : /\ Pending(st.outbox[j])
                          /\ st.outbox[j].slot = s \/ ~OwnerProven(st, j)
  BY DEF OutboxBlocks
<1>2. OwnerProven(st, j)
  BY <1>1 DEF Sound, AllOwnersProven
<1> QED
  BY <1>1, <1>2 DEF OwnerProven, Occupied

LEMMA ReservedSound ==
    ASSUME NEW st, Sound(st), NEW b, NEW s \in Slots, NEW g \in Generations,
           CanReserve(st, b, s, g)
    PROVE  Sound(Reserved(st, s, g)) /\ Evolves(st, Reserved(st, s, g))
<1> DEFINE old == st.slots[s]
           r == SlotReserved(st, old, g)
<1>1. st \in FleetState /\ old \in SlotRecord /\ st.routing \in BOOLEAN /\ ProofsCurrent(old)
  BY StateShape DEF Sound
<1>2. /\ g >= old.gen /\ ~Occupied(st, s)
      /\ ~(g = old.gen /\ old.phase = "fenced")
      /\ old.phase # "assigned"
  BY DEF CanReserve, Blocked, Sound, AssignedAreOccupied
<1>3. r \in SlotRecord /\ r.gen = g /\ ProofsCurrent(r) /\ r.phase # "assigned"
  <2>1. CASE g > old.gen
    <3> DEFINE n == [gen |-> g, phase |-> "provisioning", permit |-> TRUE,
                     routing |-> st.routing, session |-> 0, executor |-> 0,
                     registered |-> FALSE]
    <3>1. r = n
      BY <2>1 DEF SlotReserved, NewSlot
    <3>2. n \in SlotRecord
      BY <1>1, FleetConstants DEF SlotRecord, SlotPhases
    <3> QED
      BY <3>1, <3>2 DEF ProofsCurrent
  <2>2. CASE ~(g > old.gen)
    <3> DEFINE phase == IF old.phase = "absent" THEN "provisioning" ELSE old.phase
               n == [old EXCEPT !.permit = TRUE, !.routing = st.routing, !.phase = phase]
    <3>1. r = n /\ g = old.gen
      BY <1>1, <1>2, <2>2, FleetConstants DEF SlotReserved, SlotRecord, Generations
    <3>2. phase \in SlotPhases /\ phase # "assigned" /\ (phase = "ready" => old.phase = "ready")
      BY <1>1, <1>2 DEF SlotRecord, SlotPhases
    <3> HIDE DEF phase
    <3>3. /\ n \in SlotRecord /\ n.gen = old.gen /\ n.phase = phase /\ n.permit
          /\ n.session = old.session /\ n.executor = old.executor
          /\ n.registered = old.registered
      BY <1>1, <3>2 DEF SlotRecord
    <3> QED
      BY <1>1, <3>1, <3>2, <3>3 DEF ProofsCurrent
  <2> QED
    BY <2>1, <2>2
<1>5. Reserved(st, s, g) = [st EXCEPT !.slots[s] = r]
  BY <1>1 DEF Reserved, FleetState
<1> HIDE DEF r
<1> QED
  BY <1>2, <1>3, <1>5, SlotUpdate

\* ExecutorProven and SessionLive
LEMMA ProvenSound ==
    ASSUME NEW st, Sound(st), NEW s \in Slots, NEW g \in Generations, CanProve(st, s, g)
    PROVE  /\ Sound([st EXCEPT !.slots[s].executor = g])
           /\ Evolves(st, [st EXCEPT !.slots[s].executor = g])
           /\ Sound([st EXCEPT !.slots[s].session = g])
           /\ Evolves(st, [st EXCEPT !.slots[s].session = g])
<1> DEFINE old == st.slots[s]
           e == [old EXCEPT !.executor = g]
           l == [old EXCEPT !.session = g]
<1>1. st \in FleetState /\ old \in SlotRecord /\ ProofsCurrent(old) /\ g = old.gen
  BY StateShape DEF Sound, CanProve
<1>2. e \in SlotRecord /\ l \in SlotRecord
  BY <1>1, FleetConstants DEF SlotRecord, Generations
<1>3. /\ e.gen = old.gen /\ e.phase = old.phase /\ ProofsCurrent(e)
      /\ l.gen = old.gen /\ l.phase = old.phase /\ ProofsCurrent(l)
  BY <1>1, FleetConstants DEF SlotRecord, Generations, ProofsCurrent
<1>4. /\ [st EXCEPT !.slots[s].executor = g] = [st EXCEPT !.slots[s] = e]
      /\ [st EXCEPT !.slots[s].session = g] = [st EXCEPT !.slots[s] = l]
  BY <1>1 DEF FleetState
<1>5. /\ Occupied(st, s) => old.phase \in {"assigned", "fenced"}
      /\ old.phase = "assigned" => Occupied(st, s)
      /\ old.gen >= old.gen
  BY <1>1, FleetConstants
     DEF Sound, JobsFit, Occupied, AssignedAreOccupied, SlotRecord, Generations
<1> HIDE DEF e, l
<1>6. /\ Sound([st EXCEPT !.slots[s] = e])
      /\ Evolves(st, [st EXCEPT !.slots[s] = e])
  BY <1>2, <1>3, <1>5, SlotUpdate
<1>7. /\ Sound([st EXCEPT !.slots[s] = l])
      /\ Evolves(st, [st EXCEPT !.slots[s] = l])
  BY <1>2, <1>3, <1>5, SlotUpdate
<1> QED
  BY <1>4, <1>6, <1>7

LEMMA WasRegisteredSound ==
    ASSUME NEW st, Sound(st), NEW b, NEW s \in Slots, NEW g \in Generations,
           CanRegister(st, b, s, g)
    PROVE  Sound(WasRegistered(st, s)) /\ Evolves(st, WasRegistered(st, s))
<1> DEFINE old == st.slots[s]
           r == [old EXCEPT !.registered = TRUE, !.phase = "registered"]
<1>1. st \in FleetState /\ old \in SlotRecord /\ ProofsCurrent(old)
  BY StateShape DEF Sound
<1>2. ~Occupied(st, s) /\ old.phase # "fenced"
  BY DEF CanRegister, Blocked, CanProve
<1>3. r \in SlotRecord /\ r.gen = old.gen /\ r.phase = "registered" /\ ProofsCurrent(r)
  BY <1>1 DEF SlotRecord, SlotPhases, ProofsCurrent
<1>4. WasRegistered(st, s) = [st EXCEPT !.slots[s] = r]
  BY <1>1 DEF FleetState, WasRegistered
<1>5. r.gen >= old.gen
  BY <1>1, <1>3, FleetConstants DEF SlotRecord, Generations
<1> HIDE DEF r
<1> QED
  BY <1>2, <1>3, <1>4, <1>5, SlotUpdate

LEMMA UnregisteredSound ==
    ASSUME NEW st, Sound(st), NEW s \in Slots, NEW g \in Generations,
           CanLoseRegistration(st, s, g)
    PROVE  Sound(Unregistered(st, s, g)) /\ Evolves(st, Unregistered(st, s, g))
<1> DEFINE old == st.slots[s]
           phase == IF Blocked(st, s, g) THEN "fenced" ELSE "provisioning"
           r == [old EXCEPT !.registered = FALSE, !.permit = FALSE, !.session = 0,
                            !.phase = phase]
<1>1. st \in FleetState /\ old \in SlotRecord /\ ProofsCurrent(old)
  BY StateShape DEF Sound
<1>2. /\ old.phase # "fenced" /\ phase \in {"fenced", "provisioning"}
      /\ Occupied(st, s) => phase = "fenced"
  BY DEF CanLoseRegistration, Blocked, CanProve
<1>0. Unregistered(st, s, g) =
          [st EXCEPT !.slots[s].registered = FALSE, !.slots[s].permit = FALSE,
                     !.slots[s].session = 0, !.slots[s].phase = phase]
  BY DEF Unregistered
<1> HIDE DEF phase
<1>3. Unregistered(st, s, g) = [st EXCEPT !.slots[s] = r]
  <2>1. [st EXCEPT !.slots[s].registered = FALSE, !.slots[s].permit = FALSE] =
            [st EXCEPT !.slots[s] = [old EXCEPT !.registered = FALSE, !.permit = FALSE]]
    BY <1>1 DEF FleetState
  <2> DEFINE half == [old EXCEPT !.registered = FALSE, !.permit = FALSE]
             mid == [st EXCEPT !.slots[s] = half]
  <2>2. mid \in [slots : [Slots -> SlotRecord], jobs : {st.jobs}, outbox : {st.outbox},
                 routing : {st.routing}]
        /\ mid.slots[s] = half
    <3>1. half \in SlotRecord
      BY <1>1 DEF SlotRecord
    <3> QED
      BY <1>1, <3>1 DEF FleetState
  <2>3. [mid EXCEPT !.slots[s].session = 0, !.slots[s].phase = phase] =
            [mid EXCEPT !.slots[s] = [half EXCEPT !.session = 0, !.phase = phase]]
    <3> HIDE DEF half, mid
    <3> QED
      BY <2>2
  <2>4. [mid EXCEPT !.slots[s] = r] = [st EXCEPT !.slots[s] = r]
    BY <1>1 DEF FleetState
  <2> QED
    BY <1>0, <2>1, <2>3, <2>4
<1>a. /\ r.gen = old.gen /\ r.phase = phase /\ r.session = 0 /\ r.executor = old.executor
      /\ r \in SlotRecord
  <2>1. 0 \in 0 .. MaxGeneration /\ phase \in SlotPhases
    BY <1>2, FleetConstants DEF SlotPhases
  <2> QED
    BY <1>1, <2>1 DEF SlotRecord
<1>4. r \in SlotRecord /\ r.gen = old.gen /\ r.phase = phase /\ ProofsCurrent(r)
  BY <1>1, <1>2, <1>a DEF ProofsCurrent
<1>5. r.gen >= old.gen
  BY <1>1, <1>4, FleetConstants DEF SlotRecord, Generations
<1> HIDE DEF r
<1> QED
  BY <1>2, <1>3, <1>4, <1>5, SlotUpdate

LEMMA ReadySound ==
    ASSUME NEW st, Sound(st), NEW b, NEW s \in Slots, NEW g \in Generations,
           CanBeReady(st, b, s, g)
    PROVE  /\ Sound([st EXCEPT !.slots[s].phase = "ready"])
           /\ Evolves(st, [st EXCEPT !.slots[s].phase = "ready"])
<1> DEFINE old == st.slots[s]
           r == [old EXCEPT !.phase = "ready"]
<1>1. st \in FleetState /\ old \in SlotRecord /\ ProofsCurrent(old)
  BY StateShape DEF Sound
<1>2. ~Occupied(st, s) /\ old.phase # "fenced" /\ ReadyProof(old) /\ old.registered
  BY DEF CanBeReady, CanRegister, Blocked, CanProve
<1>3. r \in SlotRecord /\ r.gen = old.gen /\ r.phase = "ready" /\ ProofsCurrent(r)
  BY <1>1, <1>2 DEF SlotRecord, SlotPhases, ProofsCurrent, ReadyProof
<1>4. [st EXCEPT !.slots[s].phase = "ready"] = [st EXCEPT !.slots[s] = r]
  BY <1>1 DEF FleetState
<1>5. r.gen >= old.gen
  BY <1>1, <1>3, FleetConstants DEF SlotRecord, Generations
<1> HIDE DEF r
<1> QED
  BY <1>2, <1>3, <1>4, <1>5, SlotUpdate

LEMMA SlotFencedSound ==
    ASSUME NEW st, Sound(st), NEW s \in Slots, NEW g \in Generations, CanGoStale(st, s, g)
    PROVE  Sound(SlotFenced(st, s)) /\ Evolves(st, SlotFenced(st, s))
<1> DEFINE old == st.slots[s]
           r == [old EXCEPT !.phase = "fenced"]
<1>1. st \in FleetState /\ old \in SlotRecord /\ ProofsCurrent(old) /\ ~Occupied(st, s)
  BY StateShape DEF Sound, CanGoStale
<1>2. r \in SlotRecord /\ r.gen = old.gen /\ r.phase = "fenced" /\ ProofsCurrent(r)
  BY <1>1 DEF SlotRecord, SlotPhases, ProofsCurrent
<1>3. SlotFenced(st, s) = [st EXCEPT !.slots[s] = r]
  BY <1>1 DEF FleetState, SlotFenced
<1>4. r.gen >= old.gen
  BY <1>1, <1>2, FleetConstants DEF SlotRecord, Generations
<1> HIDE DEF r
<1> QED
  BY <1>1, <1>2, <1>3, <1>4, SlotUpdate

LEMMA ProbedSound ==
    ASSUME NEW st, Sound(st), NEW j \in JobIds, NEW g \in Generations,
           ProvisionalRow(st, j, g), st.jobs[j].probes < MaxProbes
    PROVE  /\ Sound([st EXCEPT !.jobs[j].probes = @ + 1])
           /\ Evolves(st, [st EXCEPT !.jobs[j].probes = @ + 1])
<1> DEFINE old == st.jobs[j]
           n == old.probes + 1
           r == [old EXCEPT !.probes = n]
<1>1. st \in FleetState /\ HasJob(st, j) /\ old \in JobRecord
  BY JobIsTyped DEF Sound, ProvisionalRow
<1>2. n \in 0 .. MaxProbes
  BY <1>1, FleetConstants DEF JobRecord
<1>3. [st EXCEPT !.jobs[j].probes = @ + 1] = [st EXCEPT !.jobs[j] = r]
  BY <1>1 DEF FleetState
<1> HIDE DEF n
<1>4. /\ r \in JobRecord /\ r.slot = old.slot /\ r.gen = old.gen
      /\ r.provisional = old.provisional
  BY <1>1, <1>2 DEF JobRecord
<1> HIDE DEF r
<1> QED
  BY <1>1, <1>3, <1>4, JobUpdate

\* An owner takes the slot's one job: there is a job on an assigned slot, and
\* CanOwn looks for any other than j.
LEMMA OwnedSound ==
    ASSUME NEW st, Sound(st), NEW j \in JobIds, NEW s \in Slots, NEW g \in Generations,
           NEW h, CanOwn(st, j, s, g, h)
    PROVE  Sound(OwnedRow(st, j, s, g)) /\ Evolves(st, OwnedRow(st, j, s, g))
<1> DEFINE old == st.jobs[j]
           plan == HasJob(st, j) /\ st.jobs[j].plan
           r == [slot |-> s, gen |-> g, phase |-> "assigned", plan |-> plan,
                 provisional |-> FALSE, conclusion |-> Nothing, probes |-> 0]
<1>1. HasJob(st, j) /\ old.slot = s
  <2>1. CASE st.slots[s].phase = "assigned"
    <3>1. PICK k \in JobIds : HasJob(st, k) /\ st.jobs[k].slot = s
      BY <2>1 DEF Sound, AssignedAreOccupied, Occupied
    <3> QED
      BY <3>1 DEF CanOwn
  <2>2. CASE st.slots[s].phase # "assigned"
    BY <2>2 DEF CanOwn, ProvisionalRow
  <2> QED
    BY <2>1, <2>2
<1>2. st \in FleetState /\ old \in JobRecord /\ old.gen = g
  BY <1>1, JobIsTyped DEF Sound, JobsFit, CanOwn
<1>3. plan \in BOOLEAN
  BY <1>1, <1>2 DEF JobRecord
<1>4. OwnedRow(st, j, s, g) = [st EXCEPT !.jobs[j] = r]
  BY DEF OwnedRow
<1> HIDE DEF plan
<1>5. r \in JobRecord /\ r.slot = old.slot /\ r.gen = old.gen /\ ~r.provisional
  BY <1>1, <1>2, <1>3, FleetConstants DEF JobRecord, JobPhases
<1> HIDE DEF r
<1> QED
  BY <1>1, <1>4, <1>5, JobUpdate

LEMMA StartedSound ==
    ASSUME NEW st, Sound(st), NEW j \in JobIds, HasJob(st, j), NEW p \in JobPhases
    PROVE  /\ Sound([st EXCEPT !.jobs[j].phase = p])
           /\ Evolves(st, [st EXCEPT !.jobs[j].phase = p])
<1> DEFINE old == st.jobs[j]
           r == [old EXCEPT !.phase = p]
<1>1. st \in FleetState /\ old \in JobRecord
  BY JobIsTyped DEF Sound
<1>2. [st EXCEPT !.jobs[j].phase = p] = [st EXCEPT !.jobs[j] = r]
  BY <1>1 DEF FleetState
<1>3. /\ r \in JobRecord /\ r.slot = old.slot /\ r.gen = old.gen
      /\ r.provisional = old.provisional
  BY <1>1 DEF JobRecord
<1> HIDE DEF r
<1> QED
  BY <1>2, <1>3, JobUpdate

LEMMA ConcludedSound ==
    ASSUME NEW st, Sound(st), NEW j \in JobIds, HasJob(st, j), NEW c \in Conclusions
    PROVE  Sound(Concluded(st, j, c)) /\ Evolves(st, Concluded(st, j, c))
<1> DEFINE old == st.jobs[j]
           r == [old EXCEPT !.conclusion = c, !.phase = "completing"]
<1>1. st \in FleetState /\ old \in JobRecord
  BY JobIsTyped DEF Sound
<1>2. Concluded(st, j, c) = [st EXCEPT !.jobs[j] = r]
  BY <1>1 DEF FleetState, Concluded
<1>3. /\ r \in JobRecord /\ r.slot = old.slot /\ r.gen = old.gen
      /\ r.provisional = old.provisional
  BY <1>1 DEF JobRecord, JobPhases
<1> HIDE DEF r
<1> QED
  BY <1>2, <1>3, JobUpdate

LEMMA IntentSound ==
    ASSUME NEW st, Sound(st), NEW j \in JobIds, NEW g \in Generations, NEW p \in Payloads,
           CanIntendCompletion(st, j, g, p)
    PROVE  Sound(WithIntent(st, j, g, p)) /\ Evolves(st, WithIntent(st, j, g, p))
<1> DEFINE mid == [st EXCEPT !.jobs[j].phase = "completing"]
           row == CompletionRow(st, j, g, p)
           r == IF st.outbox[j] = Nothing THEN row ELSE st.outbox[j]
           nx == WithIntent(st, j, g, p)
<1>0. /\ st \in FleetState /\ HasJob(st, j) /\ ~st.jobs[j].provisional /\ st.jobs[j].gen = g
      /\ st.jobs[j] \in JobRecord
  BY JobIsTyped DEF Sound, CanIntendCompletion, JobCurrent
<1>1. Sound(mid)
  BY <1>0, StartedSound DEF JobPhases
<1>2. /\ mid.slots = st.slots /\ mid.outbox = st.outbox
      /\ mid.jobs[j].slot = st.jobs[j].slot /\ mid.jobs[j].gen = g
      /\ ~mid.jobs[j].provisional /\ mid.jobs[j] \in JobRecord
  BY <1>0, StateShape DEF FleetState, JobRecord, JobPhases
<1>3. HasJob(mid, j)
  BY <1>2, RowMarkers DEF HasJob
<1>4. /\ row \in OutboxRecord /\ row.slot = st.jobs[j].slot /\ row.gen = g
  BY <1>0, FleetConstants DEF CompletionRow, OutboxRecord, JobRecord
<1>5. nx = [mid EXCEPT !.outbox[j] = r] /\ nx.slots = st.slots
  BY <1>0, StateShape DEF FleetState, WithIntent
<1> HIDE DEF mid, row, nx
<1>6. r \in OutboxRecord
  BY <1>0, <1>4, RowIsTyped DEF CanIntendCompletion, PendingRow
<1>7. r.slot = st.jobs[j].slot /\ r.gen = g
  BY <1>0, <1>4 DEF CanIntendCompletion, PendingRow, OwnerProven
<1>8. Pending(mid.outbox[j]) => r = mid.outbox[j]
  BY <1>2 DEF Pending
<1> HIDE DEF r
<1>9. Pending(mid.outbox[j]) =>
        /\ r.payload = mid.outbox[j].payload
        /\ mid.outbox[j].sent => r.sent
        /\ mid.outbox[j].attempts <= r.attempts
        /\ mid.outbox[j].permanent => r.permanent
  BY <1>6, <1>8, FleetConstants DEF OutboxRecord
<1>10. Sound(nx) /\ Evolves(mid, nx)
  BY <1>1, <1>2, <1>3, <1>5, <1>6, <1>7, <1>9, OutboxUpdate
<1>11. OutboxEvolves(st, nx)
  BY <1>2, <1>10 DEF Evolves, OutboxEvolves
<1> QED
  BY <1>0, <1>5, <1>10, <1>11, SameSlotsEvolve DEF Evolves, nx

LEMMA SentSound ==
    ASSUME NEW st, Sound(st), NEW j \in JobIds, Pending(st.outbox[j])
    PROVE  /\ Sound([st EXCEPT !.outbox[j].sent = TRUE])
           /\ Evolves(st, [st EXCEPT !.outbox[j].sent = TRUE])
<1> DEFINE old == st.outbox[j]
           r == [old EXCEPT !.sent = TRUE]
<1>1. st \in FleetState /\ old \in OutboxRecord /\ OwnerProven(st, j)
  BY RowIsTyped DEF Sound, AllOwnersProven
<1>2. [st EXCEPT !.outbox[j].sent = TRUE] = [st EXCEPT !.outbox[j] = r]
  BY <1>1 DEF FleetState
<1>3. /\ r \in OutboxRecord /\ r.slot = old.slot /\ r.gen = old.gen /\ r.sent
      /\ r.payload = old.payload /\ r.attempts = old.attempts
      /\ r.permanent = old.permanent
  BY <1>1 DEF OutboxRecord
<1>4. old.attempts <= r.attempts
  BY <1>1, <1>3, FleetConstants DEF OutboxRecord
<1> HIDE DEF r
<1> QED
  BY <1>1, <1>2, <1>3, <1>4, OutboxUpdate DEF OwnerProven

LEMMA ChargedSound ==
    ASSUME NEW st, Sound(st), NEW j \in JobIds, NEW p \in BOOLEAN, Pending(st.outbox[j]),
           st.outbox[j].attempts < MaxAttempts
    PROVE  Sound(Charged(st, j, p)) /\ Evolves(st, Charged(st, j, p))
<1> DEFINE old == st.outbox[j]
           n == old.attempts + 1
           q == old.permanent \/ p
           r == [old EXCEPT !.attempts = n, !.permanent = q]
<1>1. st \in FleetState /\ old \in OutboxRecord /\ OwnerProven(st, j)
  BY RowIsTyped DEF Sound, AllOwnersProven
<1>2. n \in 0 .. MaxAttempts /\ old.attempts <= n
  BY <1>1, FleetConstants DEF OutboxRecord
<1>3. q \in BOOLEAN /\ (old.permanent => q)
  BY <1>1 DEF OutboxRecord
<1>4. Charged(st, j, p) = [st EXCEPT !.outbox[j] = r]
  BY <1>1 DEF FleetState, Charged
<1> HIDE DEF n, q
<1>5. /\ r \in OutboxRecord /\ r.slot = old.slot /\ r.gen = old.gen
      /\ r.payload = old.payload /\ r.attempts = n /\ r.sent = old.sent
      /\ r.permanent = q
  BY <1>1, <1>2, <1>3 DEF OutboxRecord
<1> HIDE DEF r
<1> QED
  BY <1>1, <1>2, <1>3, <1>4, <1>5, OutboxUpdate DEF OwnerProven

-----------------------------------------------------------------------------
(* The tables and the replay *)

\* Two states differ in terminal completion rows only.
Alike(a, b) ==
    /\ a.slots = b.slots /\ a.jobs = b.jobs /\ a.routing = b.routing
    /\ \A j \in JobIds :
          Pending(a.outbox[j]) \/ Pending(b.outbox[j]) => a.outbox[j] = b.outbox[j]

LEMMA PersistedShape ==
    ASSUME NEW st \in FleetState
    PROVE  /\ Persisted(st) \in FleetState
           /\ Persisted(st).slots = st.slots /\ Persisted(st).jobs = st.jobs
           /\ Persisted(st).routing = st.routing
           /\ Persisted(st).outbox =
                 [j \in JobIds |-> IF Pending(st.outbox[j]) THEN st.outbox[j] ELSE Nothing]
  BY StateShape DEF Persisted, FleetState

\* Storing the tables without the terminal rows loses nothing that counts.
LEMMA PersistedSound ==
    ASSUME NEW st, NEW nx, st \in FleetState, Sound(nx), Evolves(st, nx)
    PROVE  /\ Sound(Persisted(nx)) /\ Evolves(st, Persisted(nx))
           /\ \A j \in JobIds : Persisted(nx).outbox[j] # Terminal
<1> DEFINE ps == Persisted(nx)
<1>0. nx \in FleetState
  BY DEF Sound
<1>1. /\ ps \in FleetState /\ ps.slots = nx.slots /\ ps.jobs = nx.jobs
      /\ ps.outbox = [j \in JobIds |-> IF Pending(nx.outbox[j]) THEN nx.outbox[j] ELSE Nothing]
  BY <1>0, PersistedShape
<1> HIDE DEF ps
<1>2. \A j \in JobIds : /\ ps.outbox[j] # Terminal
                        /\ Pending(ps.outbox[j]) => /\ Pending(nx.outbox[j])
                                                    /\ ps.outbox[j] = nx.outbox[j]
  BY <1>1, FleetConstants DEF Pending
<1>3. \A k \in JobIds : HasJob(ps, k) <=> HasJob(nx, k)
  BY <1>1 DEF HasJob
<1>4. JobsFit(ps) /\ OneJobPerSlot(ps) /\ AssignedAreOccupied(ps)
  BY <1>1, <1>3 DEF JobsFit, OneJobPerSlot, AssignedAreOccupied, Occupied, Sound
<1>5. AllOwnersProven(ps)
  BY <1>1, <1>2, <1>3 DEF AllOwnersProven, OwnerProven, Sound
<1>6. Sound(ps)
  BY <1>1, <1>4, <1>5 DEF Sound
<1>7. SlotsEvolve(st, ps)
  BY <1>1 DEF SlotsEvolve, Evolves
<1>8. OutboxEvolves(st, ps)
  BY <1>2 DEF OutboxEvolves, Evolves
<1> QED
  BY <1>2, <1>6, <1>7, <1>8 DEF Evolves, ps

LEMMA AlikeArePersistedAlike ==
    ASSUME NEW a \in FleetState, NEW b \in FleetState, Alike(a, b)
    PROVE  Persisted(a) = Persisted(b)
<1> DEFINE fa == [j \in JobIds |-> IF Pending(a.outbox[j]) THEN a.outbox[j] ELSE Nothing]
           fb == [j \in JobIds |-> IF Pending(b.outbox[j]) THEN b.outbox[j] ELSE Nothing]
           pa == Persisted(a)
           pb == Persisted(b)
<1>1. fa = fb
  BY DEF Alike
<1>2. pa \in FleetState /\ pb \in FleetState /\ pa.outbox = fa /\ pb.outbox = fb
  BY PersistedShape
<1>3. pa.slots = pb.slots /\ pa.jobs = pb.jobs /\ pa.routing = pb.routing
  BY PersistedShape DEF Alike
<1> HIDE DEF fa, fb, pa, pb
<1>4. pa = pb
  BY <1>1, <1>2, <1>3 DEF FleetState
<1> QED
  BY <1>4 DEF pa, pb

LEMMA AlikeSound ==
    ASSUME NEW a, Sound(a), NEW b \in FleetState, Alike(a, b)
    PROVE  Sound(b)
<1>1. \A k \in JobIds : HasJob(b, k) <=> HasJob(a, k)
  BY DEF HasJob, Alike
<1>2. JobsFit(b) /\ OneJobPerSlot(b) /\ AssignedAreOccupied(b)
  BY <1>1 DEF JobsFit, OneJobPerSlot, AssignedAreOccupied, Occupied, Sound, Alike
<1>3. AllOwnersProven(b)
  BY <1>1 DEF AllOwnersProven, OwnerProven, Sound, Alike
<1> QED
  BY <1>2, <1>3 DEF Sound, Alike

\* What the reducer asks of a state does not tell them apart.
LEMMA AlikeViews ==
    ASSUME NEW a \in FleetState, NEW b \in FleetState, Alike(a, b), NEW s \in Slots, NEW g
    PROVE  Blocked(a, s, g) <=> Blocked(b, s, g)
<1>1. \A j \in JobIds : /\ HasJob(a, j) <=> HasJob(b, j)
                        /\ Pending(a.outbox[j]) <=> Pending(b.outbox[j])
                        /\ Pending(a.outbox[j]) => a.outbox[j] = b.outbox[j]
  BY DEF Alike, HasJob
<1>2. \A j \in JobIds : Pending(a.outbox[j]) => (OwnerProven(a, j) <=> OwnerProven(b, j))
  BY <1>1 DEF Alike, OwnerProven
<1> QED
  BY <1>1, <1>2 DEF Alike, Blocked, Occupied, OutboxBlocks

\* No event but PermitReserved changes the generation of a slot, and none but
\* JobAcquisitionIntended gives a job to a slot that has none.
AdmitsNothing(st, nx) ==
    \A s \in Slots : /\ nx.slots[s].gen = st.slots[s].gen
                     /\ Occupied(nx, s) => Occupied(st, s)

LEMMA SameJobsAdmitNothing ==
    ASSUME NEW st, NEW nx, nx.jobs = st.jobs,
           \A s \in Slots : nx.slots[s].gen = st.slots[s].gen
    PROVE  AdmitsNothing(st, nx)
  BY DEF AdmitsNothing, Occupied, HasJob

LEMMA FleetEventsAdmitNothing ==
    ASSUME NEW st \in FleetState, NEW v
    PROVE  /\ AdmitsNothing(st, Routed(st, v))
           /\ AdmitsNothing(st, AllFenced(st))
<1>1. AdmitsNothing(st, Routed(st, v))
  <2>1. Routed(st, v).jobs = st.jobs
    BY StateShape DEF Routed, FleetState, SlotRecord
  <2>2. \A t \in Slots : Routed(st, v).slots[t].gen = st.slots[t].gen
    BY StateShape DEF Routed, FleetState, SlotRecord
  <2> QED
    BY <2>1, <2>2, SameJobsAdmitNothing
<1>2. AdmitsNothing(st, AllFenced(st))
  <2>1. AllFenced(st).jobs = st.jobs
    BY StateShape DEF AllFenced, FleetState, SlotRecord
  <2>2. \A t \in Slots : AllFenced(st).slots[t].gen = st.slots[t].gen
    BY StateShape DEF AllFenced, FleetState, SlotRecord
  <2> QED
    BY <2>1, <2>2, SameJobsAdmitNothing
<1> QED
  BY <1>1, <1>2

LEMMA SlotEventsAdmitNothing ==
    ASSUME NEW st \in FleetState, NEW s \in Slots, NEW g, NEW v
    PROVE  /\ AdmitsNothing(st, [st EXCEPT !.slots[s].executor = g])
           /\ AdmitsNothing(st, [st EXCEPT !.slots[s].session = g])
           /\ AdmitsNothing(st, WasRegistered(st, s))
           /\ AdmitsNothing(st, Unregistered(st, s, g))
           /\ AdmitsNothing(st, [st EXCEPT !.slots[s].phase = v])
<1>1. AdmitsNothing(st, [st EXCEPT !.slots[s].executor = g])
  <2>1. [st EXCEPT !.slots[s].executor = g].jobs = st.jobs
    BY StateShape DEF FleetState, SlotRecord
  <2>2. \A t \in Slots : [st EXCEPT !.slots[s].executor = g].slots[t].gen = st.slots[t].gen
    BY StateShape DEF FleetState, SlotRecord
  <2> QED
    BY <2>1, <2>2, SameJobsAdmitNothing
<1>2. AdmitsNothing(st, [st EXCEPT !.slots[s].session = g])
  <2>1. [st EXCEPT !.slots[s].session = g].jobs = st.jobs
    BY StateShape DEF FleetState, SlotRecord
  <2>2. \A t \in Slots : [st EXCEPT !.slots[s].session = g].slots[t].gen = st.slots[t].gen
    BY StateShape DEF FleetState, SlotRecord
  <2> QED
    BY <2>1, <2>2, SameJobsAdmitNothing
<1>3. AdmitsNothing(st, WasRegistered(st, s))
  <2>1. WasRegistered(st, s).jobs = st.jobs
    BY StateShape DEF WasRegistered, FleetState, SlotRecord
  <2>2. \A t \in Slots : WasRegistered(st, s).slots[t].gen = st.slots[t].gen
    BY StateShape DEF WasRegistered, FleetState, SlotRecord
  <2> QED
    BY <2>1, <2>2, SameJobsAdmitNothing
<1>4. AdmitsNothing(st, Unregistered(st, s, g))
  <2>1. Unregistered(st, s, g).jobs = st.jobs
    BY StateShape DEF Unregistered, FleetState, SlotRecord
  <2>2. \A t \in Slots : Unregistered(st, s, g).slots[t].gen = st.slots[t].gen
    BY StateShape DEF Unregistered, FleetState, SlotRecord
  <2> QED
    BY <2>1, <2>2, SameJobsAdmitNothing
<1>5. AdmitsNothing(st, [st EXCEPT !.slots[s].phase = v])
  <2>1. [st EXCEPT !.slots[s].phase = v].jobs = st.jobs
    BY StateShape DEF FleetState, SlotRecord
  <2>2. \A t \in Slots : [st EXCEPT !.slots[s].phase = v].slots[t].gen = st.slots[t].gen
    BY StateShape DEF FleetState, SlotRecord
  <2> QED
    BY <2>1, <2>2, SameJobsAdmitNothing
<1> QED
  BY <1>1, <1>2, <1>3, <1>4, <1>5

LEMMA OutboxEventsAdmitNothing ==
    ASSUME NEW st \in FleetState, NEW v, NEW j \in JobIds
    PROVE  /\ AdmitsNothing(st, [st EXCEPT !.outbox[j].sent = TRUE])
           /\ AdmitsNothing(st, Charged(st, j, v))
<1>1. AdmitsNothing(st, [st EXCEPT !.outbox[j].sent = TRUE])
  <2>1. [st EXCEPT !.outbox[j].sent = TRUE].jobs = st.jobs
    BY StateShape DEF FleetState
  <2>2. \A t \in Slots : [st EXCEPT !.outbox[j].sent = TRUE].slots[t].gen = st.slots[t].gen
    BY StateShape DEF FleetState
  <2> QED
    BY <2>1, <2>2, SameJobsAdmitNothing
<1>2. AdmitsNothing(st, Charged(st, j, v))
  <2>1. Charged(st, j, v).jobs = st.jobs
    BY StateShape DEF Charged, FleetState
  <2>2. \A t \in Slots : Charged(st, j, v).slots[t].gen = st.slots[t].gen
    BY StateShape DEF Charged, FleetState
  <2> QED
    BY <2>1, <2>2, SameJobsAdmitNothing
<1> QED
  BY <1>1, <1>2

\* A row that stays, moves to another id or goes takes no new slot.
LEMMA MovedJobsAdmitNothing ==
    ASSUME NEW st, NEW nx, \A s \in Slots : nx.slots[s].gen = st.slots[s].gen,
           \A k \in JobIds : HasJob(nx, k) =>
                \E i \in JobIds : HasJob(st, i) /\ st.jobs[i].slot = nx.jobs[k].slot
    PROVE  AdmitsNothing(st, nx)
  BY DEF AdmitsNothing, Occupied

LEMMA JobEventsAdmitNothing ==
    ASSUME NEW st \in FleetState, NEW g, NEW v, NEW i \in JobIds, HasJob(st, i)
    PROVE  /\ AdmitsNothing(st, [st EXCEPT !.jobs[i].probes = @ + 1])
           /\ AdmitsNothing(st, WithoutJob(st, i))
           /\ AdmitsNothing(st, [st EXCEPT !.jobs[i].phase = v])
           /\ AdmitsNothing(st, Concluded(st, i, v))
           /\ AdmitsNothing(st, WithIntent(st, i, g, v))
           /\ AdmitsNothing(st, Settled(st, i))
<1>0. st.jobs[i] \in JobRecord
  BY JobIsTyped
<1>1. AdmitsNothing(st, [st EXCEPT !.jobs[i].probes = @ + 1])
  <2>1. [st EXCEPT !.jobs[i].probes = @ + 1].jobs[i].slot = st.jobs[i].slot /\ \A k \in JobIds \ {i} : [st EXCEPT !.jobs[i].probes = @ + 1].jobs[k] = st.jobs[k]
    BY <1>0, StateShape DEF FleetState, JobRecord
  <2>2. \A t \in Slots : [st EXCEPT !.jobs[i].probes = @ + 1].slots[t].gen = st.slots[t].gen
    BY StateShape DEF FleetState, JobRecord
  <2>3. \A k \in JobIds : HasJob([st EXCEPT !.jobs[i].probes = @ + 1], k) =>
          HasJob(st, k) /\ st.jobs[k].slot = [st EXCEPT !.jobs[i].probes = @ + 1].jobs[k].slot
    BY <2>1 DEF HasJob
  <2> QED
    BY <2>2, <2>3, MovedJobsAdmitNothing
<1>2. AdmitsNothing(st, WithoutJob(st, i))
  <2>1. WithoutJob(st, i).jobs[i] = Nothing /\ \A k \in JobIds \ {i} : WithoutJob(st, i).jobs[k] = st.jobs[k]
    BY <1>0, StateShape DEF WithoutJob, FleetState, SlotRecord
  <2>2. \A t \in Slots : WithoutJob(st, i).slots[t].gen = st.slots[t].gen
    BY StateShape DEF WithoutJob, FleetState, SlotRecord
  <2>3. \A k \in JobIds : HasJob(WithoutJob(st, i), k) =>
          HasJob(st, k) /\ st.jobs[k].slot = WithoutJob(st, i).jobs[k].slot
    BY <2>1 DEF HasJob
  <2> QED
    BY <2>2, <2>3, MovedJobsAdmitNothing
<1>3. AdmitsNothing(st, [st EXCEPT !.jobs[i].phase = v])
  <2>1. [st EXCEPT !.jobs[i].phase = v].jobs[i].slot = st.jobs[i].slot /\ \A k \in JobIds \ {i} : [st EXCEPT !.jobs[i].phase = v].jobs[k] = st.jobs[k]
    BY <1>0, StateShape DEF FleetState, JobRecord
  <2>2. \A t \in Slots : [st EXCEPT !.jobs[i].phase = v].slots[t].gen = st.slots[t].gen
    BY StateShape DEF FleetState, JobRecord
  <2>3. \A k \in JobIds : HasJob([st EXCEPT !.jobs[i].phase = v], k) =>
          HasJob(st, k) /\ st.jobs[k].slot = [st EXCEPT !.jobs[i].phase = v].jobs[k].slot
    BY <2>1 DEF HasJob
  <2> QED
    BY <2>2, <2>3, MovedJobsAdmitNothing
<1>4. AdmitsNothing(st, Concluded(st, i, v))
  <2>1. Concluded(st, i, v).jobs[i].slot = st.jobs[i].slot /\ \A k \in JobIds \ {i} : Concluded(st, i, v).jobs[k] = st.jobs[k]
    BY <1>0, StateShape DEF Concluded, FleetState, JobRecord
  <2>2. \A t \in Slots : Concluded(st, i, v).slots[t].gen = st.slots[t].gen
    BY StateShape DEF Concluded, FleetState, JobRecord
  <2>3. \A k \in JobIds : HasJob(Concluded(st, i, v), k) =>
          HasJob(st, k) /\ st.jobs[k].slot = Concluded(st, i, v).jobs[k].slot
    BY <2>1 DEF HasJob
  <2> QED
    BY <2>2, <2>3, MovedJobsAdmitNothing
<1>5. AdmitsNothing(st, WithIntent(st, i, g, v))
  <2>1. WithIntent(st, i, g, v).jobs[i].slot = st.jobs[i].slot /\ \A k \in JobIds \ {i} : WithIntent(st, i, g, v).jobs[k] = st.jobs[k]
    BY <1>0, StateShape DEF WithIntent, FleetState, JobRecord
  <2>2. \A t \in Slots : WithIntent(st, i, g, v).slots[t].gen = st.slots[t].gen
    BY StateShape DEF WithIntent, FleetState, JobRecord
  <2>3. \A k \in JobIds : HasJob(WithIntent(st, i, g, v), k) =>
          HasJob(st, k) /\ st.jobs[k].slot = WithIntent(st, i, g, v).jobs[k].slot
    BY <2>1 DEF HasJob
  <2> QED
    BY <2>2, <2>3, MovedJobsAdmitNothing
<1>6. AdmitsNothing(st, Settled(st, i))
  <2>1. Settled(st, i).jobs[i] = Nothing /\ \A k \in JobIds \ {i} : Settled(st, i).jobs[k] = st.jobs[k]
    BY <1>0, StateShape DEF Settled, WithoutJob, FleetState, SlotRecord
  <2>2. \A t \in Slots : Settled(st, i).slots[t].gen = st.slots[t].gen
    BY StateShape DEF Settled, WithoutJob, FleetState, SlotRecord
  <2>3. \A k \in JobIds : HasJob(Settled(st, i), k) =>
          HasJob(st, k) /\ st.jobs[k].slot = Settled(st, i).jobs[k].slot
    BY <2>1 DEF HasJob
  <2> QED
    BY <2>2, <2>3, MovedJobsAdmitNothing
<1> QED
  BY <1>1, <1>2, <1>3, <1>4, <1>5, <1>6

LEMMA ResolutionAdmitsNothing ==
    ASSUME NEW st \in FleetState, NEW i \in JobIds, NEW j \in JobIds, HasJob(st, i)
    PROVE  AdmitsNothing(st, Resolved(st, i, j))
<1>0. st.jobs[i] \in JobRecord
  BY JobIsTyped
<1>1. /\ Resolved(st, i, j).jobs[j].slot = st.jobs[i].slot
      /\ \A k \in JobIds \ {j} : Resolved(st, i, j).jobs[k] \in {Nothing, st.jobs[k]}
  BY <1>0, StateShape DEF Resolved, FleetState, JobRecord
<1>2. \A t \in Slots : Resolved(st, i, j).slots[t].gen = st.slots[t].gen
  BY StateShape DEF Resolved, FleetState
<1> QED
  BY <1>1, <1>2, MovedJobsAdmitNothing DEF HasJob

\* Ownership goes to the job that has the slot already.
LEMMA OwnershipAdmitsNothing ==
    ASSUME NEW st \in FleetState, NEW s \in Slots, NEW g, NEW j \in JobIds, Occupied(st, s)
    PROVE  AdmitsNothing(st, OwnedRow(st, j, s, g))
<1>1. /\ \A t \in Slots : OwnedRow(st, j, s, g).slots[t].gen = st.slots[t].gen
      /\ OwnedRow(st, j, s, g).jobs[j].slot = s
      /\ \A k \in JobIds \ {j} : OwnedRow(st, j, s, g).jobs[k] = st.jobs[k]
  BY StateShape DEF OwnedRow, FleetState
<1> QED
  BY <1>1, MovedJobsAdmitNothing DEF Occupied, HasJob

\* The reducer takes states that are alike to states that are alike.
LEMMA AlikeAfterFleetEvents ==
    ASSUME NEW a \in FleetState, NEW b \in FleetState, Alike(a, b), NEW v
    PROVE  Alike(Routed(a, v), Routed(b, v)) /\ Alike(AllFenced(a), AllFenced(b))
<1>1. Alike(Routed(a, v), Routed(b, v))
  BY StateShape DEF Alike, FleetState, Routed
<1>2. Alike(AllFenced(a), AllFenced(b))
  BY StateShape DEF Alike, FleetState, AllFenced
<1> QED
  BY <1>1, <1>2

LEMMA AlikeAfterSlotEvents ==
    ASSUME NEW a \in FleetState, NEW b \in FleetState, Alike(a, b), NEW s \in Slots,
           NEW g, NEW v
    PROVE  /\ Alike(Reserved(a, s, g), Reserved(b, s, g))
           /\ Alike([a EXCEPT !.slots[s].executor = g], [b EXCEPT !.slots[s].executor = g])
           /\ Alike([a EXCEPT !.slots[s].session = g], [b EXCEPT !.slots[s].session = g])
           /\ Alike(WasRegistered(a, s), WasRegistered(b, s))
           /\ Alike(Unregistered(a, s, g), Unregistered(b, s, g))
           /\ Alike([a EXCEPT !.slots[s].phase = v], [b EXCEPT !.slots[s].phase = v])
           /\ \A j \in JobIds : Alike(Intended(a, s, j, g), Intended(b, s, j, g))
<1> USE StateShape DEF Alike, FleetState
<1>1. Alike(Reserved(a, s, g), Reserved(b, s, g))
  BY DEF Reserved, SlotReserved
<1>2. Alike([a EXCEPT !.slots[s].executor = g], [b EXCEPT !.slots[s].executor = g])
  OBVIOUS
<1>3. Alike([a EXCEPT !.slots[s].session = g], [b EXCEPT !.slots[s].session = g])
  OBVIOUS
<1>4. Alike(WasRegistered(a, s), WasRegistered(b, s))
  BY DEF WasRegistered
<1>5. Alike(Unregistered(a, s, g), Unregistered(b, s, g))
  BY AlikeViews DEF Unregistered
<1>6. Alike([a EXCEPT !.slots[s].phase = v], [b EXCEPT !.slots[s].phase = v])
  OBVIOUS
<1>7. \A j \in JobIds : Alike(Intended(a, s, j, g), Intended(b, s, j, g))
  BY DEF Intended
<1> QED
  BY <1>1, <1>2, <1>3, <1>4, <1>5, <1>6, <1>7

LEMMA AlikeAfterJobEvents ==
    ASSUME NEW a \in FleetState, NEW b \in FleetState, Alike(a, b), NEW s,
           NEW g, NEW v, NEW i \in JobIds, NEW j \in JobIds
    PROVE  /\ Alike(Resolved(a, i, j), Resolved(b, i, j))
           /\ Alike([a EXCEPT !.jobs[j].probes = @ + 1], [b EXCEPT !.jobs[j].probes = @ + 1])
           /\ Alike(WithoutJob(a, j), WithoutJob(b, j))
           /\ Alike(OwnedRow(a, j, s, g), OwnedRow(b, j, s, g))
           /\ Alike([a EXCEPT !.jobs[j].phase = v], [b EXCEPT !.jobs[j].phase = v])
           /\ Alike(Concluded(a, j, v), Concluded(b, j, v))
           /\ Alike(Settled(a, j), Settled(b, j))
<1> USE StateShape DEF Alike, FleetState
<1>1. Alike(Resolved(a, i, j), Resolved(b, i, j))
  BY DEF Resolved
<1>2. Alike([a EXCEPT !.jobs[j].probes = @ + 1], [b EXCEPT !.jobs[j].probes = @ + 1])
  OBVIOUS
<1>3. Alike(WithoutJob(a, j), WithoutJob(b, j))
  BY DEF WithoutJob
<1>4. Alike(OwnedRow(a, j, s, g), OwnedRow(b, j, s, g))
  BY DEF OwnedRow, HasJob
<1>5. Alike([a EXCEPT !.jobs[j].phase = v], [b EXCEPT !.jobs[j].phase = v])
  OBVIOUS
<1>6. Alike(Concluded(a, j, v), Concluded(b, j, v))
  BY DEF Concluded
<1>7. Alike(Settled(a, j), Settled(b, j))
  BY DEF Settled, WithoutJob
<1> QED
  BY <1>1, <1>2, <1>3, <1>4, <1>5, <1>6, <1>7

\* A completion event needs the row to be pending, or the job to have none, in
\* both states: a terminal row in the replay makes it reject a second intent.
LEMMA AlikeAfterCompletionEvents ==
    ASSUME NEW a \in FleetState, NEW b \in FleetState, Alike(a, b), NEW j \in JobIds, NEW g,
           NEW p
    PROVE  /\ Pending(a.outbox[j]) =>
                /\ Alike([a EXCEPT !.outbox[j].sent = TRUE], [b EXCEPT !.outbox[j].sent = TRUE])
                /\ Alike(Charged(a, j, p), Charged(b, j, p))
           /\ CanIntendCompletion(a, j, g, p) /\ CanIntendCompletion(b, j, g, p) =>
                Alike(WithIntent(a, j, g, p), WithIntent(b, j, g, p))
<1>1. Pending(a.outbox[j]) => a.outbox[j] = b.outbox[j]
  BY DEF Alike
<1>2. Pending(a.outbox[j]) =>
        /\ Alike([a EXCEPT !.outbox[j].sent = TRUE], [b EXCEPT !.outbox[j].sent = TRUE])
        /\ Alike(Charged(a, j, p), Charged(b, j, p))
  BY <1>1, StateShape DEF Alike, FleetState, Charged
<1>3. ASSUME CanIntendCompletion(a, j, g, p), CanIntendCompletion(b, j, g, p)
      PROVE  Alike(WithIntent(a, j, g, p), WithIntent(b, j, g, p))
  <2>1. a.outbox[j] = b.outbox[j]
    BY <1>3 DEF Alike, CanIntendCompletion, PendingRow
  <2>2. CompletionRow(a, j, g, p) = CompletionRow(b, j, g, p)
    BY DEF CompletionRow, Alike
  <2> QED
    BY <2>1, <2>2, StateShape DEF Alike, FleetState, WithIntent
<1> QED
  BY <1>2, <1>3

-----------------------------------------------------------------------------
(* The inductive invariant *)

Tables ==
    /\ Sound(fleet)
    /\ \A j \in JobIds : fleet.outbox[j] # Terminal
    /\ replay \in FleetState /\ intact \in BOOLEAN
    /\ ReplayMatchesTables

Overlays ==
    /\ barred \in BOOLEAN /\ pressure \in {"none", "low", "terminal"}
    /\ struck \subseteq Slots \X Generations

FleetInv == Tables /\ Overlays

\* What a step does to the tables.
TablesStep ==
    /\ Tables' /\ Evolves(fleet, fleet')
    /\ pressure = "none" \/ AdmitsNothing(fleet, fleet')

LEMMA IntactReplayIsAlike ==
    ASSUME Tables, intact
    PROVE  Alike(fleet, replay) /\ Sound(replay)
<1>1. /\ fleet.slots = replay.slots /\ fleet.jobs = replay.jobs
      /\ fleet.routing = replay.routing
      /\ fleet.outbox = [j \in JobIds |-> IF Pending(replay.outbox[j])
                                          THEN replay.outbox[j] ELSE Nothing]
  BY PersistedShape DEF Tables, ReplayMatchesTables
<1>2. Alike(fleet, replay)
  BY <1>1 DEF Alike, Pending
<1> QED
  BY <1>2, AlikeSound DEF Tables

LEMMA EmptyIsSound == Sound(EmptyFleet) /\ \A j \in JobIds : EmptyFleet.outbox[j] = Nothing
<1>1. NewSlot \in SlotRecord
  BY FleetConstants DEF NewSlot, SlotRecord, SlotPhases, Generations
<1>2. EmptyFleet \in FleetState
  BY <1>1 DEF EmptyFleet, FleetState
<1>3. /\ \A s \in Slots : EmptyFleet.slots[s] = NewSlot
      /\ \A j \in JobIds : EmptyFleet.jobs[j] = Nothing /\ EmptyFleet.outbox[j] = Nothing
  BY DEF EmptyFleet
<1>4. JobsFit(EmptyFleet) /\ OneJobPerSlot(EmptyFleet) /\ AllOwnersProven(EmptyFleet)
  BY <1>3 DEF JobsFit, OneJobPerSlot, AllOwnersProven, HasJob, Pending
<1>5. AssignedAreOccupied(EmptyFleet) /\ \A s \in Slots : ProofsCurrent(EmptyFleet.slots[s])
  BY <1>3 DEF AssignedAreOccupied, ProofsCurrent, NewSlot
<1> QED
  BY <1>2, <1>3, <1>4, <1>5 DEF Sound

\* A transaction that stores a sound outcome, and whose event the replay takes
\* to the same outcome or rejects, keeps the tables and the replay together.
LEMMA CommitStep ==
    ASSUME Tables, NEW next, NEW again, NEW renext, Commit(next, again, renext),
           Sound(next), Evolves(fleet, next),
           pressure = "none" \/ AdmitsNothing(fleet, next),
           intact /\ again => Sound(renext) /\ Alike(next, renext)
    PROVE  TablesStep
<1>1. fleet \in FleetState /\ next \in FleetState
  BY DEF Tables, Sound
<1>2. /\ Sound(fleet') /\ Evolves(fleet, fleet')
      /\ \A j \in JobIds : fleet'.outbox[j] # Terminal
  BY <1>1, PersistedSound DEF Commit
<1>3. intact' \in BOOLEAN
  BY DEF Commit, Tables
<1>4. replay' \in FleetState /\ (intact' => fleet' = Persisted(replay'))
  <2>1. CASE intact /\ again
    <3>1. replay' = renext /\ Sound(renext) /\ Alike(next, renext)
      BY <2>1 DEF Commit
    <3> QED
      BY <1>1, <3>1, AlikeArePersistedAlike DEF Commit, Sound
  <2>2. CASE ~(intact /\ again)
    BY <2>2, EmptyIsSound DEF Commit, Sound
  <2> QED
    BY <2>1, <2>2
<1>5. pressure = "none" \/ AdmitsNothing(fleet, fleet')
  <2>1. fleet'.slots = next.slots /\ fleet'.jobs = next.jobs
    BY <1>1, PersistedShape DEF Commit
  <2> QED
    BY <2>1 DEF AdmitsNothing, Occupied, HasJob
<1> QED
  BY <1>2, <1>3, <1>4, <1>5 DEF TablesStep, Tables, ReplayMatchesTables

LEMMA SlotEventStep ==
    ASSUME Tables, SlotEvent
    PROVE  TablesStep
<1>0. fleet \in FleetState /\ Sound(fleet) /\ replay \in FleetState
  BY DEF Tables, Sound
<1>a. intact => Alike(fleet, replay) /\ Sound(replay)
  BY IntactReplayIsAlike
<1>1. ASSUME NEW v \in BOOLEAN, Routing(v) PROVE TablesStep
  BY <1>0, <1>a, <1>1, CommitStep, RoutedSound, FleetEventsAdmitNothing,
     AlikeAfterFleetEvents DEF Routing
<1>2. ASSUME NEW s \in Slots, NEW g \in Generations, PermitReserved(s, g) PROVE TablesStep
  BY <1>0, <1>a, <1>2, CommitStep, ReservedSound, AlikeAfterSlotEvents DEF PermitReserved
<1>3. ASSUME NEW s \in Slots, NEW g \in Generations, ExecutorProven(s, g) PROVE TablesStep
  BY <1>0, <1>a, <1>3, CommitStep, ProvenSound, SlotEventsAdmitNothing, AlikeAfterSlotEvents
     DEF ExecutorProven
<1>4. ASSUME NEW s \in Slots, NEW g \in Generations, SessionLive(s, g) PROVE TablesStep
  BY <1>0, <1>a, <1>4, CommitStep, ProvenSound, SlotEventsAdmitNothing, AlikeAfterSlotEvents
     DEF SessionLive
<1>5. ASSUME NEW s \in Slots, NEW g \in Generations, Registered(s, g) PROVE TablesStep
  BY <1>0, <1>a, <1>5, CommitStep, WasRegisteredSound, SlotEventsAdmitNothing,
     AlikeAfterSlotEvents DEF Registered
<1>6. ASSUME NEW s \in Slots, NEW g \in Generations, RegistrationLost(s, g) PROVE TablesStep
  BY <1>0, <1>a, <1>6, CommitStep, UnregisteredSound, SlotEventsAdmitNothing,
     AlikeAfterSlotEvents DEF RegistrationLost
<1>7. ASSUME NEW s \in Slots, NEW g \in Generations, ReadyAttempt(s, g) PROVE TablesStep
  BY <1>0, <1>a, <1>7, CommitStep, ReadySound, SlotEventsAdmitNothing, AlikeAfterSlotEvents
     DEF ReadyAttempt
<1>8. ASSUME NEW s \in Slots, NEW g \in Generations, SlotStale(s, g) PROVE TablesStep
  <2>1. /\ AdmitsNothing(fleet, SlotFenced(fleet, s))
        /\ intact => Alike(SlotFenced(fleet, s), SlotFenced(replay, s))
    BY <1>0, <1>a, SlotEventsAdmitNothing, AlikeAfterSlotEvents DEF SlotFenced
  <2> QED
    BY <1>0, <1>a, <1>8, <2>1, CommitStep, SlotFencedSound DEF SlotStale
<1> QED
  BY <1>1, <1>2, <1>3, <1>4, <1>5, <1>6, <1>7, <1>8 DEF SlotEvent

LEMMA JobEventStep ==
    ASSUME Tables, JobEvent
    PROVE  TablesStep
<1>0. fleet \in FleetState /\ Sound(fleet) /\ replay \in FleetState
  BY DEF Tables, Sound
<1>a. intact => Alike(fleet, replay) /\ Sound(replay)
  BY IntactReplayIsAlike
<1> PICK j \in JobIds, g \in Generations :
        \/ \E s \in Slots : JobAcquisitionIntended(s, j, g)
        \/ \E i \in JobIds : JobAcquisitionResolved(i, j, g)
        \/ AcquisitionProbeFailed(j, g) \/ JobAcquisitionLost(j, g)
        \/ \E s \in Slots, h \in BOOLEAN : JobOwned(j, s, g, h)
        \/ JobStarted(j, g) \/ JobWorkerLost(j, g)
        \/ \E c \in Conclusions : JobTerminalResult(j, g, c)
  BY DEF JobEvent
<1>1. ASSUME NEW s \in Slots, JobAcquisitionIntended(s, j, g) PROVE TablesStep
  BY <1>0, <1>a, <1>1, CommitStep, IntendedSound, AlikeAfterSlotEvents
     DEF JobAcquisitionIntended
<1>2. ASSUME NEW i \in JobIds, JobAcquisitionResolved(i, j, g) PROVE TablesStep
  BY <1>0, <1>a, <1>2, CommitStep, ResolvedSound, ResolutionAdmitsNothing, AlikeAfterJobEvents
     DEF JobAcquisitionResolved, CanResolve, ProvisionalRow
<1>3. CASE AcquisitionProbeFailed(j, g)
  <2>1. intact => replay.jobs[j].probes < MaxProbes
    BY <1>a, <1>3 DEF Alike, AcquisitionProbeFailed
  <2>2. AdmitsNothing(fleet, [fleet EXCEPT !.jobs[j].probes = @ + 1])
    BY <1>0, <1>3, JobEventsAdmitNothing DEF AcquisitionProbeFailed, ProvisionalRow
  <2> QED
    BY <1>0, <1>a, <1>3, <2>1, <2>2, CommitStep, ProbedSound, AlikeAfterJobEvents
       DEF AcquisitionProbeFailed
<1>4. \A st : Sound(st) /\ ProvisionalRow(st, j, g) => HasJob(st, j) /\ ~Pending(st.outbox[j])
  BY DEF Sound, AllOwnersProven, OwnerProven, ProvisionalRow
<1>5. CASE JobAcquisitionLost(j, g)
  BY <1>0, <1>a, <1>4, <1>5, CommitStep, WithoutJobSound, JobEventsAdmitNothing,
     AlikeAfterJobEvents DEF JobAcquisitionLost
<1>6. ASSUME NEW s \in Slots, NEW h \in BOOLEAN, JobOwned(j, s, g, h) PROVE TablesStep
  <2>1. Occupied(fleet, s)
    BY <1>0, <1>6 DEF JobOwned, CanOwn, ProvisionalRow, Occupied, Sound, AssignedAreOccupied
  <2>2. AdmitsNothing(fleet, OwnedRow(fleet, j, s, g))
    BY <1>0, <2>1, OwnershipAdmitsNothing
  <2> QED
    BY <1>0, <1>a, <1>6, <2>2, CommitStep, OwnedSound, AlikeAfterJobEvents DEF JobOwned
<1>7. CASE JobStarted(j, g)
  <2>1. /\ HasJob(fleet, j) /\ "running" \in JobPhases
        /\ JobCurrent(replay, j, g) => HasJob(replay, j)
    BY <1>7 DEF JobStarted, JobCurrent, JobPhases
  <2> QED
    BY <1>0, <1>a, <1>7, <2>1, CommitStep, StartedSound, JobEventsAdmitNothing,
       AlikeAfterJobEvents DEF JobStarted
<1>8. \A st : Sound(st) /\ CanForget(st, j, g) => HasJob(st, j) /\ ~Pending(st.outbox[j])
  BY DEF Sound, AllOwnersProven, OwnerProven, CanForget, JobCurrent
<1>9. CASE JobWorkerLost(j, g)
  BY <1>0, <1>a, <1>8, <1>9, CommitStep, WithoutJobSound, JobEventsAdmitNothing,
     AlikeAfterJobEvents DEF JobWorkerLost
<1>10. ASSUME NEW c \in Conclusions, JobTerminalResult(j, g, c) PROVE TablesStep
  <2>1. HasJob(fleet, j) /\ (CanConclude(replay, j, g, c) => HasJob(replay, j))
    BY <1>10 DEF JobTerminalResult, CanConclude, JobCurrent
  <2> QED
    BY <1>0, <1>a, <1>10, <2>1, CommitStep, ConcludedSound, JobEventsAdmitNothing,
       AlikeAfterJobEvents DEF JobTerminalResult
<1> QED
  BY <1>1, <1>2, <1>3, <1>5, <1>6, <1>7, <1>9, <1>10

LEMMA CompletionEventStep ==
    ASSUME Tables, CompletionEvent
    PROVE  TablesStep
<1>0. fleet \in FleetState /\ Sound(fleet) /\ replay \in FleetState
  BY DEF Tables, Sound
<1>a. intact => Alike(fleet, replay) /\ Sound(replay)
  BY IntactReplayIsAlike
<1> PICK j \in JobIds, g \in Generations :
        \/ \E p \in Payloads : CompletionIntended(j, g, p) \/ CompletionPayloadLost(j, g, p)
        \/ CompletionSendStarted(j, g) \/ RemoteAcked(j, g)
        \/ \E p \in BOOLEAN : CompletionAttemptFailed(j, g, p) \/ CompletionUnresolvable(j, g, p)
  BY DEF CompletionEvent
<1>b. \A st : PendingRow(st, j, g) => Pending(st.outbox[j]) /\ HasJob(st, j)
  BY DEF PendingRow, OwnerProven
<1>1. ASSUME NEW p \in Payloads, CompletionIntended(j, g, p) PROVE TablesStep
  <2>1. AdmitsNothing(fleet, WithIntent(fleet, j, g, p))
    BY <1>0, <1>1, JobEventsAdmitNothing
       DEF CompletionIntended, CanIntendCompletion, JobCurrent
  <2> QED
    BY <1>0, <1>a, <1>1, <2>1, CommitStep, IntentSound, AlikeAfterCompletionEvents
       DEF CompletionIntended
<1>2. ASSUME NEW p \in Payloads, CompletionPayloadLost(j, g, p) PROVE TablesStep
  BY <1>0, <1>a, <1>b, <1>2, CommitStep, SettledSound, JobEventsAdmitNothing,
     AlikeAfterJobEvents DEF CompletionPayloadLost, CanLosePayload
<1>3. CASE CompletionSendStarted(j, g)
  BY <1>0, <1>a, <1>b, <1>3, CommitStep, SentSound, OutboxEventsAdmitNothing,
     AlikeAfterCompletionEvents DEF CompletionSendStarted, CanClaimSend
<1>4. CASE RemoteAcked(j, g)
  BY <1>0, <1>a, <1>b, <1>4, CommitStep, SettledSound, JobEventsAdmitNothing,
     AlikeAfterJobEvents DEF RemoteAcked, CanSettle
<1>5. ASSUME NEW p \in BOOLEAN, CompletionAttemptFailed(j, g, p) PROVE TablesStep
  <2>1. /\ Pending(fleet.outbox[j]) /\ fleet.outbox[j].attempts < MaxAttempts
        /\ CanSettle(replay, j, g) => Pending(replay.outbox[j])
    BY <1>b, <1>5 DEF CompletionAttemptFailed, CanSettle
  <2>2. intact => replay.outbox[j] = fleet.outbox[j]
    BY <1>a, <2>1 DEF Alike
  <2> QED
    BY <1>0, <1>a, <1>5, <2>1, <2>2, CommitStep, ChargedSound, OutboxEventsAdmitNothing,
       AlikeAfterCompletionEvents DEF CompletionAttemptFailed
<1>6. ASSUME NEW l \in BOOLEAN, CompletionUnresolvable(j, g, l) PROVE TablesStep
  BY <1>0, <1>a, <1>b, <1>6, CommitStep, SettledSound, JobEventsAdmitNothing,
     AlikeAfterJobEvents DEF CompletionUnresolvable, CanAbandon
<1> QED
  BY <1>1, <1>2, <1>3, <1>4, <1>5, <1>6

LEMMA OverlayStep ==
    ASSUME Tables, Overlay
    PROVE  TablesStep
<1>0. fleet \in FleetState /\ Sound(fleet) /\ replay \in FleetState
  BY DEF Tables, Sound
<1>1. ASSUME FenceSlots PROVE TablesStep
  <2>1. intact => Alike(fleet, replay) /\ Sound(replay)
    BY IntactReplayIsAlike
  <2> QED
    BY <1>0, <1>1, <2>1, CommitStep, AllFencedSound, FleetEventsAdmitNothing,
       AlikeAfterFleetEvents DEF FenceSlots
<1>2. ASSUME UNCHANGED <<fleet, replay, intact>> PROVE TablesStep
  BY <1>0, <1>2, SameSlotsEvolve, SameOutboxEvolves
     DEF TablesStep, Tables, ReplayMatchesTables, Evolves, AdmitsNothing
<1> QED
  BY <1>1, <1>2 DEF Overlay, SetAdmission, PressureObserved, PressureTerminal, PressureCleared,
                    PressureClearedLate, PressureRetired, PressureRebound

\* Every step keeps the tables in order.
LEMMA FleetStep ==
    ASSUME Tables, [FleetNext]_fleetVars
    PROVE  TablesStep
<1>1. CASE FleetNext
  BY <1>1, SlotEventStep, JobEventStep, CompletionEventStep, OverlayStep DEF FleetNext
<1>2. CASE UNCHANGED fleetVars
  <2>1. fleet \in FleetState /\ UNCHANGED <<fleet, replay, intact>>
    BY <1>2 DEF Tables, Sound, fleetVars
  <2> QED
    BY <2>1, SameSlotsEvolve, SameOutboxEvolves
       DEF TablesStep, Tables, ReplayMatchesTables, Evolves, AdmitsNothing
<1> QED
  BY <1>1, <1>2

LEMMA EventsKeepOverlays ==
    ASSUME SlotEvent \/ JobEvent \/ CompletionEvent
    PROVE  UNCHANGED <<barred, pressure, struck>>
<1>1. CASE SlotEvent
  BY <1>1 DEF SlotEvent, Routing, PermitReserved, ExecutorProven, SessionLive, Registered,
              RegistrationLost, ReadyAttempt, SlotStale
<1>2. CASE JobEvent
  <2>1. PICK j \in JobIds, g \in Generations :
          \/ \E s \in Slots : JobAcquisitionIntended(s, j, g)
          \/ \E i \in JobIds : JobAcquisitionResolved(i, j, g)
          \/ AcquisitionProbeFailed(j, g) \/ JobAcquisitionLost(j, g)
          \/ \E s \in Slots, h \in BOOLEAN : JobOwned(j, s, g, h)
          \/ JobStarted(j, g) \/ JobWorkerLost(j, g)
          \/ \E c \in Conclusions : JobTerminalResult(j, g, c)
    BY <1>2 DEF JobEvent
  <2>2. CASE \/ \E s \in Slots : JobAcquisitionIntended(s, j, g)
             \/ \E i \in JobIds : JobAcquisitionResolved(i, j, g)
             \/ AcquisitionProbeFailed(j, g) \/ JobAcquisitionLost(j, g)
    BY <2>2 DEF JobAcquisitionIntended, JobAcquisitionResolved, AcquisitionProbeFailed,
                JobAcquisitionLost
  <2>3. CASE \E s \in Slots, h \in BOOLEAN : JobOwned(j, s, g, h)
    BY <2>3 DEF JobOwned
  <2>4. CASE \/ JobStarted(j, g) \/ JobWorkerLost(j, g)
             \/ \E c \in Conclusions : JobTerminalResult(j, g, c)
    BY <2>4 DEF JobStarted, JobWorkerLost, JobTerminalResult
  <2> QED
    BY <2>1, <2>2, <2>3, <2>4
<1>3. CASE CompletionEvent
  BY <1>3 DEF CompletionEvent, CompletionIntended, CompletionPayloadLost,
              CompletionSendStarted, RemoteAcked, CompletionAttemptFailed,
              CompletionUnresolvable
<1> QED
  BY <1>1, <1>2, <1>3

LEMMA OverlaysStep ==
    ASSUME Tables, Overlays, [FleetNext]_fleetVars
    PROVE  Overlays'
<1>1. ASSUME FenceSlots, pressure' \in {"none", "low", "terminal"} PROVE Overlays'
  <2>1. fleet.slots \in [Slots -> SlotRecord]
    BY StateShape DEF Tables, Sound
  <2>2. {<<s, fleet.slots[s].gen>> : s \in Unfenced} \subseteq Slots \X Generations
    BY <2>1 DEF Unfenced, SlotRecord
  <2> QED
    BY <1>1, <2>2 DEF FenceSlots, Overlays
<1>2. CASE PressureTerminal \/ PressureRetired
  BY <1>1, <1>2 DEF PressureTerminal, PressureRetired
<1>3. CASE \E b \in BOOLEAN : SetAdmission(b)
  BY <1>3 DEF SetAdmission, Overlays
<1>4. CASE PressureObserved \/ PressureCleared \/ PressureClearedLate \/ PressureRebound
  BY <1>4 DEF PressureObserved, PressureCleared, PressureClearedLate, PressureRebound, Overlays
<1>5. CASE UNCHANGED <<barred, pressure, struck>>
  BY <1>5 DEF Overlays
<1> QED
  BY <1>2, <1>3, <1>4, <1>5, EventsKeepOverlays DEF FleetNext, Overlay, fleetVars

\* A terminal episode ends over fenced slots without jobs.
LEMMA TerminalEndsSafely ==
    ASSUME Tables, [FleetNext]_fleetVars, pressure = "terminal", pressure' # "terminal"
    PROVE  PressureSafe(fleet')
<1>1. CASE PressureRetired
  <2>1. PressureSafe(AllFenced(fleet)) /\ fleet' = Persisted(AllFenced(fleet))
    BY <1>1 DEF PressureRetired, FenceSlots, Commit
  <2>2. fleet'.slots = AllFenced(fleet).slots /\ fleet'.jobs = AllFenced(fleet).jobs
    BY <2>1, AllFencedSound, PersistedShape DEF Sound, Tables
  <2> QED
    BY <2>1, <2>2 DEF PressureSafe, Occupied, HasJob
<1>2. CASE PressureCleared \/ PressureRebound
  BY <1>2 DEF PressureCleared, PressureRebound, PressureSafe, Occupied, HasJob
<1> QED
  BY <1>1, <1>2, EventsKeepOverlays
     DEF FleetNext, Overlay, SetAdmission, PressureObserved, PressureTerminal,
         PressureClearedLate, fleetVars

\* Without completion rows the tables are stored as they are.
LEMMA NothingToPersist ==
    ASSUME NEW st \in FleetState, \A j \in JobIds : st.outbox[j] = Nothing
    PROVE  st = Persisted(st)
<1> DEFINE pe == Persisted(st)
<1>1. /\ pe \in FleetState /\ pe.slots = st.slots /\ pe.jobs = st.jobs
      /\ pe.routing = st.routing
      /\ pe.outbox = [j \in JobIds |-> IF Pending(st.outbox[j]) THEN st.outbox[j] ELSE Nothing]
  BY PersistedShape
<1> HIDE DEF pe
<1>2. pe.outbox = st.outbox
  BY <1>1, StateShape DEF Pending
<1>3. pe = st
  BY <1>1, <1>2 DEF FleetState
<1> QED
  BY <1>3 DEF pe

LEMMA FleetInvInductive ==
    /\ FleetInit => FleetInv
    /\ FleetInv /\ [FleetNext]_fleetVars => FleetInv'
<1>1. ASSUME FleetInit PROVE FleetInv
  <2>1. EmptyFleet \in FleetState /\ Sound(EmptyFleet)
    BY EmptyIsSound DEF Sound
  <2>2. EmptyFleet = Persisted(EmptyFleet)
    BY <2>1, EmptyIsSound, NothingToPersist
  <2> QED
    BY <1>1, <2>1, <2>2, EmptyIsSound, FleetConstants
       DEF FleetInit, FleetInv, Tables, Overlays, ReplayMatchesTables
<1>2. ASSUME FleetInv, [FleetNext]_fleetVars PROVE FleetInv'
  BY <1>2, FleetStep, OverlaysStep DEF FleetInv, TablesStep
<1> QED
  BY <1>1, <1>2

LEMMA FleetInvHolds == FleetSpec => []FleetInv
  BY FleetInvInductive, PTL DEF FleetSpec

-----------------------------------------------------------------------------
(* What the journal promises *)

\* Tables, replay and overlays have their types, whatever events arrive.
THEOREM JournalTypeCorrect == FleetSpec => []FleetTypeOK
<1>1. FleetInv => FleetTypeOK
  BY DEF FleetInv, Tables, Overlays, Sound, FleetTypeOK
<1> QED
  BY <1>1, FleetInvHolds, PTL

\* A slot has at most one job, of its own generation, and its phase says so.
THEOREM JournalSlotsMatchJobs == FleetSpec => []SlotsMatchJobs
<1>1. FleetInv => SlotsMatchJobs
  BY DEF FleetInv, Tables, Sound, JobsFit, OneJobPerSlot, AssignedAreOccupied, SlotsMatchJobs
<1> QED
  BY <1>1, FleetInvHolds, PTL

\* No order of events takes the owner from a pending completion.
THEOREM JournalOwnersStayProven == FleetSpec => []OwnersStayProven
<1>1. FleetInv => OwnersStayProven
  BY DEF FleetInv, Tables, Sound, AllOwnersProven, OwnersStayProven
<1> QED
  BY <1>1, FleetInvHolds, PTL

\* A ready slot is proven by its own generation, has no job and owes nothing.
THEOREM JournalReadyIsProvenNow == FleetSpec => []ReadyIsProvenNow
<1>1. ASSUME FleetInv, NEW s \in Slots, fleet.slots[s].phase = "ready"
      PROVE  /\ fleet.slots[s].permit /\ fleet.slots[s].registered
             /\ fleet.slots[s].session = fleet.slots[s].gen
             /\ fleet.slots[s].executor = fleet.slots[s].gen
             /\ ~Blocked(fleet, s, fleet.slots[s].gen)
  <2>1. Sound(fleet)
    BY <1>1 DEF FleetInv, Tables
  <2>2. ~Occupied(fleet, s)
    BY <1>1, <2>1 DEF Sound, JobsFit, Occupied
  <2> QED
    BY <1>1, <2>1, <2>2, BlockedMeansOccupied DEF Sound, ProofsCurrent
<1>2. FleetInv => ReadyIsProvenNow
  BY <1>1 DEF ReadyIsProvenNow
<1> QED
  BY <1>2, FleetInvHolds, PTL

\* While the log is accepted again, replaying it rebuilds the tables.
THEOREM JournalReplayMatchesTables == FleetSpec => []ReplayMatchesTables
<1>1. FleetInv => ReplayMatchesTables
  BY DEF FleetInv, Tables
<1> QED
  BY <1>1, FleetInvHolds, PTL

\* A pending completion keeps its owner, payload and send claim, and its budget
\* only shrinks.
THEOREM JournalSendClaimSticks == FleetSpec => SendClaimSticks
<1>1. FleetInv /\ [FleetNext]_fleetVars => OutboxEvolves(fleet, fleet')
  BY FleetStep DEF FleetInv, TablesStep, Evolves
<1> QED
  BY <1>1, FleetInvHolds, PTL DEF FleetSpec, SendClaimSticks, OutboxEvolves

\* A fenced generation never works again.
THEOREM JournalFencedForGood == FleetSpec => FencedForGood
<1>1. FleetInv /\ [FleetNext]_fleetVars => SlotsEvolve(fleet, fleet')
  BY FleetStep DEF FleetInv, TablesStep, Evolves
<1> QED
  BY <1>1, FleetInvHolds, PTL DEF FleetSpec, FencedForGood, SlotsEvolve

\* An open disk-pressure episode lets no generation and no job in and lifts no
\* fence, and a terminal one ends over fenced slots without jobs.
THEOREM JournalPressureAdmitsNothing == FleetSpec => PressureAdmitsNothing
<1>1. ASSUME FleetInv, [FleetNext]_fleetVars, pressure # "none", NEW s \in Slots
      PROVE  /\ fleet'.slots[s].gen = fleet.slots[s].gen
             /\ Occupied(fleet', s) => Occupied(fleet, s)
             /\ fleet.slots[s].phase = "fenced" => fleet'.slots[s].phase = "fenced"
  <2>1. SlotsEvolve(fleet, fleet') /\ AdmitsNothing(fleet, fleet')
    BY <1>1, FleetStep DEF FleetInv, TablesStep, Evolves
  <2> QED
    BY <2>1 DEF SlotsEvolve, AdmitsNothing
<1>2. FleetInv /\ [FleetNext]_fleetVars =>
        [/\ pressure # "none" => \A s \in Slots :
              /\ fleet'.slots[s].gen = fleet.slots[s].gen
              /\ Occupied(fleet', s) => Occupied(fleet, s)
              /\ fleet.slots[s].phase = "fenced" => fleet'.slots[s].phase = "fenced"
         /\ pressure = "terminal" /\ pressure' # "terminal" => PressureSafe(fleet')]_fleetVars
  BY <1>1, TerminalEndsSafely DEF FleetInv
<1> QED
  BY <1>2, FleetInvHolds, PTL DEF FleetSpec, PressureAdmitsNothing

=============================================================================
