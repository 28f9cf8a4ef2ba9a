-------------------------- MODULE CompletionProofs --------------------------
(***************************************************************************)
(* Proofs about completion, for every journal, set of conclusions and      *)
(* bound on faults.  The journal's own invariant carries over, because     *)
(* every write below is one of the journal's events.                       *)
(***************************************************************************)
EXTENDS Completion, FleetJournalProofs, FiniteSetTheorems

\* A payload on the wire, or one that an actor is about to put there.
Hot(p) == p \in sent \/ \E a \in Actors : at[a] = "send" /\ carry[a] = p

\* The steps at which something is promised of an actor, and the others.
Critical == {"run", "record", "stage", "intend", "claim", "send", "prove", "unlink", "clear"}
Quiet == {"await", "reload", "ack", "failed", "done", "dead", "idle", "look", "forget",
          "spent", "drop", "scan", "sweep", "sift", "rows", "keep", "rest", "down"}

DataTypeOK ==
    /\ carry \in [Actors -> Payloads \cup {Nothing}] /\ seen.row \in BOOLEAN
    /\ file \in Payloads \cup {Nothing} /\ told \in Payloads \cup {Nothing}
    /\ sent \subseteq Payloads /\ result \in Conclusions \cup {Nothing}
    /\ {due, marker, acked, late, fresh, registered} \subseteq BOOLEAN

LocalTypeOK ==
    /\ at \in [Actors -> Critical \cup Quiet] /\ DataTypeOK
    /\ \A a \in Actors : at[a] \in {"record", "stage", "intend", "claim", "send"} =>
          carry[a] \in Payloads

\* An actor that is about to claim intends the row's payload, as long as there
\* is a job to complete.
ClaimsItsRow ==
    \A a \in Actors : at[a] = "claim" /\ Owned => Pending(Row) /\ Row.payload = carry[a]

\* All that is hot is one payload: that of the claimed row while there is one;
\* without a row nothing is hot before the job has left.
OneIsHot ==
    \A p \in Payloads : Hot(p) =>
        /\ Pending(Row) => p = Row.payload /\ Row.sent
        /\ Owned => Pending(Row)
        /\ \A q \in Payloads : Hot(q) => q = p

\* The controller takes up a job only when its worker is dead, and with a row
\* of that job in hand.
RecoversTheDead ==
    /\ at["controller"] \in {"prove", "record", "stage", "intend"} => ~Alive
    /\ at["controller"] = "prove" => seen.job # Nothing

\* Before the worker records there is nothing of its job anywhere.
NothingBeforeRecord ==
    at["worker"] \in {"run", "record"} =>
        ~Pending(Row) /\ result = Nothing /\ \A p \in Payloads : ~Hot(p)

\* A recorded result is in the job's row, in every payload on its way there, in
\* the completion row, and in all that is hot.
ResultIsEverywhere ==
    result # Nothing =>
        /\ Owned => fleet.jobs[Job].conclusion = result
        /\ \A a \in Actors :
              at[a] \in {"record", "stage", "intend"} => CarriedBy(carry[a]) = result
        /\ Pending(Row) => CarriedBy(Row.payload) = result
        /\ \A p \in Payloads : Hot(p) => CarriedBy(p) = result

\* Whoever unlinks and clears has settled the job.
SettledBeforeClear == \A a \in Actors : at[a] \in {"unlink", "clear"} => ~Owned

CompletionInv ==
    /\ Tables /\ Overlays
    /\ LocalTypeOK /\ ClaimsItsRow /\ OneIsHot /\ RecoversTheDead
    /\ NothingBeforeRecord /\ ResultIsEverywhere /\ SettledBeforeClear
    /\ MarkerOutlivesJob

-----------------------------------------------------------------------------
(* What the journal's events do to the job and its completion row *)

\* As far as the properties can tell, nothing.
RowKept ==
    /\ Owned' <=> Owned
    /\ Owned => fleet'.jobs[Job].conclusion = fleet.jobs[Job].conclusion
    /\ Pending(Row') <=> Pending(Row)
    /\ Pending(Row) => Row'.payload = Row.payload /\ Row'.sent = Row.sent

JobGone == ~Owned' /\ ~Pending(Row')

\* The tables that a transaction leaves, row by row.
LEMMA CommittedRows ==
    ASSUME NEW next \in FleetState, NEW again, NEW renext, Commit(next, again, renext)
    PROVE  /\ fleet'.jobs = next.jobs /\ fleet'.slots = next.slots
           /\ Row' = IF Pending(next.outbox[Job]) THEN next.outbox[Job] ELSE Nothing
  BY PersistedShape, CompletionConstants DEF Commit, Row

LEMMA RowIsPayload ==
    ASSUME Tables, Pending(Row)
    PROVE  Row \in OutboxRecord /\ Row.payload \in Payloads /\ Owned
<1>1. OwnerProven(fleet, Job)
  BY CompletionConstants DEF Tables, Sound, AllOwnersProven, Row
<1> QED
  BY <1>1, RowIsTyped, CompletionConstants DEF Tables, Sound, Row, OutboxRecord, Owned, OwnerProven

\* A row that is not pending is absent from the tables.
LEMMA RowIsPendingOrAbsent ==
    ASSUME Tables, ~Pending(Row)
    PROVE  Row = Nothing
  BY CompletionConstants DEF Tables, Row, Pending

LEMMA TerminalResultEffect ==
    ASSUME Tables, NEW c \in Conclusions, JobTerminalResult(Job, 1, c)
    PROVE  /\ Owned /\ Owned' /\ fleet.jobs[Job].conclusion \in {Nothing, c}
           /\ fleet'.jobs[Job].conclusion = c /\ Row' = Row
<1> DEFINE nx == Concluded(fleet, Job, c)
           job == fleet.jobs[Job]
<1>1. fleet \in FleetState /\ Sound(fleet) /\ HasJob(fleet, Job) /\ Job \in JobIds
      /\ job.conclusion \in {Nothing, c}
  BY CompletionConstants DEF Tables, Sound, JobTerminalResult, CanConclude, JobCurrent
<1>2. job \in JobRecord
  BY <1>1, JobIsTyped
<1>3. Sound(nx)
  BY <1>1, ConcludedSound
<1>4. nx.outbox = fleet.outbox /\ nx.jobs[Job].conclusion = c /\ nx.jobs[Job] \in JobRecord
  <2> DEFINE done == [job EXCEPT !.conclusion = c, !.phase = "completing"]
  <2>1. done \in JobRecord /\ done.conclusion = c
    BY <1>1, <1>2 DEF JobRecord, JobPhases
  <2>2. nx.outbox = fleet.outbox /\ nx.jobs[Job] = done
    BY <1>1 DEF Concluded, FleetState
  <2> QED
    BY <2>1, <2>2
<1>5. fleet'.jobs = nx.jobs /\ Row' = IF Pending(Row) THEN Row ELSE Nothing
  BY <1>3, <1>4, CommittedRows DEF JobTerminalResult, Sound, Row
<1> QED
  BY <1>1, <1>4, <1>5, RowMarkers, RowIsPendingOrAbsent DEF Owned, HasJob

LEMMA IntentEffect ==
    ASSUME Tables, NEW p \in Payloads, CompletionIntended(Job, 1, p)
    PROVE  /\ Owned /\ Owned'
           /\ fleet'.jobs[Job].conclusion = fleet.jobs[Job].conclusion
           /\ Pending(Row') /\ Row'.payload = p
           /\ Pending(Row) => Row' = Row
           /\ ~Pending(Row) => ~Row'.sent
<1> DEFINE nx == WithIntent(fleet, Job, 1, p)
           job == fleet.jobs[Job]
           row == CompletionRow(fleet, Job, 1, p)
<1>1. /\ fleet \in FleetState /\ Sound(fleet) /\ HasJob(fleet, Job) /\ Job \in JobIds
      /\ 1 \in Generations /\ CanIntendCompletion(fleet, Job, 1, p)
  BY CompletionConstants, FleetConstants
     DEF Tables, Sound, CompletionIntended, CanIntendCompletion, JobCurrent, Generations
<1>2. job \in JobRecord
  BY <1>1, JobIsTyped
<1>3. Sound(nx)
  BY <1>1, IntentSound
<1>4. /\ nx.outbox[Job] = IF Row = Nothing THEN row ELSE Row
      /\ nx.jobs[Job].conclusion = job.conclusion /\ nx.jobs[Job] \in JobRecord
  BY <1>1, <1>2, StateShape DEF WithIntent, FleetState, JobRecord, JobPhases, Row
<1>5. row \in OutboxRecord /\ row.payload = p /\ ~row.sent
  BY <1>1, <1>2, FleetConstants DEF CompletionRow, OutboxRecord, JobRecord
<1>6. Row # Nothing => Pending(Row) /\ Row.payload = p
  BY <1>1 DEF CanIntendCompletion, PendingRow, Row
<1>7. Pending(row)
  BY <1>5, RowMarkers DEF Pending
<1>8. /\ fleet'.jobs = nx.jobs
      /\ Row' = IF Pending(nx.outbox[Job]) THEN nx.outbox[Job] ELSE Nothing
  BY <1>3, CommittedRows DEF CompletionIntended, Sound
<1> HIDE DEF nx, row
<1> QED
  BY <1>1, <1>4, <1>5, <1>6, <1>7, <1>8, RowMarkers, RowIsPendingOrAbsent DEF Owned, HasJob, Pending

LEMMA ClaimEffect ==
    ASSUME Tables, CompletionSendStarted(Job, 1)
    PROVE  /\ Pending(Row) /\ ~Row.sent /\ Pending(Row') /\ Row'.payload = Row.payload /\ Row'.sent
           /\ Owned /\ Owned' /\ fleet'.jobs[Job] = fleet.jobs[Job]
<1> DEFINE nx == [fleet EXCEPT !.outbox[Job].sent = TRUE]
           r == [Row EXCEPT !.sent = TRUE]
<1>1. fleet \in FleetState /\ Sound(fleet) /\ Job \in JobIds /\ Pending(Row) /\ ~Row.sent
  BY CompletionConstants
     DEF Tables, Sound, CompletionSendStarted, CanClaimSend, PendingRow, Row
<1>2. Row \in OutboxRecord /\ Owned
  BY <1>1, RowIsPayload
<1>3. Sound(nx)
  BY <1>1, SentSound DEF Row
<1>4. nx.outbox[Job] = r /\ nx.jobs = fleet.jobs
  BY <1>1, StateShape DEF FleetState, Row
<1>5. r \in OutboxRecord /\ r.payload = Row.payload /\ r.sent
  BY <1>2 DEF OutboxRecord
<1>6. Pending(r)
  BY <1>5, RowMarkers DEF Pending
<1>7. /\ fleet'.jobs = nx.jobs
      /\ Row' = IF Pending(nx.outbox[Job]) THEN nx.outbox[Job] ELSE Nothing
  BY <1>3, CommittedRows DEF CompletionSendStarted, Sound
<1> HIDE DEF nx, r
<1> QED
  BY <1>1, <1>2, <1>4, <1>5, <1>6, <1>7 DEF Owned, HasJob

LEMMA ChargeEffect ==
    ASSUME Tables, NEW p \in BOOLEAN, CompletionAttemptFailed(Job, 1, p)
    PROVE  RowKept
<1> DEFINE nx == Charged(fleet, Job, p)
<1>1. /\ fleet \in FleetState /\ Sound(fleet) /\ Job \in JobIds /\ Pending(Row)
      /\ Row.attempts < MaxAttempts
  BY CompletionConstants
     DEF Tables, Sound, CompletionAttemptFailed, CanSettle, PendingRow, Row
<1>2. Row \in OutboxRecord
  BY <1>1, RowIsPayload
<1>3. Sound(nx)
  BY <1>1, ChargedSound DEF Row
<1>4. /\ nx.jobs = fleet.jobs /\ nx.outbox[Job].payload = Row.payload
      /\ nx.outbox[Job].sent = Row.sent
      /\ nx.outbox[Job] = [Row EXCEPT !.attempts = Row.attempts + 1,
                                      !.permanent = Row.permanent \/ p]
  BY <1>1, <1>2, StateShape DEF FleetState, Row, Charged, OutboxRecord
<1>5. nx.outbox[Job] \in OutboxRecord
  <2>1. Row.attempts + 1 \in 0 .. MaxAttempts /\ (Row.permanent \/ p) \in BOOLEAN
    BY <1>1, <1>2, FleetConstants DEF OutboxRecord
  <2> QED
    BY <1>2, <1>4, <2>1 DEF OutboxRecord
<1>6. Pending(nx.outbox[Job])
  BY <1>5, RowMarkers DEF Pending
<1>7. /\ fleet'.jobs = nx.jobs
      /\ Row' = IF Pending(nx.outbox[Job]) THEN nx.outbox[Job] ELSE Nothing
  BY <1>3, CommittedRows DEF CompletionAttemptFailed, Sound
<1> HIDE DEF nx
<1> QED
  BY <1>1, <1>4, <1>6, <1>7 DEF RowKept, Owned, HasJob

LEMMA SettleEffect ==
    ASSUME Tables, NEW again, Commit(Settled(fleet, Job), again, Settled(replay, Job)), Pending(Row)
    PROVE  JobGone
<1> DEFINE nx == Settled(fleet, Job)
<1>1. fleet \in FleetState /\ Sound(fleet) /\ Job \in JobIds /\ HasJob(fleet, Job)
  BY CompletionConstants, RowIsPayload DEF Tables, Sound, Owned
<1>2. Sound(nx)
  BY <1>1, SettledSound
<1>3. nx.outbox[Job] = Terminal /\ nx.jobs[Job] = Nothing
  BY <1>1, StateShape DEF Settled, WithoutJob, FleetState
<1>4. fleet'.jobs = nx.jobs /\ Row' = IF Pending(nx.outbox[Job]) THEN nx.outbox[Job] ELSE Nothing
  BY <1>2, CommittedRows DEF Sound
<1> HIDE DEF nx
<1> QED
  BY <1>3, <1>4 DEF JobGone, Owned, HasJob, Pending

LEMMA ForgetEffect ==
    ASSUME Tables, JobWorkerLost(Job, 1)
    PROVE  JobGone /\ ~Pending(Row)
<1> DEFINE nx == WithoutJob(fleet, Job)
<1>1. fleet \in FleetState /\ Sound(fleet) /\ Job \in JobIds /\ CanForget(fleet, Job, 1)
  BY CompletionConstants DEF Tables, Sound, JobWorkerLost
<1>2. HasJob(fleet, Job) /\ ~Pending(Row)
  BY <1>1 DEF Sound, AllOwnersProven, OwnerProven, CanForget, JobCurrent, Row
<1>3. Sound(nx)
  BY <1>1, <1>2, WithoutJobSound DEF Row
<1>4. nx.outbox = fleet.outbox /\ nx.jobs[Job] = Nothing
  BY <1>1, StateShape DEF WithoutJob, FleetState
<1>5. fleet'.jobs = nx.jobs /\ Row' = IF Pending(nx.outbox[Job]) THEN nx.outbox[Job] ELSE Nothing
  BY <1>3, CommittedRows DEF JobWorkerLost, Sound
<1> HIDE DEF nx
<1> QED
  BY <1>2, <1>4, <1>5 DEF JobGone, Owned, HasJob, Row, Pending

-----------------------------------------------------------------------------
(* Moves that put nothing new on its way *)

\* One actor goes on to a step that promises nothing, and the journal keeps or
\* loses the job.
QuietMove(a, step) ==
    /\ at' = [at EXCEPT ![a] = step]
    /\ \A b \in Actors \ {a} : carry'[b] = carry[b]
    /\ a = "worker" => Alive /\ UNCHANGED seen
    /\ UNCHANGED <<sent, result>>
    /\ RowKept \/ JobGone

LEMMA ActorsAreTwo == Actors = {"worker", "controller"} /\ "worker" # "controller"
  BY DEF Actors

LEMMA UnchangedRowKept ==
    ASSUME UNCHANGED fleetVars
    PROVE  RowKept
  BY DEF fleetVars, RowKept, Owned, Row, HasJob

LEMMA QuietMoveStep ==
    ASSUME CompletionInv, Tables', Overlays', DataTypeOK', NEW a \in Actors,
           NEW step \in Quiet, QuietMove(a, step),
           UNCHANGED <<marker, registered>> \/ ~Owned \/ ~registered'
    PROVE  CompletionInv'
<1>0. at \in [Actors -> Critical \cup Quiet] /\ "worker" \in Actors /\ "controller" \in Actors
  BY ActorsAreTwo DEF CompletionInv, LocalTypeOK
<1>1. /\ at'[a] = step /\ at'[a] \notin Critical
      /\ \A b \in Actors \ {a} : at'[b] = at[b] /\ carry'[b] = carry[b]
  BY <1>0 DEF QuietMove, Quiet, Critical
<1>2. /\ Owned' => Owned /\ RowKept
      /\ Pending(Row') => Pending(Row) /\ RowKept
  BY DEF QuietMove, RowKept, JobGone
<1>3. \A p \in Payloads : Hot(p)' => Hot(p)
  BY <1>1 DEF Hot, QuietMove, Critical
<1>4. ClaimsItsRow'
  BY <1>1, <1>2 DEF CompletionInv, ClaimsItsRow, Critical, RowKept
<1>5. OneIsHot'
  BY <1>2, <1>3 DEF CompletionInv, OneIsHot, RowKept
<1>6. RecoversTheDead'
  <2>1. CASE a = "controller"
    <3>1. at'["controller"] \notin Critical
      BY <1>1, <2>1
    <3> QED
      BY <3>1 DEF RecoversTheDead, Critical
  <2>2. CASE a = "worker"
    <3>1. at'["controller"] = at["controller"] /\ Alive /\ UNCHANGED seen
      BY <1>0, <1>1, <2>2, ActorsAreTwo DEF Alive, QuietMove
    <3> QED
      BY <3>1 DEF CompletionInv, RecoversTheDead
  <2> QED
    BY <2>1, <2>2, ActorsAreTwo
<1>7. NothingBeforeRecord'
  BY <1>0, <1>1, <1>2, <1>3 DEF CompletionInv, NothingBeforeRecord, Critical, QuietMove
<1>8. ResultIsEverywhere'
  BY <1>1, <1>2, <1>3 DEF CompletionInv, ResultIsEverywhere, Critical, QuietMove, RowKept
<1>9. SettledBeforeClear'
  BY <1>1, <1>2 DEF CompletionInv, SettledBeforeClear, Critical
<1>10. LocalTypeOK'
  BY <1>0, <1>1 DEF CompletionInv, LocalTypeOK, Critical, QuietMove
<1>11. MarkerOutlivesJob'
  BY <1>2 DEF CompletionInv, MarkerOutlivesJob
<1> QED
  BY <1>4, <1>5, <1>6, <1>7, <1>8, <1>9, <1>10, <1>11 DEF CompletionInv

-----------------------------------------------------------------------------
(* Every write is an event of the journal *)

LEMMA PayloadCarries ==
    ASSUME NEW p \in Payloads
    PROVE  CarriedBy(p) \in Conclusions
  BY CompletionConstants DEF CarriedBy

LEMMA PayloadBuilt ==
    ASSUME NEW k \in {"own", "recovered", "synthetic"}, NEW c \in Conclusions, NEW v \in Versions
    PROVE  Payload(k, c, v) \in Payloads /\ CarriedBy(Payload(k, c, v)) = c
  BY CompletionConstants DEF Payload, CarriedBy

\* The job events and completion events that completion writes.
JournalWrite ==
    \/ \E c \in Conclusions : JobTerminalResult(Job, 1, c)
    \/ JobWorkerLost(Job, 1)
    \/ \E p \in Payloads : CompletionIntended(Job, 1, p) \/ CompletionPayloadLost(Job, 1, p)
    \/ CompletionSendStarted(Job, 1) \/ RemoteAcked(Job, 1)
    \/ \E p \in BOOLEAN : CompletionAttemptFailed(Job, 1, p) \/ CompletionUnresolvable(Job, 1, p)

LEMMA WritesAreEvents ==
    ASSUME Tables, LocalTypeOK, CompletionNext
    PROVE  JournalWrite \/ UNCHANGED fleetVars
<1>1. ASSUME NEW a \in Actors, Record(a) PROVE JournalWrite \/ UNCHANGED fleetVars
  <2>1. CarriedBy(carry[a]) \in Conclusions
    BY <1>1, PayloadCarries DEF Record, LocalTypeOK
  <2> QED
    BY <1>1, <2>1 DEF Record, JournalWrite
<1>2. ASSUME NEW a \in Actors, Intend(a) PROVE JournalWrite \/ UNCHANGED fleetVars
  BY <1>2 DEF Intend, JournalWrite, LocalTypeOK
<1>3. ASSUME NEW a \in Actors, Claim(a) \/ Ack(a) PROVE JournalWrite \/ UNCHANGED fleetVars
  BY <1>3 DEF Claim, Ack, JournalWrite
<1>4. ASSUME NEW a \in Actors, NEW p \in BOOLEAN, NoReply(a, p)
      PROVE  JournalWrite \/ UNCHANGED fleetVars
  BY <1>4 DEF NoReply, JournalWrite
<1>5. ASSUME Forget \/ Spent \/ Rows PROVE JournalWrite \/ UNCHANGED fleetVars
  BY <1>5 DEF Forget, Spent, Rows, JournalWrite, LocalTypeOK, DataTypeOK
<1>6. ASSUME Keep PROVE JournalWrite \/ UNCHANGED fleetVars
  <2>1. ASSUME CompletionPayloadLost(Job, 1, carry["controller"]) PROVE JournalWrite
    <3>1. Pending(Row) /\ Row.payload = carry["controller"]
      BY <2>1 DEF CompletionPayloadLost, CanLosePayload, PendingRow, Row
    <3> QED
      BY <2>1, <3>1, RowIsPayload DEF JournalWrite
  <2> QED
    BY <1>6, <2>1 DEF Keep
<1>7. ASSUME NEW a \in Actors,
             Stage(a) \/ Send(a) \/ Reply(a) \/ Reload(a) \/ Unlink(a) \/ Clear(a) \/ JournalError(a)
      PROVE  UNCHANGED fleetVars
  BY <1>7 DEF Stage, Send, Reply, Reload, Unlink, Clear, JournalError
<1>8. ASSUME \/ Conclude \/ Die \/ ServiceAccepts \/ Recover \/ Release \/ Defer \/ Crash
             \/ IntervalPasses \/ DeadlinePasses \/ RunnerDeleted
      PROVE  UNCHANGED fleetVars
  BY <1>8 DEF Conclude, Die, ServiceAccepts, Recover, Release, Defer, Crash,
              IntervalPasses, DeadlinePasses, RunnerDeleted
<1>9. ASSUME \/ Begin \/ Look \/ Disproved \/ Unmarked \/ Drop \/ ScanClean \/ ScanFails
             \/ Sweep \/ Sift \/ Rest \/ Restart
      PROVE  UNCHANGED fleetVars
  BY <1>9 DEF Begin, Look, Disproved, Unmarked, Drop, ScanClean, ScanFails, Sweep, Sift,
              Rest, Restart
<1> QED
  BY <1>1, <1>2, <1>3, <1>4, <1>5, <1>6, <1>7, <1>8, <1>9
     DEF CompletionNext, GuardedSend, ControllerStep

LEMMA WritesAreJournalSteps ==
    ASSUME JournalWrite \/ UNCHANGED fleetVars
    PROVE  [FleetNext]_fleetVars
<1>1. Job \in JobIds /\ 1 \in Generations
  BY CompletionConstants, FleetConstants DEF Generations
<1>2. CASE (\E c \in Conclusions : JobTerminalResult(Job, 1, c)) \/ JobWorkerLost(Job, 1)
  BY <1>1, <1>2 DEF FleetNext, JobEvent
<1>3. CASE \/ \E p \in Payloads : CompletionIntended(Job, 1, p) \/ CompletionPayloadLost(Job, 1, p)
           \/ CompletionSendStarted(Job, 1) \/ RemoteAcked(Job, 1)
           \/ \E p \in BOOLEAN :
                 CompletionAttemptFailed(Job, 1, p) \/ CompletionUnresolvable(Job, 1, p)
  BY <1>1, <1>3 DEF FleetNext, CompletionEvent
<1> QED
  BY <1>2, <1>3 DEF JournalWrite

LEMMA TablesKept ==
    ASSUME CompletionInv, CompletionNext
    PROVE  Tables' /\ Overlays'
  BY WritesAreEvents, WritesAreJournalSteps, FleetStep, OverlaysStep
     DEF CompletionInv, TablesStep

LEMMA StepsAreQuiet ==
    ASSUME NEW a \in Actors
    PROVE  AfterOrphans \in Quiet /\ Failed(a) \in Quiet
  BY DEF AfterOrphans, Failed, Quiet

\* Quiet moves that leave the journal alone
LEMMA QuietActorStep ==
    ASSUME CompletionInv, Tables', Overlays', NEW a \in Actors,
           Reply(a) \/ JournalError(a) \/ Clear(a)
    PROVE  CompletionInv'
<1>1. RowKept
  BY UnchangedRowKept DEF Reply, JournalError, Clear
<1>2. DataTypeOK'
  BY DEF CompletionInv, LocalTypeOK, DataTypeOK, Reply, JournalError, Clear
<1>3. CASE Reply(a)
  BY <1>1, <1>2, <1>3, QuietMoveStep DEF Reply, Goto, QuietMove, Quiet, Alive
<1>4. CASE JournalError(a)
  BY <1>1, <1>2, <1>4, QuietMoveStep, StepsAreQuiet DEF JournalError, Goto, QuietMove, Alive
<1>5. CASE Clear(a)
  <2>1. ~Owned
    BY <1>5 DEF CompletionInv, SettledBeforeClear, Clear
  <2>2. "done" \in Quiet
    BY DEF Quiet
  <2> QED
    BY <1>1, <1>2, <1>5, <2>1, <2>2, QuietMoveStep, StepsAreQuiet DEF Clear, Goto, QuietMove, Alive
<1> QED
  BY <1>3, <1>4, <1>5

LEMMA NoReplyStep ==
    ASSUME CompletionInv, Tables', Overlays', NEW a \in Actors, NEW p \in BOOLEAN, NoReply(a, p)
    PROVE  CompletionInv'
<1>1. RowKept
  BY ChargeEffect, UnchangedRowKept DEF NoReply, CompletionInv
<1>2. DataTypeOK'
  BY DEF CompletionInv, LocalTypeOK, DataTypeOK, NoReply
<1>3. PICK step \in Quiet : Goto(a, step)
  BY StepsAreQuiet DEF NoReply, Quiet
<1> QED
  BY <1>1, <1>2, <1>3, QuietMoveStep DEF NoReply, Goto, QuietMove, Alive

LEMMA DieStep ==
    ASSUME CompletionInv, Tables', Overlays', Die
    PROVE  CompletionInv'
<1>1. RowKept
  BY UnchangedRowKept DEF Die
<1>2. DataTypeOK'
  BY DEF CompletionInv, LocalTypeOK, DataTypeOK, Die
<1>3. "worker" \in Actors /\ "dead" \in Quiet
  BY DEF Actors, Quiet
<1>4. QuietMove("worker", "dead")
  BY <1>1, <1>3 DEF QuietMove, Die, Goto, CompletionInv, LocalTypeOK, DataTypeOK, Alive
<1> QED
  BY <1>2, <1>3, <1>4, QuietMoveStep DEF Die

\* The controller's steps, all but those that take up a job
LEMMA QuietControllerStep ==
    ASSUME CompletionInv, Tables', Overlays',
           \/ Begin \/ Disproved \/ Unmarked \/ Forget \/ Spent \/ Drop
           \/ ScanClean \/ ScanFails \/ Sweep \/ Sift \/ Rows \/ Keep \/ Rest \/ Restart
           \/ Release \/ Defer \/ Crash
    PROVE  CompletionInv'
<1> DEFINE c == "controller"
<1>0. /\ c \in Actors /\ \A b \in Actors \ {c} : b = "worker"
      /\ carry \in [Actors -> Payloads \cup {Nothing}]
  BY DEF Actors, CompletionInv, LocalTypeOK, DataTypeOK
<1>a. AfterOrphans \in Quiet
  BY <1>0, StepsAreQuiet
<1>1. ASSUME \/ Begin \/ Disproved \/ Unmarked \/ Drop \/ ScanFails \/ Sweep \/ Sift
             \/ Rest \/ Restart \/ Defer \/ Crash
      PROVE  CompletionInv'
  <2>1. RowKept
    BY <1>1, UnchangedRowKept
       DEF Begin, Disproved, Unmarked, Drop, ScanFails, Sweep, Sift, Rest, Restart, Defer, Crash
  <2>2. DataTypeOK'
    <3>1. seen'.row \in BOOLEAN
      <4>1. CASE Begin \/ Sweep
        <5>1. seen'.row = Pending(Row)
          BY <4>1 DEF Begin, Sweep
        <5> QED
          BY <5>1 DEF Pending
      <4>2. CASE Rest \/ Restart \/ Crash
        <5>1. seen' = Unseen
          BY <4>2 DEF Rest, Restart, Crash, Forgetful
        <5> QED
          BY <5>1 DEF Unseen
      <4>3. CASE Disproved \/ Unmarked \/ Drop \/ ScanFails \/ Sift \/ Defer
        BY <4>3 DEF CompletionInv, LocalTypeOK, DataTypeOK, Disproved, Unmarked, Drop,
                    ScanFails, Sift, Defer
      <4> QED
        BY <1>1, <4>1, <4>2, <4>3
    <3> QED
      BY <1>1, <3>1 DEF CompletionInv, LocalTypeOK, DataTypeOK, Begin, Disproved, Unmarked, Drop,
                        ScanFails, Sweep, Sift, Rest, Restart, Defer, Crash, Forgetful
  <2>3. PICK step \in Quiet : at' = [at EXCEPT ![c] = step]
    BY <1>1, <1>a DEF Begin, Disproved, Unmarked, Drop, ScanFails, Sweep, Sift, Rest, Restart,
                      Defer, Crash, Forgetful, Goto, Quiet
  <2>4. \A b \in Actors \ {c} : carry'[b] = carry[b]
    BY <1>0, <1>1 DEF Begin, Disproved, Unmarked, Drop, ScanFails, Sweep, Sift, Rest, Restart,
                      Defer, Crash, Forgetful
  <2>5. UNCHANGED <<sent, result, marker, registered>>
    BY <1>1 DEF Begin, Disproved, Unmarked, Drop, ScanFails, Sweep, Sift, Rest, Restart,
                Defer, Crash
  <2>6. QuietMove(c, step)
    BY <2>1, <2>3, <2>4, <2>5 DEF QuietMove
  <2> QED
    BY <1>0, <2>2, <2>5, <2>6, QuietMoveStep
<1>2. ASSUME Forget \/ Spent \/ Rows \/ Keep PROVE CompletionInv'
  <2>1. RowKept \/ JobGone
    <3>1. CASE UNCHANGED fleetVars
      BY <3>1, UnchangedRowKept
    <3>2. CASE JobWorkerLost(Job, 1)
      BY <3>2, ForgetEffect DEF CompletionInv
    <3>3. CASE CompletionUnresolvable(Job, 1, late)
      BY <3>3, SettleEffect
         DEF CompletionInv, CompletionUnresolvable, CanAbandon, PendingRow, Row
    <3>4. CASE CompletionPayloadLost(Job, 1, carry[c])
      BY <3>4, SettleEffect
         DEF CompletionInv, CompletionPayloadLost, CanLosePayload, PendingRow, Row
    <3> QED
      BY <1>2, <3>1, <3>2, <3>3, <3>4 DEF Forget, Spent, Rows, Keep
  <2>2. carry' \in [Actors -> Payloads \cup {Nothing}]
        /\ \A b \in Actors \ {c} : carry'[b] = carry[b]
    <3>1. (IF Pending(Row) THEN Row.payload ELSE Nothing) \in Payloads \cup {Nothing}
      BY RowIsPayload DEF CompletionInv
    <3> QED
      BY <1>0, <1>2, <3>1 DEF Forget, Spent, Rows, Keep, Carry
  <2>3. DataTypeOK'
    BY <1>2, <2>2 DEF CompletionInv, LocalTypeOK, DataTypeOK, Forget, Spent, Rows, Keep
  <2>4. PICK step \in Quiet : at' = [at EXCEPT ![c] = step]
    BY <1>2, <1>a DEF Forget, Spent, Rows, Keep, Goto, Quiet
  <2>5. UNCHANGED <<sent, result, marker, registered>>
    BY <1>2 DEF Forget, Spent, Rows, Keep
  <2>6. QuietMove(c, step)
    BY <2>1, <2>2, <2>4, <2>5 DEF QuietMove
  <2> QED
    BY <1>0, <2>3, <2>5, <2>6, QuietMoveStep
<1>3. ASSUME ScanClean \/ Release PROVE CompletionInv'
  <2>1. RowKept
    BY <1>3, UnchangedRowKept DEF ScanClean, Release
  <2>2. UNCHANGED <<marker, registered>> \/ ~Owned \/ ~registered'
    BY <1>3 DEF ScanClean, Release, Leftover, CompletionInv, LocalTypeOK, DataTypeOK
  <2>3. PICK step \in Quiet : at' = [at EXCEPT ![c] = step]
    BY <1>3 DEF ScanClean, Release, Goto, Quiet
  <2>4. QuietMove(c, step)
    BY <1>3, <2>1, <2>3 DEF QuietMove, ScanClean, Release
  <2>5. marker' \in BOOLEAN
    BY <1>3 DEF ScanClean, Release, CompletionInv, LocalTypeOK, DataTypeOK
  <2>6. DataTypeOK'
    BY <1>3, <2>5 DEF CompletionInv, LocalTypeOK, DataTypeOK, ScanClean, Release
  <2> QED
    BY <1>0, <2>2, <2>4, <2>6, QuietMoveStep
<1> QED
  BY <1>1, <1>2, <1>3

-----------------------------------------------------------------------------
(* Moves that something is promised of *)

LEMMA Moved ==
    ASSUME LocalTypeOK, NEW a \in Actors, NEW step, Goto(a, step)
    PROVE  /\ at'[a] = step /\ \A b \in Actors \ {a} : at'[b] = at[b]
           /\ step \in Critical \cup Quiet => at' \in [Actors -> Critical \cup Quiet]
  BY DEF LocalTypeOK, Goto

\* While the worker moves, the controller recovers nothing.
LEMMA WorkerMoves ==
    ASSUME CompletionInv, NEW step, Goto("worker", step), Alive, UNCHANGED seen
    PROVE  /\ at["controller"] \notin {"prove", "record", "stage", "intend"}
           /\ at'["controller"] = at["controller"] /\ RecoversTheDead'
<1>1. at'["controller"] = at["controller"]
  BY Moved, ActorsAreTwo DEF CompletionInv
<1> QED
  BY <1>1 DEF CompletionInv, RecoversTheDead

\* While the controller moves, the worker stays where it is.
LEMMA ControllerMoves ==
    ASSUME CompletionInv, NEW step, Goto("controller", step)
    PROVE  at'["worker"] = at["worker"] /\ at'["controller"] = step /\ (Alive' <=> Alive)
<1>1. at'["worker"] = at["worker"] /\ at'["controller"] = step
  BY Moved, ActorsAreTwo DEF CompletionInv
<1> QED
  BY <1>1 DEF Alive

LEMMA ConcludeStep ==
    ASSUME CompletionInv, Tables', Overlays', Conclude
    PROVE  CompletionInv'
<1> DEFINE w == "worker"
<1>0. w \in Actors /\ "controller" \in Actors
  BY ActorsAreTwo
<1>1. /\ at'[w] = "record" /\ \A b \in Actors \ {w} : at'[b] = at[b]
      /\ at' \in [Actors -> Critical \cup Quiet]
  BY <1>0, Moved DEF CompletionInv, Conclude, Critical
<1>2. PICK p \in Payloads : carry' = [carry EXCEPT ![w] = p]
  <2>1. (CHOOSE v \in Versions : TRUE) \in Versions
    BY CompletionConstants
  <2> QED
    BY <2>1, PayloadBuilt DEF Conclude, Carry
<1>3. /\ carry' \in [Actors -> Payloads \cup {Nothing}] /\ carry'[w] \in Payloads
      /\ \A b \in Actors \ {w} : carry'[b] = carry[b]
  BY <1>0, <1>2 DEF CompletionInv, LocalTypeOK, DataTypeOK
<1>4. RowKept
  BY UnchangedRowKept DEF Conclude
<1>5. result = Nothing /\ ~Pending(Row) /\ \A q \in Payloads : ~Hot(q)
  BY DEF CompletionInv, NothingBeforeRecord, Conclude
<1>6. \A q \in Payloads : ~Hot(q)'
  BY <1>1, <1>3, <1>5 DEF Hot, Conclude
<1>7. LocalTypeOK'
  BY <1>1, <1>3 DEF CompletionInv, LocalTypeOK, DataTypeOK, Conclude
<1>8. ClaimsItsRow' /\ SettledBeforeClear'
  BY <1>1, <1>3, <1>4 DEF CompletionInv, ClaimsItsRow, SettledBeforeClear, RowKept
<1>9. RecoversTheDead'
  BY WorkerMoves DEF Conclude, Alive
<1>10. OneIsHot' /\ NothingBeforeRecord' /\ ResultIsEverywhere'
  BY <1>4, <1>5, <1>6
     DEF OneIsHot, NothingBeforeRecord, ResultIsEverywhere, RowKept, Conclude
<1>11. MarkerOutlivesJob'
  BY <1>4 DEF CompletionInv, MarkerOutlivesJob, RowKept, Conclude
<1> QED
  BY <1>7, <1>8, <1>9, <1>10, <1>11 DEF CompletionInv

LEMMA RecordStep ==
    ASSUME CompletionInv, Tables', Overlays', NEW a \in Actors, Record(a)
    PROVE  CompletionInv'
<1> DEFINE c == CarriedBy(carry[a])
<1>1. /\ at'[a] = "stage" /\ \A b \in Actors \ {a} : at'[b] = at[b]
      /\ at' \in [Actors -> Critical \cup Quiet]
      /\ at[a] = "record" /\ carry[a] \in Payloads /\ c \in Conclusions
  BY Moved, PayloadCarries DEF CompletionInv, LocalTypeOK, Record, Critical
<1>2. /\ Owned' <=> Owned
      /\ Pending(Row') <=> Pending(Row)
      /\ Pending(Row) => Row'.payload = Row.payload /\ Row'.sent = Row.sent
      /\ \/ RowKept /\ result' = result
         \/ /\ fleet.jobs[Job].conclusion \in {Nothing, c} /\ Owned
            /\ fleet'.jobs[Job].conclusion = c
            /\ result' = IF a = "worker" THEN c ELSE result
  <2>1. CASE JobTerminalResult(Job, 1, c) /\ result' = IF a = "worker" THEN c ELSE result
    BY <1>1, <2>1, TerminalResultEffect DEF CompletionInv
  <2>2. CASE UNCHANGED fleetVars /\ result' = result
    BY <2>2, UnchangedRowKept DEF RowKept
  <2> QED
    BY <2>1, <2>2 DEF Record
<1>3. \A p \in Payloads : Hot(p)' => Hot(p)
  BY <1>1 DEF Hot, Record
<1>4. result' \in Conclusions \cup {Nothing}
  BY <1>1, <1>2 DEF CompletionInv, LocalTypeOK, DataTypeOK
<1>5. LocalTypeOK'
  BY <1>1, <1>4 DEF CompletionInv, LocalTypeOK, DataTypeOK, Record
<1>6. ClaimsItsRow' /\ SettledBeforeClear'
  BY <1>1, <1>2 DEF CompletionInv, ClaimsItsRow, SettledBeforeClear, Record
<1>7. OneIsHot'
  BY <1>2, <1>3 DEF CompletionInv, OneIsHot
<1>8. MarkerOutlivesJob'
  BY <1>2 DEF CompletionInv, MarkerOutlivesJob, Record
<1>9. RecoversTheDead' /\ NothingBeforeRecord' /\ ResultIsEverywhere'
  <2>1. CASE a = "worker"
    <3>1. RecoversTheDead' /\ at'["controller"] \notin {"prove", "record", "stage", "intend"}
      BY <1>1, <2>1, WorkerMoves DEF Record, Alive
    <3>2. ~Pending(Row) /\ result = Nothing /\ \A p \in Payloads : ~Hot(p)
      BY <1>1, <2>1 DEF CompletionInv, NothingBeforeRecord
    <3>3. NothingBeforeRecord'
      BY <1>1, <2>1 DEF NothingBeforeRecord
    <3>4. ResultIsEverywhere'
      <4> SUFFICES ASSUME result' # Nothing PROVE ResultIsEverywhere'
        BY DEF ResultIsEverywhere
      <4>1. result' = c /\ fleet'.jobs[Job].conclusion = c
        BY <1>2, <2>1, <3>2
      <4> QED
        BY <1>1, <1>2, <1>3, <2>1, <3>1, <3>2, <4>1, ActorsAreTwo DEF ResultIsEverywhere, Record
    <3> QED
      BY <3>1, <3>3, <3>4
  <2>2. CASE a = "controller"
    <3>1. at'["worker"] = at["worker"] /\ at'["controller"] = "stage" /\ (Alive' <=> Alive)
      BY <2>2, ControllerMoves DEF Record
    <3>2. ~Alive /\ result' = result
      BY <1>1, <1>2, <2>2 DEF CompletionInv, RecoversTheDead
    <3>3. RecoversTheDead' /\ NothingBeforeRecord'
      BY <3>1, <3>2 DEF RecoversTheDead, NothingBeforeRecord, Alive
    <3>4. ResultIsEverywhere'
      <4> SUFFICES ASSUME result # Nothing PROVE ResultIsEverywhere'
        BY <3>2 DEF ResultIsEverywhere
      <4>1. c = result /\ (Owned' => fleet'.jobs[Job].conclusion = result)
        BY <1>1, <1>2 DEF CompletionInv, ResultIsEverywhere, RowKept
      <4> QED
        BY <1>1, <1>2, <1>3, <3>2, <4>1 DEF CompletionInv, ResultIsEverywhere, Record
    <3> QED
      BY <3>3, <3>4
  <2> QED
    BY <2>1, <2>2, ActorsAreTwo
<1> QED
  BY <1>5, <1>6, <1>7, <1>8, <1>9 DEF CompletionInv

\* From one promise to the next, with nothing but the step changed: from staging
\* to the intent or the claim, and from unlinking to clearing.
LEMMA OnwardStep ==
    ASSUME CompletionInv, Tables', Overlays', DataTypeOK', NEW a \in Actors,
           NEW step \in {"intend", "claim", "clear"}, Goto(a, step),
           at[a] \in {"stage", "unlink"},
           step = "intend" => at[a] = "stage",
           step = "claim" => at[a] = "stage" /\ (Owned => Pending(Row) /\ Row.payload = carry[a]),
           step = "clear" => ~Owned,
           UNCHANGED <<fleetVars, carry, seen, marker, registered, sent, result>>
    PROVE  CompletionInv'
<1>1. /\ at'[a] = step /\ \A b \in Actors \ {a} : at'[b] = at[b]
      /\ at' \in [Actors -> Critical \cup Quiet]
  BY Moved DEF CompletionInv, Critical
<1>2. RowKept
  BY UnchangedRowKept
<1>3. \A p \in Payloads : Hot(p)' => Hot(p)
  BY <1>1 DEF Hot
<1>4. LocalTypeOK'
  BY <1>1 DEF CompletionInv, LocalTypeOK
<1>5. ClaimsItsRow' /\ SettledBeforeClear'
  BY <1>1, <1>2 DEF CompletionInv, ClaimsItsRow, SettledBeforeClear, RowKept
<1>6. OneIsHot'
  BY <1>2, <1>3 DEF CompletionInv, OneIsHot, RowKept
<1>7. MarkerOutlivesJob'
  BY <1>2 DEF CompletionInv, MarkerOutlivesJob, RowKept
<1>8. RecoversTheDead'
  <2>1. CASE a = "worker"
    BY <2>1, WorkerMoves DEF Alive
  <2>2. CASE a = "controller"
    <3>1. at'["controller"] = step /\ (Alive' <=> Alive)
      BY <2>2, ControllerMoves
    <3> QED
      BY <2>2, <3>1 DEF CompletionInv, RecoversTheDead
  <2> QED
    BY <2>1, <2>2, ActorsAreTwo
<1>9. NothingBeforeRecord'
  BY <1>1, <1>2, <1>3, ActorsAreTwo DEF CompletionInv, NothingBeforeRecord, RowKept
<1>10. ResultIsEverywhere'
  BY <1>1, <1>2, <1>3 DEF CompletionInv, ResultIsEverywhere, RowKept
<1> QED
  BY <1>4, <1>5, <1>6, <1>7, <1>8, <1>9, <1>10 DEF CompletionInv

LEMMA StageStep ==
    ASSUME CompletionInv, Tables', Overlays', NEW a \in Actors, Stage(a)
    PROVE  CompletionInv'
<1>1. carry[a] \in Payloads /\ at[a] = "stage"
  BY DEF CompletionInv, LocalTypeOK, Stage
<1>2. DataTypeOK'
  BY <1>1 DEF CompletionInv, LocalTypeOK, DataTypeOK, Stage
<1>3. CASE ~Staged(a)
  <2>1. QuietMove(a, Failed(a))
    BY <1>1, <1>3, UnchangedRowKept DEF QuietMove, Stage, Goto, Alive
  <2> QED
    BY <1>2, <2>1, QuietMoveStep, StepsAreQuiet DEF Stage
<1>4. CASE Staged(a) /\ Pending(Row)
  BY <1>1, <1>2, <1>4, OnwardStep DEF Stage, Staged
<1>5. CASE Staged(a) /\ ~Pending(Row)
  BY <1>1, <1>2, <1>5, OnwardStep DEF Stage
<1> QED
  BY <1>3, <1>4, <1>5

LEMMA UnlinkStep ==
    ASSUME CompletionInv, Tables', Overlays', NEW a \in Actors, Unlink(a)
    PROVE  CompletionInv'
<1>1. ~Owned /\ at[a] = "unlink"
  BY DEF CompletionInv, SettledBeforeClear, Unlink
<1>2. DataTypeOK'
  BY DEF CompletionInv, LocalTypeOK, DataTypeOK, Unlink
<1> QED
  BY <1>1, <1>2, OnwardStep DEF Unlink

\* An intent makes the row of the job's first payload, or repeats it.
LEMMA IntendStep ==
    ASSUME CompletionInv, Tables', Overlays', NEW a \in Actors, Intend(a)
    PROVE  CompletionInv'
<1>1. carry[a] \in Payloads /\ at[a] = "intend"
  BY DEF CompletionInv, LocalTypeOK, Intend
<1>2. DataTypeOK'
  BY DEF CompletionInv, LocalTypeOK, DataTypeOK, Intend
<1>3. CASE ~CanIntendCompletion(fleet, Job, 1, carry[a])
  <2>1. QuietMove(a, Failed(a)) /\ UNCHANGED <<marker, registered>>
    BY <1>1, <1>3, UnchangedRowKept DEF QuietMove, Intend, Goto, Alive
  <2> QED
    BY <1>2, <2>1, QuietMoveStep, StepsAreQuiet
<1>4. CASE CanIntendCompletion(fleet, Job, 1, carry[a])
  <2>1. /\ CompletionIntended(Job, 1, carry[a]) /\ Goto(a, "claim")
        /\ UNCHANGED <<carry, seen, marker, sent, registered, result>>
    BY <1>4 DEF Intend
  <2>2. /\ Owned /\ Owned'
        /\ fleet'.jobs[Job].conclusion = fleet.jobs[Job].conclusion
        /\ Pending(Row') /\ Row'.payload = carry[a]
        /\ Pending(Row) => Row' = Row
    BY <1>1, <2>1, IntentEffect DEF CompletionInv
  <2>3. /\ at'[a] = "claim" /\ \A b \in Actors \ {a} : at'[b] = at[b]
        /\ at' \in [Actors -> Critical \cup Quiet]
    BY <2>1, Moved DEF CompletionInv, Critical
  <2>4. \A p \in Payloads : Hot(p)' => Hot(p)
    BY <1>1, <2>1, <2>3 DEF Hot
  <2>5. LocalTypeOK'
    BY <1>1, <1>2, <2>1, <2>3 DEF CompletionInv, LocalTypeOK
  <2>6. ClaimsItsRow' /\ SettledBeforeClear'
    BY <2>1, <2>2, <2>3 DEF CompletionInv, ClaimsItsRow, SettledBeforeClear
  <2>7. OneIsHot'
    BY <2>2, <2>4 DEF CompletionInv, OneIsHot
  <2>8. MarkerOutlivesJob'
    BY <2>1, <2>2 DEF CompletionInv, MarkerOutlivesJob
  <2>9. RecoversTheDead' /\ NothingBeforeRecord'
    <3>1. CASE a = "worker"
      <4>1. RecoversTheDead' /\ at'["worker"] = "claim"
        BY <1>1, <2>1, <2>3, <3>1, WorkerMoves DEF Alive
      <4> QED
        BY <4>1 DEF NothingBeforeRecord
    <3>2. CASE a = "controller"
      <4>1. at'["controller"] = "claim" /\ at'["worker"] = at["worker"] /\ ~Alive
        BY <1>1, <2>1, <3>2, ControllerMoves DEF CompletionInv, RecoversTheDead
      <4> QED
        BY <4>1 DEF RecoversTheDead, NothingBeforeRecord, Alive
    <3> QED
      BY <3>1, <3>2, ActorsAreTwo
  <2>10. ResultIsEverywhere'
    BY <1>1, <2>1, <2>2, <2>3, <2>4 DEF CompletionInv, ResultIsEverywhere
  <2> QED
    BY <2>5, <2>6, <2>7, <2>8, <2>9, <2>10 DEF CompletionInv
<1> QED
  BY <1>3, <1>4

\* From here on an actor holds the row's payload, and sends it under the row's
\* one claim.
LEMMA ArmedStep ==
    ASSUME CompletionInv, Tables', Overlays', DataTypeOK', NEW a \in Actors,
           NEW step \in {"claim", "send"}, Goto(a, step), at[a] \in {"claim", "reload"},
           Pending(Row), Pending(Row'), Row'.payload = Row.payload, Owned, Owned',
           fleet'.jobs[Job].conclusion = fleet.jobs[Job].conclusion,
           Row.sent => Row'.sent, step = "send" => Row'.sent,
           carry'[a] = Row.payload, \A b \in Actors \ {a} : carry'[b] = carry[b],
           UNCHANGED <<seen, sent, result, marker, registered>>
    PROVE  CompletionInv'
<1>1. /\ at'[a] = step /\ \A b \in Actors \ {a} : at'[b] = at[b]
      /\ at' \in [Actors -> Critical \cup Quiet]
  BY Moved DEF CompletionInv, Critical
<1>2. Row.payload \in Payloads
  BY RowIsPayload DEF CompletionInv
<1>3. \A p \in Payloads : Hot(p)' => Hot(p) \/ (step = "send" /\ p = Row.payload)
  BY <1>1 DEF Hot
<1>4. \A p \in Payloads : Hot(p)' => p = Row.payload /\ Row'.sent
  BY <1>3 DEF CompletionInv, OneIsHot
<1>5. OneIsHot'
  BY <1>4 DEF OneIsHot
<1>6. LocalTypeOK'
  BY <1>1, <1>2 DEF CompletionInv, LocalTypeOK
<1>7. ClaimsItsRow' /\ SettledBeforeClear'
  BY <1>1 DEF CompletionInv, ClaimsItsRow, SettledBeforeClear
<1>8. MarkerOutlivesJob'
  BY DEF CompletionInv, MarkerOutlivesJob
<1>9. RecoversTheDead'
  <2>1. CASE a = "worker"
    BY <2>1, WorkerMoves DEF Alive
  <2>2. CASE a = "controller"
    <3>1. at'["controller"] = step
      BY <2>2, ControllerMoves
    <3> QED
      BY <3>1 DEF RecoversTheDead
  <2> QED
    BY <2>1, <2>2, ActorsAreTwo
<1>10. NothingBeforeRecord'
  BY <1>1, ActorsAreTwo DEF CompletionInv, NothingBeforeRecord
<1>11. ResultIsEverywhere'
  BY <1>1, <1>2, <1>4 DEF CompletionInv, ResultIsEverywhere
<1> QED
  BY <1>5, <1>6, <1>7, <1>8, <1>9, <1>10, <1>11 DEF CompletionInv

\* The claim: nothing was hot before, for the row was unclaimed.
LEMMA ClaimStep ==
    ASSUME CompletionInv, Tables', Overlays', NEW a \in Actors, Claim(a)
    PROVE  CompletionInv'
<1>1. carry[a] \in Payloads /\ at[a] = "claim"
  BY DEF CompletionInv, LocalTypeOK, Claim
<1>2. DataTypeOK'
  BY DEF CompletionInv, LocalTypeOK, DataTypeOK, Claim
<1>3. CASE ~CanClaimSend(fleet, Job, 1)
  <2>1. QuietMove(a, Failed(a)) /\ UNCHANGED <<marker, registered>>
    BY <1>1, <1>3, UnchangedRowKept DEF QuietMove, Claim, Goto, Alive
  <2> QED
    BY <1>2, <2>1, QuietMoveStep, StepsAreQuiet
<1>4. CASE CanClaimSend(fleet, Job, 1)
  <2>1. /\ CompletionSendStarted(Job, 1) /\ Goto(a, "send")
        /\ UNCHANGED <<carry, seen, sent, result, marker, registered>>
    BY <1>4 DEF Claim
  <2>2. /\ Pending(Row) /\ Pending(Row') /\ Row'.payload = Row.payload /\ Row'.sent
        /\ Owned /\ Owned' /\ fleet'.jobs[Job] = fleet.jobs[Job]
    BY <2>1, ClaimEffect DEF CompletionInv
  <2>3. carry[a] = Row.payload
    BY <1>1, <2>2 DEF CompletionInv, ClaimsItsRow
  <2> QED
    BY <1>1, <1>2, <2>1, <2>2, <2>3, ArmedStep
<1> QED
  BY <1>3, <1>4

\* Putting the payload on the wire makes nothing hot that was not.
LEMMA SendStep ==
    ASSUME CompletionInv, Tables', Overlays', NEW a \in Actors, Send(a)
    PROVE  CompletionInv'
<1>1. carry[a] \in Payloads /\ at[a] = "send"
  BY DEF CompletionInv, LocalTypeOK, Send
<1>2. DataTypeOK'
  BY <1>1 DEF CompletionInv, LocalTypeOK, DataTypeOK, Send
<1>3. /\ at'[a] = "await" /\ \A b \in Actors \ {a} : at'[b] = at[b]
      /\ at' \in [Actors -> Critical \cup Quiet]
  BY Moved DEF CompletionInv, Quiet, Send
<1>4. RowKept
  BY UnchangedRowKept DEF Send
<1>5. \A p \in Payloads : Hot(p)' => Hot(p)
  BY <1>1, <1>3 DEF Hot, Send
<1>6. OneIsHot'
  BY <1>4, <1>5 DEF CompletionInv, OneIsHot, RowKept
<1>7. LocalTypeOK'
  BY <1>2, <1>3 DEF CompletionInv, LocalTypeOK, Send
<1>8. ClaimsItsRow' /\ SettledBeforeClear' /\ MarkerOutlivesJob'
  BY <1>3, <1>4 DEF CompletionInv, ClaimsItsRow, SettledBeforeClear, MarkerOutlivesJob, RowKept, Send
<1>9. RecoversTheDead'
  <2>1. CASE a = "worker"
    BY <1>1, <2>1, WorkerMoves DEF Alive, Send
  <2>2. CASE a = "controller"
    <3>1. at'["controller"] = "await"
      BY <2>2, ControllerMoves DEF Send
    <3> QED
      BY <3>1 DEF RecoversTheDead
  <2> QED
    BY <2>1, <2>2, ActorsAreTwo
<1>10. NothingBeforeRecord' /\ ResultIsEverywhere'
  BY <1>3, <1>4, <1>5, ActorsAreTwo
     DEF CompletionInv, NothingBeforeRecord, ResultIsEverywhere, RowKept, Send
<1> QED
  BY <1>6, <1>7, <1>8, <1>9, <1>10 DEF CompletionInv

\* A replay reads the row's payload back from its file.
LEMMA ReloadStep ==
    ASSUME CompletionInv, Tables', Overlays', NEW a \in Actors, Reload(a)
    PROVE  CompletionInv'
<1>1. at[a] = "reload" /\ UNCHANGED <<seen, sent, result, marker, registered>>
  BY DEF Reload
<1>2. CASE ~Replayable
  <2>1. QuietMove(a, Failed(a)) /\ UNCHANGED <<marker, registered>>
    BY <1>1, <1>2, UnchangedRowKept DEF QuietMove, Reload, Goto, Alive
  <2>2. DataTypeOK'
    BY <1>2 DEF CompletionInv, LocalTypeOK, DataTypeOK, Reload
  <2> QED
    BY <2>1, <2>2, QuietMoveStep, StepsAreQuiet
<1>3. CASE Replayable
  <2>1. Pending(Row) /\ Owned /\ file = Row.payload /\ Row.payload \in Payloads
    BY <1>3, RowIsPayload DEF CompletionInv, Replayable
  <2>2. /\ carry' \in [Actors -> Payloads \cup {Nothing}] /\ carry'[a] = Row.payload
        /\ \A b \in Actors \ {a} : carry'[b] = carry[b]
    BY <1>3, <2>1 DEF CompletionInv, LocalTypeOK, DataTypeOK, Reload, Carry
  <2>3. DataTypeOK'
    BY <2>2 DEF CompletionInv, LocalTypeOK, DataTypeOK, Reload
  <2>4. /\ Owned' /\ Pending(Row') /\ Row'.payload = Row.payload /\ Row'.sent = Row.sent
        /\ fleet'.jobs[Job].conclusion = fleet.jobs[Job].conclusion
    BY <2>1, UnchangedRowKept DEF Reload, RowKept
  <2>5. CASE Row.sent
    BY <1>1, <1>3, <2>1, <2>2, <2>3, <2>4, <2>5, ArmedStep DEF Reload
  <2>6. CASE ~Row.sent
    BY <1>1, <1>3, <2>1, <2>2, <2>3, <2>4, <2>6, ArmedStep DEF Reload
  <2> QED
    BY <2>5, <2>6
<1> QED
  BY <1>2, <1>3

\* The acknowledgement takes the job and its row, and then the file may go.
LEMMA AckStep ==
    ASSUME CompletionInv, Tables', Overlays', NEW a \in Actors, Ack(a)
    PROVE  CompletionInv'
<1>1. at[a] = "ack" /\ UNCHANGED <<carry, seen, sent, result, marker, registered>>
  BY DEF Ack
<1>2. DataTypeOK'
  BY DEF CompletionInv, LocalTypeOK, DataTypeOK, Ack
<1>3. CASE ~CanSettle(fleet, Job, 1)
  <2>1. QuietMove(a, Failed(a)) /\ UNCHANGED <<marker, registered>>
    BY <1>1, <1>3, UnchangedRowKept DEF QuietMove, Ack, Goto, Alive
  <2> QED
    BY <1>2, <2>1, QuietMoveStep, StepsAreQuiet
<1>4. CASE CanSettle(fleet, Job, 1)
  <2>1. JobGone
    BY <1>4, SettleEffect DEF Ack, CompletionInv, RemoteAcked, CanSettle, PendingRow, Row
  <2>2. /\ at'[a] = "unlink" /\ \A b \in Actors \ {a} : at'[b] = at[b]
        /\ at' \in [Actors -> Critical \cup Quiet] /\ Goto(a, "unlink")
    BY <1>4, Moved DEF CompletionInv, Critical, Ack
  <2>3. \A p \in Payloads : Hot(p)' => Hot(p)
    BY <1>1, <2>2 DEF Hot
  <2>4. LocalTypeOK'
    BY <1>1, <1>2, <2>2 DEF CompletionInv, LocalTypeOK
  <2>5. ClaimsItsRow' /\ SettledBeforeClear' /\ MarkerOutlivesJob'
    BY <2>1 DEF ClaimsItsRow, SettledBeforeClear, MarkerOutlivesJob, JobGone
  <2>6. OneIsHot'
    BY <2>1, <2>3 DEF CompletionInv, OneIsHot, JobGone
  <2>7. RecoversTheDead'
    <3>1. CASE a = "worker"
      BY <1>1, <2>2, <3>1, WorkerMoves DEF Alive
    <3>2. CASE a = "controller"
      BY <2>2, <3>2 DEF RecoversTheDead
    <3> QED
      BY <3>1, <3>2, ActorsAreTwo
  <2>8. NothingBeforeRecord' /\ ResultIsEverywhere'
    BY <1>1, <2>1, <2>2, <2>3, ActorsAreTwo
       DEF CompletionInv, NothingBeforeRecord, ResultIsEverywhere, JobGone
  <2> QED
    BY <2>4, <2>5, <2>6, <2>7, <2>8 DEF CompletionInv
<1> QED
  BY <1>3, <1>4

\* The controller goes on to prove a death, or to record for a dead worker.
LEMMA TakeUpStep ==
    ASSUME CompletionInv, Tables', Overlays', DataTypeOK', NEW step \in {"prove", "record"},
           Goto("controller", step), ~Alive, step = "prove" => seen.job # Nothing,
           carry'["worker"] = carry["worker"],
           step = "record" => /\ carry'["controller"] \in Payloads
                              /\ result # Nothing => CarriedBy(carry'["controller"]) = result,
           UNCHANGED <<fleetVars, seen, sent, result, marker, registered>>
    PROVE  CompletionInv'
<1> DEFINE c == "controller"
<1>1. /\ at'[c] = step /\ at'["worker"] = at["worker"] /\ at' \in [Actors -> Critical \cup Quiet]
      /\ \A b \in Actors : b = "worker" \/ b = c
  BY Moved, ActorsAreTwo DEF CompletionInv, Critical
<1>2. RowKept
  BY UnchangedRowKept
<1>3. \A p \in Payloads : Hot(p)' => Hot(p)
  BY <1>1 DEF Hot
<1>4. LocalTypeOK'
  BY <1>1 DEF CompletionInv, LocalTypeOK
<1>5. ClaimsItsRow' /\ SettledBeforeClear' /\ MarkerOutlivesJob'
  BY <1>1, <1>2 DEF CompletionInv, ClaimsItsRow, SettledBeforeClear, MarkerOutlivesJob, RowKept
<1>6. OneIsHot'
  BY <1>2, <1>3 DEF CompletionInv, OneIsHot, RowKept
<1>7. RecoversTheDead' /\ NothingBeforeRecord'
  BY <1>1 DEF RecoversTheDead, NothingBeforeRecord, Alive
<1>8. ResultIsEverywhere'
  BY <1>1, <1>2, <1>3 DEF CompletionInv, ResultIsEverywhere, RowKept
<1> QED
  BY <1>4, <1>5, <1>6, <1>7, <1>8 DEF CompletionInv

LEMMA LookStep ==
    ASSUME CompletionInv, Tables', Overlays', Look
    PROVE  CompletionInv'
<1>1. DataTypeOK'
  BY DEF CompletionInv, LocalTypeOK, DataTypeOK, Look
<1>2. CASE seen.job # Nothing /\ ~Alive
  BY <1>1, <1>2, TakeUpStep DEF Look
<1>3. CASE ~(seen.job # Nothing /\ ~Alive)
  <2>1. "controller" \in Actors /\ "controller" # "worker" /\ AfterOrphans \in Quiet
    BY ActorsAreTwo, StepsAreQuiet
  <2>2. QuietMove("controller", AfterOrphans)
    BY <1>3, <2>1, UnchangedRowKept DEF QuietMove, Look, Goto
  <2> QED
    BY <1>1, <2>1, <2>2, QuietMoveStep DEF Look
<1> QED
  BY <1>2, <1>3

\* Recovery sends the stored row, the recorded conclusion, or a failure where no
\* conclusion was recorded: what it takes up agrees with a recorded result.
LEMMA RecoverStep ==
    ASSUME CompletionInv, Tables', Overlays', Recover
    PROVE  CompletionInv'
<1> DEFINE c == "controller"
<1>0. /\ c \in Actors /\ c # "worker" /\ "worker" \in Actors
      /\ carry \in [Actors -> Payloads \cup {Nothing}]
  BY ActorsAreTwo DEF CompletionInv, LocalTypeOK, DataTypeOK
<1>1. /\ at[c] = "prove" /\ ~Alive /\ seen.job # Nothing /\ fleet.jobs[Job] = seen.job
      /\ UNCHANGED <<fleetVars, seen, sent, result, marker, registered>>
  BY DEF CompletionInv, RecoversTheDead, Recover, ProofHolds
<1>2. CASE Goto(c, "reload") /\ UNCHANGED carry
  <2>1. DataTypeOK'
    BY <1>2 DEF CompletionInv, LocalTypeOK, DataTypeOK, Recover
  <2>2. "reload" \in Quiet /\ QuietMove(c, "reload")
    BY <1>0, <1>1, <1>2, UnchangedRowKept DEF QuietMove, Goto, Quiet
  <2> QED
    BY <1>0, <1>1, <2>1, <2>2, QuietMoveStep
<1>3. CASE Goto(c, "record")
           /\ \E p \in Payloads : Carry(c, p) /\ (result # Nothing => CarriedBy(p) = result)
  <2>1. /\ carry' \in [Actors -> Payloads \cup {Nothing}] /\ carry'["worker"] = carry["worker"]
        /\ carry'[c] \in Payloads /\ (result # Nothing => CarriedBy(carry'[c]) = result)
    BY <1>0, <1>3 DEF Carry
  <2>2. DataTypeOK'
    BY <2>1 DEF CompletionInv, LocalTypeOK, DataTypeOK, Recover
  <2> QED
    BY <1>1, <1>3, <2>1, <2>2, TakeUpStep
<1>4. /\ seen.job.conclusion \in Conclusions \cup {Nothing}
      /\ result # Nothing => seen.job.conclusion = result
  <2>1. fleet \in FleetState /\ HasJob(fleet, Job) /\ Job \in JobIds
    BY <1>1, CompletionConstants DEF CompletionInv, Tables, Sound, HasJob
  <2>2. fleet.jobs[Job] \in JobRecord
    BY <2>1, JobIsTyped
  <2> QED
    BY <1>1, <2>1, <2>2 DEF CompletionInv, ResultIsEverywhere, Owned, JobRecord
<1>5. Failure \in Conclusions
  BY CompletionConstants
<1>6. CASE seen.job.conclusion # Nothing /\ Goto(c, "record")
           /\ \E v \in Versions : Carry(c, Payload("recovered", seen.job.conclusion, v))
  <2>1. seen.job.conclusion \in Conclusions
    BY <1>4, <1>6
  <2> QED
    BY <1>3, <1>4, <1>6, <2>1, PayloadBuilt
<1>7. CASE seen.job.conclusion = Nothing /\ Goto(c, "record")
           /\ \E v \in Versions : Carry(c, Payload("synthetic", Failure, v))
  BY <1>3, <1>4, <1>5, <1>7, PayloadBuilt
<1> QED
  BY <1>2, <1>6, <1>7 DEF Recover

\* Time passes, the service accepts, GitHub deletes the runner.
LEMMA OutsideStep ==
    ASSUME CompletionInv, Tables', Overlays',
           ServiceAccepts \/ IntervalPasses \/ DeadlinePasses \/ RunnerDeleted
    PROVE  CompletionInv'
<1>1. RowKept /\ UNCHANGED <<at, carry, seen, sent, result, marker>>
      /\ (registered' = registered \/ ~registered')
  BY UnchangedRowKept DEF ServiceAccepts, IntervalPasses, DeadlinePasses, RunnerDeleted
<1>2. DataTypeOK'
  BY DEF CompletionInv, LocalTypeOK, DataTypeOK, ServiceAccepts, IntervalPasses,
         DeadlinePasses, RunnerDeleted
<1>3. \A p \in Payloads : Hot(p)' <=> Hot(p)
  BY <1>1 DEF Hot
<1>4. LocalTypeOK' /\ RecoversTheDead'
  BY <1>1, <1>2 DEF CompletionInv, LocalTypeOK, RecoversTheDead, Alive
<1>5. ClaimsItsRow' /\ SettledBeforeClear' /\ MarkerOutlivesJob'
  BY <1>1 DEF CompletionInv, ClaimsItsRow, SettledBeforeClear, MarkerOutlivesJob, RowKept
<1>6. OneIsHot' /\ NothingBeforeRecord' /\ ResultIsEverywhere'
  BY <1>1, <1>3
     DEF CompletionInv, OneIsHot, NothingBeforeRecord, ResultIsEverywhere, RowKept
<1> QED
  BY <1>4, <1>5, <1>6 DEF CompletionInv

-----------------------------------------------------------------------------
(* The inductive invariant *)

\* The journal that the worker starts from: one running job on its slot.
LEMMA OwnedIsSound == Sound(OwnedFleet) /\ \A j \in JobIds : OwnedFleet.outbox[j] = Nothing
<1> DEFINE st == OwnedFleet
           slot == [gen |-> 1, phase |-> "assigned", permit |-> TRUE, routing |-> TRUE,
                    session |-> 1, executor |-> 1, registered |-> TRUE]
           job == [slot |-> Slot, gen |-> 1, phase |-> "running", plan |-> TRUE,
                   provisional |-> FALSE, conclusion |-> Nothing, probes |-> 0]
<1>1. EmptyFleet \in FleetState /\ Slot \in Slots /\ Job \in JobIds
  BY EmptyIsSound, CompletionConstants DEF Sound
<1>2. slot \in SlotRecord /\ job \in JobRecord
  BY <1>1, FleetConstants DEF SlotRecord, JobRecord, Generations, SlotPhases, JobPhases
<1>3. /\ st \in FleetState
      /\ \A s \in Slots : st.slots[s] = IF s = Slot THEN slot ELSE NewSlot
      /\ \A j \in JobIds : st.jobs[j] = IF j = Job THEN job ELSE Nothing
      /\ \A j \in JobIds : st.outbox[j] = Nothing
  BY <1>1, <1>2 DEF OwnedFleet, FleetState, EmptyFleet
<1>4. job # Nothing
  BY <1>2, RowMarkers
<1>5. st.slots[Slot] = slot /\ st.jobs[Job] = job
      /\ \A j \in JobIds : HasJob(st, j) => j = Job
  BY <1>1, <1>3 DEF HasJob
<1> HIDE DEF st
<1>6. JobsFit(st) /\ OneJobPerSlot(st) /\ AllOwnersProven(st)
  BY <1>1, <1>3, <1>5 DEF JobsFit, OneJobPerSlot, AllOwnersProven, Pending
<1>7. AssignedAreOccupied(st)
  <2>1. \A s \in Slots : st.slots[s].phase = "assigned" => s = Slot
    BY <1>3 DEF NewSlot
  <2>2. Occupied(st, Slot)
    BY <1>1, <1>4, <1>5 DEF Occupied, HasJob
  <2> QED
    BY <2>1, <2>2 DEF AssignedAreOccupied
<1>8. \A s \in Slots : ProofsCurrent(st.slots[s])
  BY <1>3 DEF ProofsCurrent, NewSlot
<1> QED
  BY <1>3, <1>6, <1>7, <1>8 DEF st, Sound

LEMMA CompletionStarts ==
    ASSUME CompletionInit
    PROVE  CompletionInv
<1>1. fleet = OwnedFleet /\ Sound(fleet) /\ \A j \in JobIds : fleet.outbox[j] = Nothing
  BY OwnedIsSound DEF CompletionInit
<1>2. Tables
  <2>1. fleet \in FleetState
    BY <1>1 DEF Sound
  <2>2. fleet = Persisted(fleet)
    BY <1>1, <2>1, NothingToPersist
  <2> QED
    BY <1>1, <2>1, <2>2, FleetConstants DEF CompletionInit, Tables, ReplayMatchesTables
<1>3. Overlays
  BY DEF CompletionInit, Overlays
<1>4. /\ at \in [Actors -> Critical \cup Quiet] /\ at["worker"] = "run"
      /\ at["controller"] = "idle" /\ \A a \in Actors : at[a] \in {"run", "idle"}
  BY ActorsAreTwo DEF CompletionInit, Critical, Quiet
<1>5. ~Pending(Row)
  BY <1>1, CompletionConstants DEF Row, Pending
<1>6. LocalTypeOK
  BY <1>4 DEF CompletionInit, LocalTypeOK, DataTypeOK, Unseen
<1>7. \A p \in Payloads : ~Hot(p)
  BY <1>4 DEF CompletionInit, Hot
<1>8. ClaimsItsRow /\ SettledBeforeClear /\ RecoversTheDead
  BY <1>4 DEF ClaimsItsRow, SettledBeforeClear, RecoversTheDead
<1>9. OneIsHot /\ NothingBeforeRecord /\ ResultIsEverywhere /\ MarkerOutlivesJob
  BY <1>5, <1>7
     DEF CompletionInit, OneIsHot, NothingBeforeRecord, ResultIsEverywhere, MarkerOutlivesJob
<1> QED
  BY <1>2, <1>3, <1>6, <1>8, <1>9 DEF CompletionInv

LEMMA CompletionInvInductive ==
    /\ CompletionInit => CompletionInv
    /\ CompletionInv /\ [CompletionNext]_completionVars => CompletionInv'
<1>1. ASSUME CompletionInv, CompletionNext PROVE CompletionInv'
  <2>0. Tables' /\ Overlays'
    BY <1>1, TablesKept
  <2>1. ASSUME NEW a \in Actors, GuardedSend(a) PROVE CompletionInv'
    BY <1>1, <2>0, <2>1, RecordStep, StageStep, IntendStep, ClaimStep, SendStep, ReloadStep,
       AckStep, UnlinkStep, QuietActorStep DEF GuardedSend
  <2>2. ASSUME NEW a \in Actors, JournalError(a) \/ \E p \in BOOLEAN : NoReply(a, p)
        PROVE  CompletionInv'
    BY <1>1, <2>0, <2>2, QuietActorStep, NoReplyStep
  <2>3. CASE ControllerStep \/ Recover \/ Release \/ Defer \/ Crash
    BY <1>1, <2>0, <2>3, LookStep, RecoverStep, QuietControllerStep DEF ControllerStep
  <2>4. CASE Conclude \/ Die
    BY <1>1, <2>0, <2>4, ConcludeStep, DieStep
  <2>5. CASE ServiceAccepts \/ IntervalPasses \/ DeadlinePasses \/ RunnerDeleted
    BY <1>1, <2>0, <2>5, OutsideStep
  <2> QED
    BY <1>1, <2>1, <2>2, <2>3, <2>4, <2>5 DEF CompletionNext
<1>2. ASSUME CompletionInv, UNCHANGED completionVars PROVE CompletionInv'
  <2>1. /\ UNCHANGED fleetVars /\ UNCHANGED fleet /\ UNCHANGED <<replay, intact>>
        /\ UNCHANGED <<barred, pressure, struck>>
        /\ UNCHANGED <<at, carry, seen, due, file, marker, sent, told, acked, late, fresh,
                       registered, result, faults>>
    BY <1>2 DEF completionVars, localVars, fleetVars
  <2>2. Tables' /\ Overlays'
    BY <1>2, <2>1 DEF CompletionInv, Tables, Overlays, ReplayMatchesTables
  <2>3. RowKept /\ \A p \in Payloads : Hot(p)' <=> Hot(p)
    BY <2>1, UnchangedRowKept DEF Hot
  <2>4. LocalTypeOK' /\ RecoversTheDead'
    BY <1>2, <2>1 DEF CompletionInv, LocalTypeOK, DataTypeOK, RecoversTheDead, Alive
  <2>5. ClaimsItsRow' /\ SettledBeforeClear' /\ MarkerOutlivesJob'
    BY <1>2, <2>1, <2>3
       DEF CompletionInv, ClaimsItsRow, SettledBeforeClear, MarkerOutlivesJob, RowKept
  <2>6. OneIsHot' /\ NothingBeforeRecord' /\ ResultIsEverywhere'
    BY <1>2, <2>1, <2>3
       DEF CompletionInv, OneIsHot, NothingBeforeRecord, ResultIsEverywhere, RowKept
  <2> QED
    BY <2>2, <2>4, <2>5, <2>6 DEF CompletionInv
<1> QED
  BY <1>1, <1>2, CompletionStarts

LEMMA CompletionInvHolds == CompletionSpec => []CompletionInv
  BY CompletionInvInductive, PTL DEF CompletionSpec

-----------------------------------------------------------------------------
(* What completion promises *)

\* Journal, files, marker and payloads have their types at every crash point.
THEOREM CompletionTypeCorrect == CompletionSpec => []CompletionTypeOK
<1>1. CompletionInv => CompletionTypeOK
  BY DEF CompletionInv, Tables, Overlays, Sound, FleetTypeOK, LocalTypeOK, DataTypeOK,
         CompletionTypeOK
<1> QED
  BY <1>1, CompletionInvHolds, PTL

\* Every journal write of the worker and of the controller is an event that the
\* journal accepts, or leaves it alone: completion implements FleetJournal's
\* next-state relation, so that what every event keeps is kept here too.
THEOREM CompletionWritesTheJournal == CompletionSpec => [][FleetNext]_fleetVars
<1>1. CompletionInv /\ [CompletionNext]_completionVars => [FleetNext]_fleetVars
  <2>1. CompletionInv /\ CompletionNext => [FleetNext]_fleetVars
    BY WritesAreEvents, WritesAreJournalSteps DEF CompletionInv
  <2>2. UNCHANGED completionVars => UNCHANGED fleetVars
    BY DEF completionVars
  <2> QED
    BY <2>1, <2>2
<1> QED
  BY <1>1, CompletionInvHolds, PTL DEF CompletionSpec

\* What the worker recorded is all that is ever sent, by the worker or for it.
THEOREM CompletionResultStands == CompletionSpec => []ResultStands
<1>1. CompletionInv => ResultStands
  BY DEF CompletionInv, LocalTypeOK, DataTypeOK, ResultIsEverywhere, Hot, ResultStands
<1> QED
  BY <1>1, CompletionInvHolds, PTL

\* At most one payload is ever put on the wire, however often it is sent.
THEOREM CompletionOneResult == CompletionSpec => []OneResult
<1>1. ASSUME CompletionInv PROVE OneResult
  <2>1. \A p, q \in sent : p = q
    BY <1>1 DEF CompletionInv, LocalTypeOK, DataTypeOK, OneIsHot, Hot
  <2>2. CASE sent = {}
    BY <2>2, FS_EmptySet DEF OneResult
  <2>3. CASE sent # {}
    <3>1. PICK p \in sent : sent = {p}
      BY <2>1, <2>3
    <3>2. Cardinality({p}) = 1
      BY FS_Singleton
    <3> QED
      BY <3>1, <3>2 DEF OneResult
  <2> QED
    BY <2>2, <2>3
<1> QED
  BY <1>1, CompletionInvHolds, PTL

\* The slot keeps its marker for as long as the journal has the job.
THEOREM CompletionMarkerOutlivesJob == CompletionSpec => []MarkerOutlivesJob
<1>1. CompletionInv => MarkerOutlivesJob
  BY DEF CompletionInv
<1> QED
  BY <1>1, CompletionInvHolds, PTL

=============================================================================
