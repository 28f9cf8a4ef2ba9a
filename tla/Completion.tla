----------------------------- MODULE Completion -----------------------------
(***************************************************************************)
(* How the result of one owned job reaches the run service (complete.rs,   *)
(* controller.rs, runner.rs).  The worker that ran the job records its     *)
(* conclusion in the journal, stages the payload as a file, intends it,    *)
(* claims the one send, sends, and only then settles the row and removes   *)
(* file and in-flight marker.  It can die between any two of these steps.  *)
(* The controller, cycle after cycle, finishes what a dead worker left:    *)
(* it replays an intended payload, sends a recorded conclusion, or sends a *)
(* failure that it makes up; it sweeps payload files without a row and     *)
(* gives up on rows whose budget or deadline is spent.                     *)
(*                                                                         *)
(* The journal is FleetJournal's, and each journal write below is one of   *)
(* its actions.  There is one job, one attempt.  A read and the check that *)
(* follows it are one step where only the reader can change what was read: *)
(* the controller acts for a worker only when that worker is dead, and no  *)
(* other process takes the job over.                                       *)
(*                                                                         *)
(* Left out: teardown of containers and permits (NativeLane), execution    *)
(* config errors, which defer a cycle, unreadable files, and the slot      *)
(* supervision that the controller does earlier in its cycle.              *)
(***************************************************************************)
EXTENDS FleetJournal

CONSTANTS
    Slot, Job,      \* the job and its slot, of generation 1
    Failure,        \* the conclusion that recovery makes up
    Versions,       \* clock readings: a payload holds the time it was built
    MaxFaults       \* bound: controller crashes and failed journal writes

Actors == {"worker", "controller"}

\* The worker's own payload, a recorded conclusion, or a made-up failure.
Payload(kind, c, v) == <<kind, c, v>>
CarriedBy(p) == p[2]

ASSUME CompletionConstants ==
    /\ Slot \in Slots /\ Job \in JobIds /\ Failure \in Conclusions /\ MaxFaults \in Nat
    /\ Versions # {}
    /\ Payloads = {"own", "recovered", "synthetic"} \X Conclusions \X Versions

VARIABLES
    at,         \* the step each actor takes next
    carry,      \* the payload each actor holds
    seen,       \* the controller's snapshot: the job row, and a pending row or not
    due,        \* this cycle scans markers and sweeps files
    file,       \* the staged payload in the outbox directory
    marker,     \* the slot's in-flight marker
    sent,       \* payloads that were put on the wire
    told,       \* the payload that the service accepted first
    acked,      \* a terminal acknowledgement is in the log
    late,       \* the row's resolution deadline has passed
    fresh,      \* the worker has not refreshed its credentials
    registered, \* GitHub still knows the runner
    result,     \* ghost: the conclusion that the worker recorded
    faults

localVars == <<at, carry, seen, due, file, marker, sent, told, acked, late, fresh,
               registered, result, faults>>
completionVars == <<fleetVars, localVars>>

Unseen == [job |-> Nothing, row |-> FALSE]

OwnedFleet ==
    [EmptyFleet EXCEPT
        !.routing = TRUE,
        !.slots[Slot] = [gen |-> 1, phase |-> "assigned", permit |-> TRUE, routing |-> TRUE,
                         session |-> 1, executor |-> 1, registered |-> TRUE],
        !.jobs[Job] = [slot |-> Slot, gen |-> 1, phase |-> "running", plan |-> TRUE,
                       provisional |-> FALSE, conclusion |-> Nothing, probes |-> 0]]

CompletionInit ==
    /\ fleet = OwnedFleet /\ replay = OwnedFleet /\ intact = TRUE
    /\ barred = FALSE /\ pressure = "none" /\ struck = {}
    /\ at = [a \in Actors |-> IF a = "worker" THEN "run" ELSE "idle"]
    /\ carry = [a \in Actors |-> Nothing]
    /\ seen = Unseen /\ due = TRUE /\ file = Nothing /\ marker = TRUE
    /\ sent = {} /\ told = Nothing /\ acked = FALSE /\ late = FALSE /\ fresh = TRUE
    /\ registered = TRUE /\ result = Nothing /\ faults = 0

Row == fleet.outbox[Job]
Owned == HasJob(fleet, Job)
Alive == at["worker"] # "dead"

Goto(a, step) == at' = [at EXCEPT ![a] = step]
Carry(a, p) == carry' = [carry EXCEPT ![a] = p]
Fault == faults < MaxFaults /\ faults' = faults + 1

\* After the orphans come the markers and the files, when they are due.
AfterOrphans == IF due THEN "scan" ELSE "rows"

\* Where an error leaves an actor.  A failed replay looks at its budget.
Failed(a) ==
    IF a = "worker" THEN "failed" ELSE IF seen.row THEN "spent" ELSE AfterOrphans

-----------------------------------------------------------------------------
(* The guarded send, which both actors run *)

\* The job ends, with any conclusion; its worker builds one payload.
Conclude ==
    /\ at["worker"] = "run"
    /\ \E c \in Conclusions : Carry("worker", Payload("own", c, CHOOSE v \in Versions : TRUE))
    /\ Goto("worker", "record")
    /\ UNCHANGED <<fleetVars, seen, due, file, marker, sent, told, acked, late, fresh,
                   registered, result, faults>>

\* record_terminal_result, whose failure is not fatal
Record(a) ==
    /\ at[a] = "record"
    /\ LET c == CarriedBy(carry[a]) IN
        \/ /\ CanConclude(fleet, Job, 1, c)
           /\ JobTerminalResult(Job, 1, c)
           /\ result' = IF a = "worker" THEN c ELSE result
           /\ UNCHANGED faults
        \/ /\ ~CanConclude(fleet, Job, 1, c)
           /\ UNCHANGED <<fleetVars, result, faults>>
        \/ Fault /\ UNCHANGED <<fleetVars, result>>
    /\ Goto(a, "stage")
    /\ UNCHANGED <<carry, seen, due, file, marker, sent, told, acked, late, fresh, registered>>

\* commit_intent up to the file: a pending row must have this very payload, and
\* a file that is already there must be equal.
Staged(a) ==
    IF Pending(Row) THEN Row.payload = carry[a] /\ file = carry[a] ELSE file \in {Nothing, carry[a]}

Stage(a) ==
    /\ at[a] = "stage"
    /\ file' = IF Staged(a) THEN carry[a] ELSE file
    /\ Goto(a, IF ~Staged(a) THEN Failed(a) ELSE IF Pending(Row) THEN "claim" ELSE "intend")
    /\ UNCHANGED <<fleetVars, carry, seen, due, marker, sent, told, acked, late, fresh,
                   registered, result, faults>>

\* The rest of commit_intent; a rejected intent takes its file with it.
Intend(a) ==
    /\ at[a] = "intend"
    /\ IF CanIntendCompletion(fleet, Job, 1, carry[a])
         THEN CompletionIntended(Job, 1, carry[a]) /\ Goto(a, "claim") /\ UNCHANGED file
         ELSE UNCHANGED fleetVars /\ Goto(a, Failed(a)) /\ file' = Nothing
    /\ UNCHANGED <<carry, seen, due, marker, sent, told, acked, late, fresh, registered,
                   result, faults>>

\* claim_completion_send
Claim(a) ==
    /\ at[a] = "claim"
    /\ IF CanClaimSend(fleet, Job, 1)
         THEN CompletionSendStarted(Job, 1) /\ Goto(a, "send")
         ELSE UNCHANGED fleetVars /\ Goto(a, Failed(a))
    /\ UNCHANGED <<carry, seen, due, file, marker, sent, told, acked, late, fresh,
                   registered, result, faults>>

Send(a) ==
    /\ at[a] = "send"
    /\ sent' = sent \cup {carry[a]}
    /\ Goto(a, "await")
    /\ UNCHANGED <<fleetVars, carry, seen, due, file, marker, told, acked, late, fresh,
                   registered, result, faults>>

\* The service accepts the first request that arrives; the sender may be gone.
ServiceAccepts ==
    /\ told = Nothing
    /\ \E p \in sent : told' = p
    /\ UNCHANGED <<fleetVars, at, carry, seen, due, file, marker, sent, acked, late, fresh,
                   registered, result, faults>>

\* Accepted, or RemoteObservedTerminal
Reply(a) ==
    /\ at[a] = "await"
    /\ told # Nothing
    /\ Goto(a, "ack")
    /\ UNCHANGED <<fleetVars, carry, seen, due, file, marker, sent, told, acked, late, fresh,
                   registered, result, faults>>

\* record_attempt_failure: p says that the service refused the payload for good.
\* The worker refreshes its credentials once and then sends the row's payload.
NoReply(a, p) ==
    /\ at[a] = "await"
    /\ p => told = Nothing
    /\ IF CanSettle(fleet, Job, 1) /\ Row.attempts < MaxAttempts
         THEN CompletionAttemptFailed(Job, 1, p)
         ELSE UNCHANGED fleetVars
    /\ \/ Goto(a, Failed(a)) /\ UNCHANGED fresh
       \/ a = "worker" /\ fresh /\ ~p /\ fresh' = FALSE /\ Goto(a, "reload")
    /\ UNCHANGED <<carry, seen, due, file, marker, sent, told, acked, late, registered,
                   result, faults>>

\* resend_guarded_run_service_complete, replay_recorded_completion: the stored
\* payload is sent again under the row's claim.
Replayable ==
    Owned /\ fleet.jobs[Job].phase = "completing" /\ Pending(Row) /\ file = Row.payload

Reload(a) ==
    /\ at[a] = "reload"
    /\ IF Replayable
         THEN Carry(a, file) /\ Goto(a, IF Row.sent THEN "send" ELSE "claim")
         ELSE Goto(a, Failed(a)) /\ UNCHANGED carry
    /\ UNCHANGED <<fleetVars, seen, due, file, marker, sent, told, acked, late, fresh,
                   registered, result, faults>>

\* ack_remote: the journal first, then the file
Ack(a) ==
    /\ at[a] = "ack"
    /\ IF CanSettle(fleet, Job, 1)
         THEN RemoteAcked(Job, 1) /\ acked' = TRUE /\ Goto(a, "unlink")
         ELSE UNCHANGED <<fleetVars, acked>> /\ Goto(a, Failed(a))
    /\ UNCHANGED <<carry, seen, due, file, marker, sent, told, late, fresh, registered,
                   result, faults>>

Unlink(a) ==
    /\ at[a] = "unlink"
    /\ file' = Nothing
    /\ Goto(a, "clear")
    /\ UNCHANGED <<fleetVars, carry, seen, due, marker, sent, told, acked, late, fresh,
                   registered, result, faults>>

\* The marker goes last.
Clear(a) ==
    /\ at[a] = "clear"
    /\ marker' = FALSE
    /\ Goto(a, IF a = "worker" THEN "done" ELSE AfterOrphans)
    /\ UNCHANGED <<fleetVars, carry, seen, due, file, sent, told, acked, late, fresh,
                   registered, result, faults>>

\* A journal write fails, and with it the send.
JournalError(a) ==
    /\ at[a] \in {"intend", "claim", "ack"}
    /\ Fault
    /\ Goto(a, Failed(a))
    /\ UNCHANGED <<fleetVars, carry, seen, due, file, marker, sent, told, acked, late, fresh,
                   registered, result>>

GuardedSend(a) ==
    \/ Record(a) \/ Stage(a) \/ Intend(a) \/ Claim(a) \/ Send(a) \/ Reply(a) \/ Reload(a)
    \/ Ack(a) \/ Unlink(a) \/ Clear(a)

Die ==
    /\ at["worker"] \notin {"dead", "done"}
    /\ Goto("worker", "dead")
    /\ carry' = [carry EXCEPT !["worker"] = Nothing]
    /\ UNCHANGED <<fleetVars, seen, due, file, marker, sent, told, acked, late, fresh,
                   registered, result, faults>>

-----------------------------------------------------------------------------
(* The controller's cycle *)

Begin ==
    /\ at["controller"] = "idle"
    /\ seen' = [job |-> fleet.jobs[Job], row |-> Pending(Row)]
    /\ Goto("controller", "look")
    /\ UNCHANGED <<fleetVars, carry, due, file, marker, sent, told, acked, late, fresh,
                   registered, result, faults>>

\* The worker's process is looked up after the snapshot was taken.
Look ==
    /\ at["controller"] = "look"
    /\ Goto("controller", IF seen.job # Nothing /\ ~Alive THEN "prove" ELSE AfterOrphans)
    /\ UNCHANGED <<fleetVars, carry, seen, due, file, marker, sent, told, acked, late, fresh,
                   registered, result, faults>>

\* Mutant: a job row that changed after the snapshot does not stop recovery.
ProofHoldsAnyway == seen.job.phase = "completing" => seen.row \/ seen.job.conclusion # Nothing

\* recover_one_orphaned_job's early return, and the owner-death proof, which
\* compares the whole job row with the snapshot
ProofHolds ==
    /\ seen.job.phase = "completing" => seen.row \/ seen.job.conclusion # Nothing
    /\ fleet.jobs[Job] = seen.job

\* Without the proof the job waits for the next cycle.
Disproved ==
    /\ at["controller"] = "prove"
    /\ ~ProofHolds
    /\ Goto("controller", AfterOrphans)
    /\ UNCHANGED <<fleetVars, carry, seen, due, file, marker, sent, told, acked, late, fresh,
                   registered, result, faults>>

\* recover_one_orphaned_job with a marker and an access token.
Recover ==
    /\ at["controller"] = "prove"
    /\ ProofHolds /\ marker /\ registered
    /\ \/ /\ seen.row
          /\ Goto("controller", "reload")
          /\ UNCHANGED carry
       \/ /\ ~seen.row /\ seen.job.conclusion # Nothing
          /\ \E v \in Versions :
                Carry("controller", Payload("recovered", seen.job.conclusion, v))
          /\ Goto("controller", "record")
       \/ /\ ~seen.row /\ seen.job.conclusion = Nothing
          /\ \E v \in Versions : Carry("controller", Payload("synthetic", Failure, v))
          /\ Goto("controller", "record")
    /\ UNCHANGED <<fleetVars, seen, due, file, marker, sent, told, acked, late, fresh,
                   registered, result, faults>>

\* Mutant: any token error releases the marker.
ReleaseOnAnyError ==
    /\ at["controller"] = "prove"
    /\ ProofHolds /\ marker
    /\ marker' = seen.row
    /\ Goto("controller", IF seen.row THEN "spent" ELSE "forget")
    /\ UNCHANGED <<fleetVars, carry, seen, due, file, sent, told, acked, late, fresh,
                   registered, result, faults>>

\* release_in_flight_after_registration_gone, where a token shows that the
\* runner is gone; a replay has no such way out.
Release ==
    /\ at["controller"] = "prove"
    /\ ProofHolds /\ marker /\ ~registered
    /\ marker' = seen.row
    /\ Goto("controller", IF seen.row THEN "spent" ELSE "forget")
    /\ UNCHANGED <<fleetVars, carry, seen, due, file, sent, told, acked, late, fresh,
                   registered, result, faults>>

\* The job has no marker: no one is told.
Unmarked ==
    /\ at["controller"] = "prove"
    /\ ProofHolds /\ ~marker
    /\ Goto("controller", IF seen.row THEN AfterOrphans ELSE "forget")
    /\ UNCHANGED <<fleetVars, carry, seen, due, file, marker, sent, told, acked, late, fresh,
                   registered, result, faults>>

\* recover_one_orphaned_job's last step; the event is void beside a pending row.
Forget ==
    /\ at["controller"] = "forget"
    /\ IF CanForget(fleet, Job, 1) THEN JobWorkerLost(Job, 1) ELSE UNCHANGED fleetVars
    /\ Goto("controller", AfterOrphans)
    /\ UNCHANGED <<carry, seen, due, file, marker, sent, told, acked, late, fresh,
                   registered, result, faults>>

\* defer_remote_recovery_on_timeout drops the call, and charges nothing; or no
\* token could be had.
Defer ==
    /\ \/ at["controller"] = "prove" /\ ProofHolds /\ marker
       \/ at["controller"] = "await"
    /\ Goto("controller", AfterOrphans)
    /\ UNCHANGED <<fleetVars, carry, seen, due, file, marker, sent, told, acked, late, fresh,
                   registered, result, faults>>

\* Mutant: the deadline does not spend the budget.
BudgetSpentByAttempts == Pending(Row) /\ CanAbandon(fleet, FALSE, Job, 1)

BudgetSpent == Pending(Row) /\ CanAbandon(fleet, late, Job, 1)

\* abandon_if_budget_spent, after a failed replay
Spent ==
    /\ at["controller"] = "spent"
    /\ IF BudgetSpent
         THEN CompletionUnresolvable(Job, 1, late) /\ Goto("controller", "drop")
         ELSE UNCHANGED fleetVars /\ Goto("controller", AfterOrphans)
    /\ UNCHANGED <<carry, seen, due, file, marker, sent, told, acked, late, fresh,
                   registered, result, faults>>

\* The payload of a settled row
Drop ==
    /\ at["controller"] = "drop"
    /\ file' = Nothing
    /\ Goto("controller", AfterOrphans)
    /\ UNCHANGED <<fleetVars, carry, seen, due, marker, sent, told, acked, late, fresh,
                   registered, result, faults>>

\* A marker whose job is not in the journal and whose worker is dead
Leftover == marker /\ ~Owned /\ ~Alive

\* The marker scan of reclaim_orphaned_jobs: clean up after an acknowledgement,
\* or after the runner is gone.
ScanClean ==
    /\ at["controller"] = "scan"
    /\ ~Leftover \/ acked \/ ~registered
    /\ marker' = (marker /\ ~Leftover)
    /\ file' = IF Leftover THEN Nothing ELSE file
    /\ Goto("controller", "sweep")
    /\ UNCHANGED <<fleetVars, carry, seen, due, sent, told, acked, late, fresh, registered,
                   result, faults>>

\* establish_durable_completion_ownership finds no row and withholds the
\* completion: the error goes up through reconcile_once and run, unless the
\* call times out before.
ScanFails ==
    /\ at["controller"] = "scan"
    /\ Leftover /\ ~acked /\ registered
    /\ at' \in {[at EXCEPT !["controller"] = s] : s \in {"down", "sweep"}}
    /\ UNCHANGED <<fleetVars, carry, seen, due, file, marker, sent, told, acked, late, fresh,
                   registered, result, faults>>

\* reconcile_orphaned_outboxes: the tables first
Sweep ==
    /\ at["controller"] = "sweep"
    /\ seen' = [job |-> fleet.jobs[Job], row |-> Pending(Row)]
    /\ Goto("controller", "sift")
    /\ UNCHANGED <<fleetVars, carry, due, file, marker, sent, told, acked, late, fresh,
                   registered, result, faults>>

\* Mutant: a file stays while its job has a row.
SiftByRow ==
    /\ at["controller"] = "sift"
    /\ file' = IF seen.row \/ seen.job # Nothing THEN file ELSE Nothing
    /\ due' = FALSE
    /\ Goto("controller", "rows")
    /\ UNCHANGED <<fleetVars, carry, seen, marker, sent, told, acked, late, fresh, registered,
                   result, faults>>

\* Then the files: without a row, only a live owner keeps one.
Sift ==
    /\ at["controller"] = "sift"
    /\ file' = IF seen.row \/ (seen.job # Nothing /\ Alive) THEN file ELSE Nothing
    /\ due' = FALSE
    /\ Goto("controller", "rows")
    /\ UNCHANGED <<fleetVars, carry, seen, marker, sent, told, acked, late, fresh, registered,
                   result, faults>>

\* pending_outbox, and abandon_if_budget_spent
Rows ==
    /\ at["controller"] = "rows"
    /\ IF BudgetSpent
         THEN CompletionUnresolvable(Job, 1, late) /\ Goto("controller", "drop") /\ UNCHANGED carry
         ELSE /\ UNCHANGED fleetVars
              /\ Goto("controller", IF Pending(Row) THEN "keep" ELSE "rest")
              /\ Carry("controller", IF Pending(Row) THEN Row.payload ELSE Nothing)
    /\ UNCHANGED <<seen, due, file, marker, sent, told, acked, late, fresh, registered,
                   result, faults>>

\* preserve_outbox: without its file the row is settled as lost, and an error
\* ends the controller where the row was settled meanwhile.
Keep ==
    /\ at["controller"] = "keep"
    /\ LET p == carry["controller"] IN
        \/ /\ file = p
           /\ Goto("controller", "rest")
           /\ UNCHANGED fleetVars
        \/ /\ file # p /\ CanLosePayload(fleet, Job, 1, p)
           /\ CompletionPayloadLost(Job, 1, p)
           /\ Goto("controller", "drop")
        \/ /\ file # p /\ ~CanLosePayload(fleet, Job, 1, p)
           /\ Goto("controller", "down")
           /\ UNCHANGED fleetVars
    /\ UNCHANGED <<carry, seen, due, file, marker, sent, told, acked, late, fresh,
                   registered, result, faults>>

Forgetful(step) ==
    /\ Goto("controller", step)
    /\ carry' = [carry EXCEPT !["controller"] = Nothing]
    /\ seen' = Unseen

\* The cycle is complete.
Rest ==
    /\ at["controller"] = "rest"
    /\ Forgetful("idle")
    /\ UNCHANGED <<fleetVars, due, file, marker, sent, told, acked, late, fresh, registered,
                   result, faults>>

\* A new controller process scans in its first cycle.
Restart ==
    /\ at["controller"] = "down"
    /\ Forgetful("idle")
    /\ due' = TRUE
    /\ UNCHANGED <<fleetVars, file, marker, sent, told, acked, late, fresh, registered,
                   result, faults>>

\* The controller crashes, or a read or a write of its own fails.
Crash ==
    /\ at["controller"] # "down"
    /\ Fault
    /\ Forgetful("down")
    /\ UNCHANGED <<fleetVars, due, file, marker, sent, told, acked, late, fresh, registered,
                   result>>

ControllerStep ==
    \/ Begin \/ Look \/ Disproved \/ Unmarked \/ Forget \/ Spent \/ Drop
    \/ ScanClean \/ ScanFails \/ Sweep \/ Sift \/ Rows \/ Keep \/ Rest \/ Restart

-----------------------------------------------------------------------------
(* Time, and GitHub *)

IntervalPasses ==
    /\ at["controller"] = "idle" /\ ~due
    /\ due' = TRUE
    /\ UNCHANGED <<fleetVars, at, carry, seen, file, marker, sent, told, acked, late, fresh,
                   registered, result, faults>>

DeadlinePasses ==
    /\ Pending(Row) /\ ~late
    /\ late' = TRUE
    /\ UNCHANGED <<fleetVars, at, carry, seen, due, file, marker, sent, told, acked, fresh,
                   registered, result, faults>>

RunnerDeleted ==
    /\ registered
    /\ registered' = FALSE
    /\ UNCHANGED <<fleetVars, at, carry, seen, due, file, marker, sent, told, acked, late,
                   fresh, result, faults>>

CompletionNext ==
    \/ Conclude \/ Die
    \/ \E a \in Actors :
        GuardedSend(a) \/ JournalError(a) \/ \E p \in BOOLEAN : NoReply(a, p)
    \/ ServiceAccepts
    \/ ControllerStep \/ Recover \/ Release \/ Defer \/ Crash
    \/ IntervalPasses \/ DeadlinePasses \/ RunnerDeleted

CompletionSpec == CompletionInit /\ [][CompletionNext]_completionVars

\* The controller is restarted and its loop goes on, time passes, and a call
\* that is made again and again is answered some day.  The worker may hang
\* anywhere, and no request need arrive.
FairCompletionSpec ==
    /\ CompletionSpec
    /\ WF_completionVars(ControllerStep) /\ WF_completionVars(GuardedSend("controller"))
    /\ WF_completionVars(\E p \in BOOLEAN : NoReply("controller", p))
    /\ SF_completionVars(Recover \/ Release)
    /\ SF_completionVars(IntervalPasses) /\ WF_completionVars(DeadlinePasses)

-----------------------------------------------------------------------------
(* Properties *)

\* The type invariant
CompletionTypeOK ==
    /\ FleetTypeOK
    /\ file \in Payloads \cup {Nothing} /\ told \in Payloads \cup {Nothing}
    /\ sent \subseteq Payloads
    /\ result \in Conclusions \cup {Nothing}
    /\ {due, marker, acked, late, fresh, registered} \subseteq BOOLEAN

\* A conclusion that the worker recorded is the only one that is ever sent,
\* whoever sends it and whatever the sender knew before: a green job stays green.
ResultStands == result # Nothing => \A p \in sent : CarriedBy(p) = result

\* The service gets one result: whatever is sent again after crashes, refusals,
\* timeouts and refreshed credentials is the payload that was sent first.
OneResult == Cardinality(sent) <= 1

\* The slot's marker outlives the journal's job, so that no new job starts on a
\* slot that still owes a completion; only a deleted runner lets go before.
MarkerOutlivesJob == Owned => marker \/ ~registered

\* A pending completion does not stay: it is acknowledged, or its budget or its
\* deadline ends it, even where a live worker hangs.
RowIsSettled == Pending(Row) ~> ~Pending(Row)

\* The job of a dead worker leaves the journal, wherever the worker died.
DeadJobLeaves == at["worker"] = "dead" ~> ~Owned

\* What the comment in reclaim_orphaned_jobs asks for, that one row must not
\* abort the fleet cycle: the controller completes cycles for ever.
CyclesFinish == []<>(at["controller"] = "rest")

=============================================================================
