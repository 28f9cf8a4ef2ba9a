----------------------------- MODULE PermitPool -----------------------------
(***************************************************************************)
(* What the permit ledger promises, without rows, tokens, epochs or ages.  *)
(* A job is unknown, then open, then closed, never back; a permit is given *)
(* only while fewer than the configured number are out, one at a time, and *)
(* never to a closed job.  PermitLedger implements this specification.     *)
(***************************************************************************)
EXTENDS Integers, FiniteSets

CONSTANTS
    Holders,     \* jobs
    Capacities,  \* values of max_jobs
    Null         \* no value configured yet

Phases == {"unknown", "open", "closed"}

VARIABLES
    capacity,  \* the configured max_jobs, or Null
    holding,   \* jobs that hold a permit
    phase      \* how far each job's demand has come

poolVars == <<capacity, holding, phase>>

\* Permits may have been given before the first demand was ever recorded.
PoolInit ==
    /\ capacity = Null
    /\ holding \in SUBSET Holders
    /\ phase = [h \in Holders |-> "unknown"]

Resize(n) ==
    /\ capacity' = n
    /\ UNCHANGED <<holding, phase>>

\* Demands become known, several at once when the ledger is reconciled.
Admit(S) ==
    /\ \A h \in S : phase[h] = "unknown"
    /\ phase' = [h \in Holders |-> IF h \in S THEN "open" ELSE phase[h]]
    /\ UNCHANGED <<capacity, holding>>

Give(h) ==
    /\ capacity # Null
    /\ Cardinality(holding) < capacity
    /\ h \notin holding
    /\ phase[h] # "closed"
    /\ holding' = holding \cup {h}
    /\ phase' = [phase EXCEPT ![h] = "open"]
    /\ UNCHANGED capacity

\* A closed job may keep its permit: work the host has not yet cleaned up.
Close(h) ==
    /\ phase' = [phase EXCEPT ![h] = "closed"]
    /\ UNCHANGED <<capacity, holding>>

\* A permit comes back from a job that may run again or from one that is over.
TakeBack(h) ==
    /\ h \in holding
    /\ holding' = holding \ {h}
    /\ phase' \in {phase, [phase EXCEPT ![h] = "closed"]}
    /\ UNCHANGED capacity

PoolNext ==
    \/ \E n \in Capacities : Resize(n)
    \/ \E S \in SUBSET Holders : Admit(S)
    \/ \E h \in Holders : Give(h) \/ Close(h) \/ TakeBack(h)

PoolSpec == PoolInit /\ [][PoolNext]_poolVars

=============================================================================
