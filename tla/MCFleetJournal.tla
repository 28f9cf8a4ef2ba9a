--------------------------- MODULE MCFleetJournal ---------------------------
(***************************************************************************)
(* Instance of FleetJournal for TLC.  Job ids and payloads are             *)
(* interchangeable: no event compares them other than for equality.        *)
(***************************************************************************)
EXTENDS FleetJournal, TLC

FleetSymmetry == Permutations(Slots) \cup Permutations(JobIds) \cup Permutations(Payloads)

=============================================================================
