--------------------------- MODULE MCPermitLedger ---------------------------
(* Instances of the permit ledger for TLC. *)
EXTENDS PermitLedger, TLC

CONSTANTS h1, h2, p1, p2

\* Processes are interchangeable; no property names one.
Symmetry == Permutations(Pids)

\* Two native jobs
NativeLanes == [h \in Holders |-> {"native"}]

\* A native job and a Scale Set job share the host.
OneOfEach == (h1 :> {"native"}) @@ (h2 :> {"scaleset"})
=============================================================================
