---------------------------- MODULE MCNativeLane ----------------------------
(* Instances of the native lane for TLC. *)
EXTENDS NativeLane, TLC

CONSTANTS h1, h2, p1, p2, p3, s1, s2

\* Jobs, slots and processes are interchangeable; no property names one.
Symmetry == Permutations(Holders) \cup Permutations(Slots) \cup Permutations(Pids)

NativeLanes == [h \in Holders |-> {"native"}]
=============================================================================
