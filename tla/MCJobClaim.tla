----------------------------- MODULE MCJobClaim -----------------------------
(***************************************************************************)
(* JobClaim for TLC.  Three inodes are enough for three claimants: while   *)
(* one of them is opening, the sweep has no descriptor open, so at most    *)
(* two inodes are in use by others.                                        *)
(***************************************************************************)
EXTENDS JobClaim
=============================================================================
