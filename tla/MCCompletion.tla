---------------------------- MODULE MCCompletion ----------------------------
(* One job that succeeds or fails, and payloads built at two moments. *)
EXTENDS Completion

MCPayloads == {"own", "recovered", "synthetic"} \X Conclusions \X Versions

=============================================================================
