---------------------------- MODULE MCTransport ----------------------------
(* Instances of Transport for TLC. *)
EXTENDS Transport, TLC

(* The tasks other than the recovery loop are interchangeable. *)
OtherTasks == Permutations(Tasks \ {Recovery})

=============================================================================
