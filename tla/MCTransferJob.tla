--------------------------- MODULE MCTransferJob ----------------------------
(* Instances of TransferJob for TLC: transfers that all write to one place. *)
EXTENDS TransferJob, TLC

(* Where the transfers of an instance write. *)
OneDestination == [t \in Transfers |-> "shared"]

(* The job the checks of an instance ask for. *)
OneJob == [c \in Checks |-> CHOOSE t \in Background : TRUE]

=============================================================================
