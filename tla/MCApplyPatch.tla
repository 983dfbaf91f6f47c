---------------------------- MODULE MCApplyPatch -----------------------------
(* Calls that patch the same files, for TLC.                               *)
EXTENDS ApplyPatch, TLC

CONSTANTS c1, c2, c3

(* A call and one with sudo update the same file; then one adds the second *)
(* file and the other deletes it.                                          *)
TwoCalls == c1 :> <<[path |-> "f", op |-> "update"], [path |-> "g", op |-> "add"]>>
         @@ c2 :> <<[path |-> "f", op |-> "update"], [path |-> "g", op |-> "delete"]>>

(* Three calls that update one file. *)
ThreeUpdates == [c \in Calls |-> <<[path |-> "f", op |-> "update"]>>]
=============================================================================
