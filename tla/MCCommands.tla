----------------------------- MODULE MCCommands -----------------------------
(* Instances of Commands for TLC. *)
EXTENDS Commands, TLC

(* Commands are interchangeable. *)
CmdSymmetry == Permutations(Cmds)

=============================================================================
