--------------------------- MODULE MCBackgroundJob --------------------------
(* Instances of BackgroundJob for TLC. *)
EXTENDS BackgroundJob, TLC

(* Checks of the same kind are interchangeable. *)
CheckerSymmetry == Permutations(Checkers \ Detached)

=============================================================================
