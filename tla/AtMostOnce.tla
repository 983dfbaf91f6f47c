----------------------------- MODULE AtMostOnce -----------------------------
(***************************************************************************)
(* What a caller of a remote operation may rely on, without slots,         *)
(* channels, stages, deadlines or shutdown: the operation has its effect   *)
(* at most once; the caller gets one verdict, which stays; "done" is said  *)
(* only of what has happened, "never" only of what has not happened and    *)
(* never will, and "unknown" leaves open whether it has or still will.     *)
(* RouterosExec (a command that runs), TransferJob (a destination that is  *)
(* replaced) and ApplyPatch (a section's target that is replaced)          *)
(* implement this specification.                                           *)
(***************************************************************************)
CONSTANT Calls

VARIABLES
    happened,   \* the calls whose effect has happened
    verdict     \* what the caller of each was told

vars == <<happened, verdict>>

Verdicts == {"done", "unknown", "never"}

Init ==
    /\ happened = {}
    /\ verdict = [c \in Calls |-> "none"]

(* The effect, maybe after the caller was told that nobody knows. *)
Happens(c) ==
    /\ c \notin happened
    /\ verdict[c] # "never"
    /\ happened' = happened \cup {c}
    /\ UNCHANGED verdict

(* The one answer to the caller. *)
Tells(c, v) ==
    /\ verdict[c] = "none"
    /\ v = "done" => c \in happened
    /\ v = "never" => c \notin happened
    /\ verdict' = [verdict EXCEPT ![c] = v]
    /\ UNCHANGED happened

Next == \E c \in Calls : Happens(c) \/ \E v \in Verdicts : Tells(c, v)

Spec == Init /\ [][Next]_vars

=============================================================================
