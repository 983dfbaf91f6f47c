------------------------------- MODULE Route -------------------------------
(***************************************************************************)
(* What SshConnectionManager promises about its shared SSH route, stated   *)
(* without connect attempts, probes, locks or cancellation: at any moment  *)
(* there is at most one current route; a route is only ever installed into *)
(* an empty slot; every installed route carries a generation number never  *)
(* used by an earlier route; and once the manager has been closed the slot *)
(* stays empty.  Transport implements this specification.                  *)
(***************************************************************************)
EXTENDS Naturals

VARIABLES
    current,    \* generation of the installed route, 0 when there is none
    highest,    \* generation of the latest route ever installed
    stopped     \* the manager has been closed

vars == <<current, highest, stopped>>

Init ==
    /\ current = 0
    /\ highest = 0
    /\ stopped = FALSE

(* A connect attempt publishes its authenticated route. *)
Establish ==
    /\ ~stopped
    /\ current = 0
    /\ current' \in Nat
    /\ current' > highest
    /\ highest' = current'
    /\ UNCHANGED stopped

(* Somebody retires the installed route. *)
Retire ==
    /\ current # 0
    /\ current' = 0
    /\ UNCHANGED <<highest, stopped>>

(* The manager is closed: the slot is emptied for good. *)
Stop ==
    /\ stopped' = TRUE
    /\ current' = 0
    /\ UNCHANGED highest

Next == Establish \/ Retire \/ Stop

Spec == Init /\ [][Next]_vars

=============================================================================
