--------------------------- MODULE CommandsProofs ---------------------------
(***************************************************************************)
(* The safety of Commands for any set of commands, any number of slots and *)
(* faults, with and without a su password.  What makes the properties      *)
(* inductive: the slots are the permits and the commands that have one;    *)
(* the place a command goes back to after a reconnection or an elevation   *)
(* tells whether its payload can have been sent; and who has a su shell,   *)
(* from which route.                                                       *)
(***************************************************************************)
EXTENDS Commands, FiniteSetTheorems, TLAPS

Holders == {c \in Cmds : pc[c] \in SlotPcs}

(* Permits and holders together are the slots. *)
SlotInv == IsFiniteSet(Holders) /\ permits + Cardinality(Holders) = Slots

(* The part of TypeOK about flags. *)
FlagsOK ==
    /\ dead \in BOOLEAN /\ shutting \in BOOLEAN /\ autoTried \in BOOLEAN
    /\ isElevated \in BOOLEAN /\ hasTimeout \in BOOLEAN
    /\ retried \in [Cmds -> BOOLEAN]
    /\ wrapped \in [Cmds -> BOOLEAN] /\ fallback \in [Cmds -> BOOLEAN]

SuPcs == {"su_take", "su_retake", "su_send", "su_collect", "su_restore", "su_elevate"}

ShellPcs == {"su_send", "su_collect", "su_restore"}

OpenPcs == {"open", "send", "collect", "pre_invalidate"}

(* Where a command goes on after a call agrees with where it is. *)
AfterInv(c) ==
    /\ pc[c] = "dispatch" => after[c] = "dispatch"
    /\ pc[c] = "wrapper" => after[c] # "dispatch"
    /\ pc[c] \in OpenPcs => after[c] = "open"
    /\ pc[c] \in SuPcs => after[c] = "su_elevate"
    /\ pc[c] = "auto_elevate" => expected[c] # 0
    /\ pc[c] \in {"elevate_open", "elevate_shell"} /\ expected[c] = 0 => after[c] = "su_elevate"
    /\ pc[c] = "elevate_shell" => gen[c] # 0

(* Up to the send nothing was delivered but, in the fallback run, the       *)
(* wrapped form, which is never chosen again.                               *)
DeliveryInv(c) ==
    /\ fallback[c] => after[c] = "open" /\ pc[c] # "wrapper" /\ ~wrapped[c]
    /\ delivered[c] <= (IF fallback[c] THEN 2 ELSE 1)
    /\ pc[c] \notin {"collect", "su_collect", "su_restore", "invalidate", "finish", "done",
                     "dropped"} =>
          delivered[c] <= (IF fallback[c] THEN 1 ELSE 0)

PlaceInv == \A c \in Cmds : AfterInv(c) /\ DeliveryInv(c)

(* The su state is of the installed route. *)
SuInv ==
    /\ SuStateOnRoute
    /\ isElevated <=> suGen # 0

(* A taken shell is with a command that uses it on the shell's route; no    *)
(* identity is given twice.                                                 *)
ShellInv ==
    /\ nextShell > 0
    /\ suSlot.id < nextShell
    /\ \A c \in Cmds : /\ shell[c] # NoShell => pc[c] \in ShellPcs /\ shell[c].gen = gen[c]
                       /\ shell[c].id < nextShell
    /\ ShellNotShared

IndInv == TypeOK /\ SlotInv /\ PlaceInv /\ SuInv /\ ShellInv /\ ElevatedHasShell

-----------------------------------------------------------------------------

(* The initial states: all slots are free, there is no route and no shell. *)
LEMMA InitHolds == Init => IndInv
<1> SUFFICES ASSUME Init PROVE IndInv
  OBVIOUS
<1>1. FlagsOK
  BY Zenon DEF Init, FlagsOK
<1>2. TypeOK
  BY <1>1, CommandsAssumption DEF Init, FlagsOK, TypeOK, Pcs, NoShell, Nobody
<1>3. SlotInv
  <2>1. Holders = {}
    BY DEF Init, Holders, SlotPcs
  <2> QED BY <2>1, FS_EmptySet, CommandsAssumption DEF SlotInv, Init
<1>4. PlaceInv
  BY DEF Init, PlaceInv, AfterInv, DeliveryInv, OpenPcs, SuPcs
<1>5. SuInv /\ ElevatedHasShell
  BY DEF Init, SuInv, SuStateOnRoute, ElevatedHasShell, Live
<1>6. ShellInv
  BY DEF Init, ShellInv, ShellNotShared, NoShell
<1> QED BY <1>2, <1>3, <1>4, <1>5, <1>6 DEF IndInv

(* What the missing shell is. *)
LEMMA NoShellType == NoShell \in [gen : Nat, id : Nat] /\ NoShell.id = 0
BY DEF NoShell

(* A step from one place with a slot to another. *)
LEMMA SlotKept ==
    ASSUME IndInv, NEW c \in Cmds, NEW p \in SlotPcs,
           pc' = [pc EXCEPT ![c] = p], pc[c] \in SlotPcs, permits' = permits
    PROVE  SlotInv' /\ permits' \in 0..Slots
<1>1. Holders' = Holders
  BY DEF Holders, IndInv, TypeOK
<1> QED BY <1>1 DEF SlotInv, IndInv, TypeOK

(* Taking a permit. *)
LEMMA SlotTaken ==
    ASSUME IndInv, NEW c \in Cmds, NEW p \in SlotPcs,
           pc' = [pc EXCEPT ![c] = p], pc[c] \notin SlotPcs,
           permits > 0, permits' = permits - 1
    PROVE  SlotInv' /\ permits' \in 0..Slots
<1>1. Holders' = Holders \cup {c} /\ c \notin Holders
  BY DEF Holders, IndInv, TypeOK
<1>2. IsFiniteSet(Holders') /\ Cardinality(Holders') = Cardinality(Holders) + 1
  BY <1>1, FS_AddElement DEF IndInv, SlotInv
<1>3. Cardinality(Holders) \in Nat
  BY FS_CardinalityType DEF IndInv, SlotInv
<1> QED BY <1>2, <1>3, CommandsAssumption DEF SlotInv, IndInv, TypeOK

(* Giving it back: there was a holder, so the permits stay below the slots. *)
LEMMA SlotFreed ==
    ASSUME IndInv, NEW c \in Cmds, NEW p \in Pcs \ SlotPcs, pc[c] \in SlotPcs,
           pc' = [pc EXCEPT ![c] = p], permits' = permits + 1
    PROVE  SlotInv' /\ permits' \in 0..Slots
<1>1. Holders' = Holders \ {c} /\ c \in Holders
  BY DEF Holders, IndInv, TypeOK
<1>2. IsFiniteSet(Holders') /\ Cardinality(Holders') = Cardinality(Holders) - 1
  BY <1>1, FS_RemoveElement DEF IndInv, SlotInv
<1>3. Cardinality(Holders) \in Nat /\ Cardinality(Holders') \in Nat
  BY <1>2, FS_CardinalityType DEF IndInv, SlotInv
<1> QED BY <1>2, <1>3, CommandsAssumption DEF SlotInv, IndInv, TypeOK

(* A step of the route around the commands. *)
LEMMA SlotStays ==
    ASSUME IndInv, UNCHANGED <<pc, permits>>
    PROVE  SlotInv' /\ permits' \in 0..Slots
BY DEF IndInv, SlotInv, Holders, TypeOK

-----------------------------------------------------------------------------
(* One lemma per action: slots, types, places and shells. *)

(* A command takes a slot. *)
LEMMA AcquireSlotHolds ==
    ASSUME IndInv, NEW c \in Cmds, AcquireSlot(c)
    PROVE  IndInv'
<1> USE DEF IndInv
<1>1. SlotInv' /\ permits' \in 0..Slots
  BY SlotTaken DEF AcquireSlot, Goto, routeVars, suVars, localVars, TypeOK, Pcs,
      SlotPcs
<1>2. FlagsOK'
  BY Zenon DEF AcquireSlot, Goto, routeVars, suVars, localVars, FlagsOK, TypeOK
<1>3. TypeOK'
  BY <1>1, <1>2, NoShellType DEF AcquireSlot, Goto, routeVars,
      suVars, localVars, FlagsOK, TypeOK, Pcs
<1>4. PlaceInv'
  BY DEF AcquireSlot, Goto, routeVars, suVars, localVars, TypeOK, PlaceInv, AfterInv,
      DeliveryInv, OpenPcs, SuPcs
<1>5. SuInv'
  BY DEF AcquireSlot, Goto, routeVars, suVars, localVars, TypeOK, SuInv,
      SuStateOnRoute, ShellInv, PlaceInv, AfterInv
<1>6. ShellInv'
  BY NoShellType DEF AcquireSlot, Goto, routeVars, suVars, localVars, TypeOK, SuInv,
      SuStateOnRoute, ShellInv, ShellNotShared, ShellPcs
<1>7. ElevatedHasShell'
  BY DEF AcquireSlot, Goto, routeVars, suVars, localVars, Live, TypeOK, SuInv,
      SuStateOnRoute, ShellInv, ShellPcs, ElevatedHasShell
<1> QED BY <1>1, <1>3, <1>4, <1>5, <1>6, <1>7

(* On a route the command goes on where it was sent from. *)
LEMMA EnsureConnectedHolds ==
    ASSUME IndInv, NEW c \in Cmds, EnsureConnected(c)
    PROVE  IndInv'
<1> USE DEF IndInv
<1>1. SlotInv' /\ permits' \in 0..Slots
  BY SlotKept DEF EnsureConnected, Live, Goto, Fault, routeVars, suVars, localVars,
      TypeOK, Pcs, SlotPcs
<1>2. FlagsOK'
  BY Zenon DEF EnsureConnected, Live, Goto, Fault, routeVars, suVars, localVars,
      FlagsOK, TypeOK
<1>3. TypeOK'
  BY <1>1, <1>2, NoShellType DEF EnsureConnected, Live, Goto,
      Fault, routeVars, suVars, localVars, FlagsOK, TypeOK, Pcs
<1>4. PlaceInv'
  BY DEF EnsureConnected, Live, Goto, Fault, routeVars, suVars, localVars, TypeOK,
      PlaceInv, AfterInv, DeliveryInv, OpenPcs, SuPcs
<1>5. SuInv'
  BY DEF EnsureConnected, Live, Goto, Fault, routeVars, suVars, localVars, TypeOK,
      SuInv, SuStateOnRoute, ShellInv, PlaceInv, AfterInv
<1>6. ShellInv'
  BY NoShellType DEF EnsureConnected, Live, Goto, Fault, routeVars, suVars, localVars,
      TypeOK, SuInv, SuStateOnRoute, ShellInv, ShellNotShared, ShellPcs
<1>7. ElevatedHasShell'
  BY DEF EnsureConnected, Live, Goto, Fault, routeVars, suVars, localVars, TypeOK,
      SuInv, SuStateOnRoute, ShellInv, ShellPcs, ElevatedHasShell
<1> QED BY <1>1, <1>3, <1>4, <1>5, <1>6, <1>7

(* The automatic attempt names its generation. *)
LEMMA AutoElevateHolds ==
    ASSUME IndInv, NEW c \in Cmds, AutoElevate(c)
    PROVE  IndInv'
<1> USE DEF IndInv
<1>1. SlotInv' /\ permits' \in 0..Slots
  BY SlotKept DEF AutoElevate, Goto, Set, suVars, TypeOK, Pcs, SlotPcs
<1>2. FlagsOK'
  BY Zenon DEF AutoElevate, Goto, Set, suVars, FlagsOK, TypeOK
<1>3. TypeOK'
  <2>1. pc' \in [Cmds -> Pcs]
    <3>1. PICK p \in Pcs : pc' = [pc EXCEPT ![c] = p]
      BY DEF AutoElevate, Goto, Set, TypeOK, Pcs
    <3> QED BY <3>1 DEF TypeOK
  <2>2. expected' \in [Cmds -> Nat] /\ gen' \in [Cmds -> Nat]
    BY DEF AutoElevate, Goto, Set, TypeOK
  <2>3. suSlot' \in [gen : Nat, id : Nat] /\ shell' \in [Cmds -> [gen : Nat, id : Nat]]
    BY NoShellType DEF AutoElevate, Goto, Set, suVars, TypeOK
  <2>4. delivered' \in [Cmds -> Nat] /\ faults' \in Nat /\ elevating' \in SUBSET Cmds
    BY DEF AutoElevate, Goto, Set, suVars, TypeOK
  <2> QED
    BY <1>1, <1>2, <2>1, <2>2, <2>3, <2>4 DEF AutoElevate, Goto, Set, suVars, FlagsOK,
        TypeOK
<1>4. PlaceInv'
  BY DEF AutoElevate, Goto, Set, suVars, TypeOK, PlaceInv, AfterInv, DeliveryInv,
      OpenPcs, SuPcs
<1>5. SuInv'
  BY DEF AutoElevate, Goto, Set, suVars, TypeOK, SuInv, SuStateOnRoute, ShellInv,
      PlaceInv, AfterInv
<1>6. ShellInv'
  BY NoShellType DEF AutoElevate, Goto, Set, suVars, TypeOK, SuInv, SuStateOnRoute,
      ShellInv, ShellNotShared, ShellPcs
<1>7. ElevatedHasShell'
  BY DEF AutoElevate, Goto, Set, suVars, Live, TypeOK, SuInv, SuStateOnRoute,
      ShellInv, ShellPcs, ElevatedHasShell
<1> QED BY <1>1, <1>3, <1>4, <1>5, <1>6, <1>7

(* The elevation lock, or nothing to do. *)
LEMMA ElevationBeginsHolds ==
    ASSUME IndInv, NEW c \in Cmds, ElevationBegins(c)
    PROVE  IndInv'
<1> USE DEF IndInv
<1>1. SlotInv' /\ permits' \in 0..Slots
  BY SlotKept DEF ElevationBegins, ElevationReturns, Goto, routeVars, suVars,
      ReturnFromElevation, Set, TypeOK, Pcs, SlotPcs
<1>2. FlagsOK'
  BY Zenon DEF ElevationBegins, ElevationReturns, Goto, routeVars, suVars,
      ReturnFromElevation, Set, FlagsOK, TypeOK
<1>3. TypeOK'
  <2>1. pc' \in [Cmds -> Pcs]
    BY DEF ElevationBegins, ElevationReturns, Goto, ReturnFromElevation, Set, TypeOK,
        Pcs
  <2>2. expected' \in [Cmds -> Nat] /\ gen' \in [Cmds -> Nat]
    BY DEF ElevationBegins, ElevationReturns, Goto, ReturnFromElevation, Set, TypeOK
  <2>3. suSlot' \in [gen : Nat, id : Nat] /\ shell' \in [Cmds -> [gen : Nat, id : Nat]]
    BY NoShellType DEF ElevationBegins, ElevationReturns, Goto, routeVars, suVars,
        ReturnFromElevation, Set, TypeOK
  <2>4. delivered' \in [Cmds -> Nat] /\ faults' \in Nat /\ elevating' \in SUBSET Cmds
    BY DEF ElevationBegins, ElevationReturns, Goto, routeVars, suVars,
        ReturnFromElevation, Set, TypeOK
  <2> QED
    BY <1>1, <1>2, <2>1, <2>2, <2>3, <2>4 DEF ElevationBegins, ElevationReturns, Goto,
        routeVars, suVars, ReturnFromElevation, Set, FlagsOK, TypeOK
<1>4. PlaceInv'
  BY DEF ElevationBegins, ElevationReturns, Goto, routeVars, suVars,
      ReturnFromElevation, Set, TypeOK, PlaceInv, AfterInv, DeliveryInv, OpenPcs,
      SuPcs
<1>5. SuInv'
  BY DEF ElevationBegins, ElevationReturns, Goto, routeVars, suVars,
      ReturnFromElevation, Set, TypeOK, SuInv, SuStateOnRoute, ShellInv, PlaceInv,
      AfterInv
<1>6. ShellInv'
  BY NoShellType DEF ElevationBegins, ElevationReturns, Goto, routeVars, suVars,
      ReturnFromElevation, Set, TypeOK, SuInv, SuStateOnRoute, ShellInv,
      ShellNotShared, ShellPcs
<1>7. ElevatedHasShell'
  BY DEF ElevationBegins, ElevationReturns, Goto, routeVars, suVars,
      ReturnFromElevation, Set, Live, TypeOK, SuInv, SuStateOnRoute, ShellInv,
      ShellPcs, ElevatedHasShell
<1> QED BY <1>1, <1>3, <1>4, <1>5, <1>6, <1>7

(* The PTY channel is opened on the live route. *)
LEMMA ElevationOpensHolds ==
    ASSUME IndInv, NEW c \in Cmds, ElevationOpens(c)
    PROVE  IndInv'
<1> USE DEF IndInv
<1>1. SlotInv' /\ permits' \in 0..Slots
  BY SlotKept DEF ElevationOpens, Live, Goto, Set, Fault, ElevationReturns, routeVars,
      suVars, ReturnFromElevation, TypeOK, Pcs, SlotPcs
<1>2. FlagsOK'
  BY Zenon DEF ElevationOpens, Live, Goto, Set, Fault, ElevationReturns, routeVars,
      suVars, ReturnFromElevation, FlagsOK, TypeOK
<1>3. TypeOK'
  <2>1. pc' \in [Cmds -> Pcs]
    BY DEF ElevationOpens, Goto, Set, ElevationReturns, ReturnFromElevation, TypeOK,
        Pcs
  <2>2. expected' \in [Cmds -> Nat] /\ gen' \in [Cmds -> Nat]
    BY DEF ElevationOpens, Goto, Set, ElevationReturns, ReturnFromElevation, TypeOK
  <2>3. suSlot' \in [gen : Nat, id : Nat] /\ shell' \in [Cmds -> [gen : Nat, id : Nat]]
    BY NoShellType DEF ElevationOpens, Live, Goto, Set, Fault, ElevationReturns,
        routeVars, suVars, ReturnFromElevation, TypeOK
  <2>4. delivered' \in [Cmds -> Nat] /\ faults' \in Nat /\ elevating' \in SUBSET Cmds
    BY DEF ElevationOpens, Live, Goto, Set, Fault, ElevationReturns, routeVars,
        suVars, ReturnFromElevation, TypeOK
  <2> QED
    BY <1>1, <1>2, <2>1, <2>2, <2>3, <2>4 DEF ElevationOpens, Live, Goto, Set, Fault,
        ElevationReturns, routeVars, suVars, ReturnFromElevation, FlagsOK, TypeOK
<1>4. PlaceInv'
  BY DEF ElevationOpens, Live, Goto, Set, Fault, ElevationReturns, routeVars, suVars,
      ReturnFromElevation, TypeOK, PlaceInv, AfterInv, DeliveryInv, OpenPcs, SuPcs
<1>5. SuInv'
  BY DEF ElevationOpens, Live, Goto, Set, Fault, ElevationReturns, routeVars, suVars,
      ReturnFromElevation, TypeOK, SuInv, SuStateOnRoute, ShellInv, PlaceInv, AfterInv
<1>6. ShellInv'
  BY NoShellType DEF ElevationOpens, Live, Goto, Set, Fault, ElevationReturns,
      routeVars, suVars, ReturnFromElevation, TypeOK, SuInv, SuStateOnRoute, ShellInv,
      ShellNotShared, ShellPcs
<1>7. ElevatedHasShell'
  BY DEF ElevationOpens, Live, Goto, Set, Fault, ElevationReturns, routeVars, suVars,
      ReturnFromElevation, TypeOK, SuInv, SuStateOnRoute, ShellInv, ShellPcs,
      ElevatedHasShell
<1> QED BY <1>1, <1>3, <1>4, <1>5, <1>6, <1>7

(* A new shell is stored only for the installed route. *)
LEMMA ElevationSucceedsHolds ==
    ASSUME IndInv, NEW c \in Cmds, ElevationSucceeds(c)
    PROVE  IndInv'
<1> USE DEF IndInv
<1>1. SlotInv' /\ permits' \in 0..Slots
  BY SlotKept DEF ElevationSucceeds, StoreShellIf, ElevationReturns, suVars, Set,
      routeVars, ReturnFromElevation, Goto, TypeOK, Pcs, SlotPcs
<1>2. FlagsOK'
  BY Zenon DEF ElevationSucceeds, StoreShellIf, ElevationReturns, suVars, Set,
      routeVars, ReturnFromElevation, Goto, FlagsOK, TypeOK
<1>3. TypeOK'
  BY <1>1, <1>2, NoShellType DEF ElevationSucceeds, StoreShellIf,
      ElevationReturns, suVars, Set, routeVars, ReturnFromElevation, Goto, FlagsOK,
      TypeOK, Pcs
<1>4. PlaceInv'
  BY DEF ElevationSucceeds, StoreShellIf, ElevationReturns, suVars, Set, routeVars,
      ReturnFromElevation, Goto, TypeOK, PlaceInv, AfterInv, DeliveryInv, OpenPcs,
      SuPcs
<1>5. SuInv'
  BY DEF ElevationSucceeds, StoreShellIf, ElevationReturns, suVars, Set, routeVars,
      ReturnFromElevation, Goto, TypeOK, SuInv, SuStateOnRoute, ShellInv, PlaceInv,
      AfterInv
<1>6. ShellInv'
  BY NoShellType DEF ElevationSucceeds, StoreShellIf, ElevationReturns, suVars, Set,
      routeVars, ReturnFromElevation, Goto, TypeOK, SuInv, SuStateOnRoute, ShellInv,
      ShellNotShared, ShellPcs
<1>7. ElevatedHasShell'
  <2>1. CASE ~shutting /\ current = gen[c]
    <3>1. suSlot'.id = nextShell
      BY <2>1 DEF ElevationSucceeds, StoreShellIf
    <3>2. suSlot' # NoShell
      BY <3>1, NoShellType DEF ShellInv, TypeOK
    <3> QED BY <3>2 DEF ElevatedHasShell
  <2>2. CASE ~(~shutting /\ current = gen[c])
    <3>1. UNCHANGED <<suVars, routeVars, shell>> /\ gen' = [gen EXCEPT ![c] = 0]
      BY <2>2 DEF ElevationSucceeds, StoreShellIf, Set
    <3>2. ~shutting => gen[c] # current
      BY <2>2
    <3>3. \A q \in Cmds \ {c} : gen'[q] = gen[q] /\ pc'[q] = pc[q]
      BY <3>1 DEF ElevationSucceeds, StoreShellIf, ElevationReturns, ReturnFromElevation, Goto,
                  TypeOK
    <3> QED BY <3>1, <3>2, <3>3 DEF ElevatedHasShell, Live, suVars, routeVars
  <2> QED BY <2>1, <2>2
<1> QED BY <1>1, <1>3, <1>4, <1>5, <1>6, <1>7

(* A failed elevation clears the su state or leaves it. *)
LEMMA ElevationFailsHolds ==
    ASSUME IndInv, NEW c \in Cmds, ElevationFails(c)
    PROVE  IndInv'
<1> USE DEF IndInv
<1>1. SlotInv' /\ permits' \in 0..Slots
  BY SlotKept DEF ElevationFails, ElevationReturns, ClearSu, suVars, Set, routeVars,
      ReturnFromElevation, Goto, TypeOK, Pcs, SlotPcs
<1>2. FlagsOK'
  BY Zenon DEF ElevationFails, ElevationReturns, ClearSu, suVars, Set, routeVars,
      ReturnFromElevation, Goto, FlagsOK, TypeOK
<1>3. TypeOK'
  BY <1>1, <1>2, NoShellType DEF ElevationFails, ElevationReturns,
      ClearSu, suVars, Set, routeVars, ReturnFromElevation, Goto, FlagsOK, TypeOK, Pcs
<1>4. PlaceInv'
  BY DEF ElevationFails, ElevationReturns, ClearSu, suVars, Set, routeVars,
      ReturnFromElevation, Goto, TypeOK, PlaceInv, AfterInv, DeliveryInv, OpenPcs,
      SuPcs
<1>5. SuInv'
  BY DEF ElevationFails, ElevationReturns, ClearSu, suVars, Set, routeVars,
      ReturnFromElevation, Goto, TypeOK, SuInv, SuStateOnRoute, ShellInv, PlaceInv,
      AfterInv
<1>6. ShellInv'
  BY NoShellType DEF ElevationFails, ElevationReturns, ClearSu, suVars, Set,
      routeVars, ReturnFromElevation, Goto, TypeOK, SuInv, SuStateOnRoute, ShellInv,
      ShellNotShared, ShellPcs
<1>7. ElevatedHasShell'
  BY DEF ElevationFails, ElevationReturns, ClearSu, suVars, Set, routeVars,
      ReturnFromElevation, Goto, Live, TypeOK, SuInv, SuStateOnRoute, ShellInv,
      ShellPcs, ElevatedHasShell
<1> QED BY <1>1, <1>3, <1>4, <1>5, <1>6, <1>7

(* The choice between su shell and plain channel. *)
LEMMA DispatchHolds ==
    ASSUME IndInv, NEW c \in Cmds, Dispatch(c)
    PROVE  IndInv'
<1> USE DEF IndInv
<1>1. SlotInv' /\ permits' \in 0..Slots
  BY SlotKept DEF Dispatch, Goto, Set, SuShellUsable, routeVars, suVars,
      LiveGeneration, Live, TypeOK, Pcs, SlotPcs
<1>2. FlagsOK'
  BY Zenon DEF Dispatch, Goto, Set, SuShellUsable, routeVars, suVars, LiveGeneration,
      Live, FlagsOK, TypeOK
<1>3. TypeOK'
  BY <1>1, <1>2, NoShellType DEF Dispatch, Goto, Set,
      SuShellUsable, routeVars, suVars, LiveGeneration, Live, FlagsOK, TypeOK, Pcs
<1>4. PlaceInv'
  BY DEF Dispatch, Goto, Set, SuShellUsable, routeVars, suVars, LiveGeneration, Live,
      TypeOK, PlaceInv, AfterInv, DeliveryInv, OpenPcs, SuPcs
<1>5. SuInv'
  BY DEF Dispatch, Goto, Set, SuShellUsable, routeVars, suVars, LiveGeneration, Live,
      TypeOK, SuInv, SuStateOnRoute, ShellInv, PlaceInv, AfterInv
<1>6. ShellInv'
  BY NoShellType DEF Dispatch, Goto, Set, SuShellUsable, routeVars, suVars,
      LiveGeneration, Live, TypeOK, SuInv, SuStateOnRoute, ShellInv, ShellNotShared,
      ShellPcs
<1>7. ElevatedHasShell'
  BY DEF Dispatch, Goto, Set, SuShellUsable, routeVars, suVars, LiveGeneration, Live,
      TypeOK, SuInv, SuStateOnRoute, ShellInv, ShellPcs, ElevatedHasShell
<1> QED BY <1>1, <1>3, <1>4, <1>5, <1>6, <1>7

(* The wrapper is chosen before anything was delivered. *)
LEMMA CheckWrapperHolds ==
    ASSUME IndInv, NEW c \in Cmds, CheckWrapper(c)
    PROVE  IndInv'
<1> USE DEF IndInv
<1>1. SlotInv' /\ permits' \in 0..Slots
  BY SlotKept DEF CheckWrapper, Set, Live, Goto, routeVars, suVars, TypeOK, Pcs,
      SlotPcs
<1>2. FlagsOK'
  BY Zenon DEF CheckWrapper, Set, Live, Goto, routeVars, suVars, FlagsOK, TypeOK
<1>3. TypeOK'
  BY <1>1, <1>2, NoShellType DEF CheckWrapper, Set, Live, Goto,
      routeVars, suVars, FlagsOK, TypeOK, Pcs
<1>4. PlaceInv'
  <2> USE DEF TypeOK, PlaceInv
  <2>1. ASSUME NEW q \in Cmds PROVE AfterInv(q)'
    BY DEF CheckWrapper, Set, Live, Goto, routeVars, suVars, AfterInv, OpenPcs, SuPcs
  <2>2. \A q \in Cmds \ {c} : wrapped'[q] = wrapped[q]
    BY DEF CheckWrapper, Set
  <2>3. ASSUME NEW q \in Cmds PROVE DeliveryInv(q)'
    <3>1. CASE q = c
      BY <3>1 DEF CheckWrapper, Set, Live, Goto, routeVars, suVars, DeliveryInv
    <3>2. CASE q # c
      BY <2>2, <3>2 DEF CheckWrapper, Set, Live, Goto, routeVars, suVars, DeliveryInv
    <3> QED BY <3>1, <3>2
  <2> QED BY <2>1, <2>3
<1>5. SuInv'
  BY DEF CheckWrapper, Set, Live, Goto, routeVars, suVars, TypeOK, SuInv,
      SuStateOnRoute, ShellInv, PlaceInv, AfterInv
<1>6. ShellInv'
  BY NoShellType DEF CheckWrapper, Set, Live, Goto, routeVars, suVars, TypeOK, SuInv,
      SuStateOnRoute, ShellInv, ShellNotShared, ShellPcs
<1>7. ElevatedHasShell'
  BY DEF CheckWrapper, Set, Live, Goto, routeVars, suVars, TypeOK, SuInv,
      SuStateOnRoute, ShellInv, ShellPcs, ElevatedHasShell
<1> QED BY <1>1, <1>3, <1>4, <1>5, <1>6, <1>7

(* The shell moves from its slot to one command. *)
LEMMA TakeShellHolds ==
    ASSUME IndInv, NEW c \in Cmds, TakeShell(c)
    PROVE  IndInv'
<1> USE DEF IndInv
<1>1. SlotInv' /\ permits' \in 0..Slots
  BY SlotKept DEF TakeShell, TakeShellLeaving, SuShellUsable, Set, Goto, routeVars,
      LiveGeneration, Live, TypeOK, Pcs, SlotPcs
<1>2. FlagsOK'
  BY Zenon DEF TakeShell, TakeShellLeaving, SuShellUsable, Set, Goto, routeVars,
      LiveGeneration, Live, FlagsOK, TypeOK
<1>3. TypeOK'
  <2>1. pc' \in [Cmds -> Pcs]
    <3>1. PICK p \in Pcs : pc' = [pc EXCEPT ![c] = p]
      BY DEF TakeShell, TakeShellLeaving, Set, Goto, TypeOK, Pcs
    <3> QED BY <3>1 DEF TypeOK
  <2>2. expected' \in [Cmds -> Nat] /\ gen' \in [Cmds -> Nat]
    BY DEF TakeShell, TakeShellLeaving, Set, Goto, TypeOK
  <2>3. suSlot' \in [gen : Nat, id : Nat] /\ shell' \in [Cmds -> [gen : Nat, id : Nat]]
    BY NoShellType DEF TakeShell, TakeShellLeaving, SuShellUsable, Set, Goto,
        routeVars, LiveGeneration, Live, TypeOK
  <2>4. delivered' \in [Cmds -> Nat] /\ faults' \in Nat /\ elevating' \in SUBSET Cmds
    BY DEF TakeShell, TakeShellLeaving, SuShellUsable, Set, Goto, routeVars,
        LiveGeneration, Live, TypeOK
  <2> QED
    BY <1>1, <1>2, <2>1, <2>2, <2>3, <2>4 DEF TakeShell, TakeShellLeaving,
        SuShellUsable, Set, Goto, routeVars, LiveGeneration, Live, FlagsOK, TypeOK
<1>4. PlaceInv'
  BY DEF TakeShell, TakeShellLeaving, SuShellUsable, Set, Goto, routeVars,
      LiveGeneration, Live, TypeOK, PlaceInv, AfterInv, DeliveryInv, OpenPcs, SuPcs
<1>5. SuInv'
  BY DEF TakeShell, TakeShellLeaving, SuShellUsable, Set, Goto, routeVars,
      LiveGeneration, Live, TypeOK, SuInv, SuStateOnRoute, ShellInv, PlaceInv,
      AfterInv
<1>6. ShellInv'
  <2> USE NoShellType DEF TypeOK, ShellInv
  <2>1. nextShell' = nextShell /\ suSlot'.id < nextShell
    BY DEF TakeShell, TakeShellLeaving, SuShellUsable, Set, Goto, routeVars,
        LiveGeneration, Live
  <2>2. \A q \in Cmds : shell'[q] # NoShell => pc'[q] \in ShellPcs /\ shell'[q].gen = gen'[q]
    BY DEF TakeShell, TakeShellLeaving, SuShellUsable, Set, Goto, routeVars,
        LiveGeneration, Live, ShellPcs, SuInv, SuStateOnRoute
  <2>3. \A q \in Cmds : shell'[q].id < nextShell
    BY DEF TakeShell, TakeShellLeaving, SuShellUsable, Set, Goto, routeVars,
        LiveGeneration, Live
  <2>4. ShellNotShared'
    BY DEF TakeShell, TakeShellLeaving, SuShellUsable, Set, Goto, routeVars,
        LiveGeneration, Live, ShellNotShared
  <2> QED BY <2>1, <2>2, <2>3, <2>4
<1>7. ElevatedHasShell'
  BY DEF TakeShell, TakeShellLeaving, SuShellUsable, Set, Goto, routeVars,
      LiveGeneration, Live, TypeOK, SuInv, SuStateOnRoute, ShellInv, ShellPcs,
      ElevatedHasShell
<1> QED BY <1>1, <1>3, <1>4, <1>5, <1>6, <1>7

(* The payload goes to the shell once. *)
LEMMA SuSendHolds ==
    ASSUME IndInv, NEW c \in Cmds, SuSend(c)
    PROVE  IndInv'
<1> USE DEF IndInv
<1>1. SlotInv' /\ permits' \in 0..Slots
  BY SlotKept DEF SuSend, Goto, FailureOn, Set, routeVars, suVars, LiveGeneration,
      Fault, Live, TypeOK, Pcs, SlotPcs
<1>2. FlagsOK'
  BY Zenon DEF SuSend, Goto, FailureOn, Set, routeVars, suVars, LiveGeneration, Fault,
      Live, FlagsOK, TypeOK
<1>3. TypeOK'
  <2>1. pc' \in [Cmds -> Pcs]
    BY DEF SuSend, Goto, Set, TypeOK, Pcs
  <2>2. expected' \in [Cmds -> Nat] /\ gen' \in [Cmds -> Nat]
    BY DEF SuSend, Goto, Set, TypeOK
  <2>3. suSlot' \in [gen : Nat, id : Nat] /\ shell' \in [Cmds -> [gen : Nat, id : Nat]]
    BY NoShellType DEF SuSend, Goto, FailureOn, Set, routeVars, suVars,
        LiveGeneration, Fault, Live, TypeOK
  <2>4. delivered' \in [Cmds -> Nat] /\ faults' \in Nat /\ elevating' \in SUBSET Cmds
    BY DEF SuSend, Goto, FailureOn, Set, routeVars, suVars, LiveGeneration, Fault,
        Live, TypeOK
  <2> QED
    BY <1>1, <1>2, <2>1, <2>2, <2>3, <2>4 DEF SuSend, Goto, FailureOn, Set, routeVars,
        suVars, LiveGeneration, Fault, Live, FlagsOK, TypeOK
<1>4. PlaceInv'
  BY DEF SuSend, Goto, FailureOn, Set, routeVars, suVars, LiveGeneration, Fault, Live,
      TypeOK, PlaceInv, AfterInv, DeliveryInv, OpenPcs, SuPcs
<1>5. SuInv'
  BY DEF SuSend, Goto, FailureOn, Set, routeVars, suVars, LiveGeneration, Fault, Live,
      TypeOK, SuInv, SuStateOnRoute, ShellInv, PlaceInv, AfterInv
<1>6. ShellInv'
  <2> USE NoShellType DEF TypeOK, ShellInv
  <2>1. nextShell' = nextShell /\ suSlot'.id < nextShell
    BY DEF SuSend, Goto, FailureOn, Set, routeVars, suVars, LiveGeneration, Fault,
        Live
  <2>2. \A q \in Cmds : shell'[q] # NoShell => pc'[q] \in ShellPcs /\ shell'[q].gen = gen'[q]
    BY DEF SuSend, Goto, FailureOn, Set, routeVars, suVars, LiveGeneration, Fault,
        Live, ShellPcs, SuInv, SuStateOnRoute
  <2>3. \A q \in Cmds : shell'[q].id < nextShell
    BY DEF SuSend, Goto, FailureOn, Set, routeVars, suVars, LiveGeneration, Fault,
        Live
  <2>4. ShellNotShared'
    BY DEF SuSend, Goto, FailureOn, Set, routeVars, suVars, LiveGeneration, Fault,
        Live, ShellNotShared
  <2> QED BY <2>1, <2>2, <2>3, <2>4
<1>7. ElevatedHasShell'
  BY DEF SuSend, Goto, FailureOn, Set, routeVars, suVars, LiveGeneration, Fault, Live,
      TypeOK, SuInv, SuStateOnRoute, ShellInv, ShellPcs, ElevatedHasShell
<1> QED BY <1>1, <1>3, <1>4, <1>5, <1>6, <1>7

(* A lost shell leads to the invalidation of its route. *)
LEMMA SuCollectHolds ==
    ASSUME IndInv, NEW c \in Cmds, SuCollect(c)
    PROVE  IndInv'
<1> USE DEF IndInv
<1>1. SlotInv' /\ permits' \in 0..Slots
  BY SlotKept DEF SuCollect, Goto, FailureOn, Set, routeVars, suVars, LiveGeneration,
      Fault, Live, TypeOK, Pcs, SlotPcs
<1>2. FlagsOK'
  BY Zenon DEF SuCollect, Goto, FailureOn, Set, routeVars, suVars, LiveGeneration,
      Fault, Live, FlagsOK, TypeOK
<1>3. TypeOK'
  <2>1. pc' \in [Cmds -> Pcs]
    BY DEF SuCollect, Goto, Set, TypeOK, Pcs
  <2>2. expected' \in [Cmds -> Nat] /\ gen' \in [Cmds -> Nat]
    BY DEF SuCollect, Goto, Set, TypeOK
  <2>3. suSlot' \in [gen : Nat, id : Nat] /\ shell' \in [Cmds -> [gen : Nat, id : Nat]]
    BY NoShellType DEF SuCollect, Goto, Set, suVars, TypeOK
  <2>4. delivered' \in [Cmds -> Nat] /\ faults' \in Nat /\ elevating' \in SUBSET Cmds
    BY DEF SuCollect, Goto, FailureOn, Set, suVars, Fault, TypeOK
  <2> QED
    BY <1>1, <1>2, <2>1, <2>2, <2>3, <2>4 DEF SuCollect, routeVars, suVars, FlagsOK,
        TypeOK
<1>4. PlaceInv'
  BY DEF SuCollect, Goto, FailureOn, Set, routeVars, suVars, LiveGeneration, Fault,
      Live, TypeOK, PlaceInv, AfterInv, DeliveryInv, OpenPcs, SuPcs
<1>5. SuInv'
  BY DEF SuCollect, Goto, FailureOn, Set, routeVars, suVars, LiveGeneration, Fault,
      Live, TypeOK, SuInv, SuStateOnRoute, ShellInv, PlaceInv, AfterInv
<1>6. ShellInv'
  <2> USE NoShellType DEF TypeOK, ShellInv
  <2>1. nextShell' = nextShell /\ suSlot'.id < nextShell
    BY DEF SuCollect, Goto, FailureOn, Set, routeVars, suVars, LiveGeneration, Fault,
        Live
  <2>2. \A q \in Cmds : shell'[q] # NoShell => pc'[q] \in ShellPcs /\ shell'[q].gen = gen'[q]
    BY DEF SuCollect, Goto, FailureOn, Set, routeVars, suVars, LiveGeneration, Fault,
        Live, ShellPcs, SuInv, SuStateOnRoute
  <2>3. \A q \in Cmds : shell'[q].id < nextShell
    BY DEF SuCollect, Goto, FailureOn, Set, routeVars, suVars, LiveGeneration, Fault,
        Live
  <2>4. ShellNotShared'
    BY DEF SuCollect, Goto, FailureOn, Set, routeVars, suVars, LiveGeneration, Fault,
        Live, ShellNotShared
  <2> QED BY <2>1, <2>2, <2>3, <2>4
<1>7. ElevatedHasShell'
  BY DEF SuCollect, Goto, FailureOn, Set, routeVars, suVars, LiveGeneration, Fault,
      Live, TypeOK, SuInv, SuStateOnRoute, ShellInv, ShellPcs, ElevatedHasShell
<1> QED BY <1>1, <1>3, <1>4, <1>5, <1>6, <1>7

(* The shell goes back to the state it came from, or another one is there. *)
LEMMA RestoreShellHolds ==
    ASSUME IndInv, NEW c \in Cmds, RestoreShell(c)
    PROVE  IndInv'
<1> USE DEF IndInv
<1>1. SlotInv' /\ permits' \in 0..Slots
  BY SlotKept DEF RestoreShell, RestoreIf, LiveGeneration, Set, Goto, routeVars, Live,
      TypeOK, Pcs, SlotPcs
<1>2. FlagsOK'
  BY Zenon DEF RestoreShell, RestoreIf, LiveGeneration, Set, Goto, routeVars, Live,
      FlagsOK, TypeOK
<1>3. TypeOK'
  BY <1>1, <1>2, NoShellType DEF RestoreShell, RestoreIf,
      LiveGeneration, Set, Goto, routeVars, Live, FlagsOK, TypeOK, Pcs
<1>4. PlaceInv'
  BY DEF RestoreShell, RestoreIf, LiveGeneration, Set, Goto, routeVars, Live, TypeOK,
      PlaceInv, AfterInv, DeliveryInv, OpenPcs, SuPcs
<1>5. SuInv'
  BY DEF RestoreShell, RestoreIf, LiveGeneration, Set, Goto, routeVars, Live, TypeOK,
      SuInv, SuStateOnRoute, ShellInv, PlaceInv, AfterInv
<1>6. ShellInv'
  BY NoShellType DEF RestoreShell, RestoreIf, LiveGeneration, Set, Goto, routeVars,
      Live, TypeOK, SuInv, SuStateOnRoute, ShellInv, ShellNotShared, ShellPcs
<1>7. ElevatedHasShell'
  BY DEF RestoreShell, RestoreIf, LiveGeneration, Set, Goto, routeVars, Live, TypeOK,
      SuInv, SuStateOnRoute, ShellInv, ShellPcs, ElevatedHasShell
<1> QED BY <1>1, <1>3, <1>4, <1>5, <1>6, <1>7

(* A plain channel, or the first failure. *)
LEMMA OpenChannelHolds ==
    ASSUME IndInv, NEW c \in Cmds, OpenChannel(c)
    PROVE  IndInv'
<1> USE DEF IndInv
<1>1. SlotInv' /\ permits' \in 0..Slots
  BY SlotKept DEF OpenChannel, Live, Goto, FailureOn, Set, routeVars, suVars,
      LiveGeneration, Fault, TypeOK, Pcs, SlotPcs
<1>2. FlagsOK'
  BY Zenon DEF OpenChannel, Live, Goto, FailureOn, Set, routeVars, suVars,
      LiveGeneration, Fault, FlagsOK, TypeOK
<1>3. TypeOK'
  BY <1>1, <1>2, NoShellType DEF OpenChannel, Live, Goto,
      FailureOn, Set, routeVars, suVars, LiveGeneration, Fault, FlagsOK, TypeOK, Pcs
<1>4. PlaceInv'
  BY DEF OpenChannel, Live, Goto, FailureOn, Set, routeVars, suVars, LiveGeneration,
      Fault, TypeOK, PlaceInv, AfterInv, DeliveryInv, OpenPcs, SuPcs
<1>5. SuInv'
  BY DEF OpenChannel, Live, Goto, FailureOn, Set, routeVars, suVars, LiveGeneration,
      Fault, TypeOK, SuInv, SuStateOnRoute, ShellInv, PlaceInv, AfterInv
<1>6. ShellInv'
  BY NoShellType DEF OpenChannel, Live, Goto, FailureOn, Set, routeVars, suVars,
      LiveGeneration, Fault, TypeOK, SuInv, SuStateOnRoute, ShellInv, ShellNotShared,
      ShellPcs
<1>7. ElevatedHasShell'
  BY DEF OpenChannel, Live, Goto, FailureOn, Set, routeVars, suVars, LiveGeneration,
      Fault, TypeOK, SuInv, SuStateOnRoute, ShellInv, ShellPcs, ElevatedHasShell
<1> QED BY <1>1, <1>3, <1>4, <1>5, <1>6, <1>7

(* The payload goes out once, or was not queued. *)
LEMMA ExecSendHolds ==
    ASSUME IndInv, NEW c \in Cmds, ExecSend(c)
    PROVE  IndInv'
<1> USE DEF IndInv
<1>1. SlotInv' /\ permits' \in 0..Slots
  BY SlotKept DEF ExecSend, Goto, Set, FailureOn, routeVars, suVars, localVars,
      LiveGeneration, Fault, Live, TypeOK, Pcs, SlotPcs
<1>2. FlagsOK'
  BY Zenon DEF ExecSend, Goto, Set, FailureOn, routeVars, suVars, localVars,
      LiveGeneration, Fault, Live, FlagsOK, TypeOK
<1>3. TypeOK'
  <2>1. pc' \in [Cmds -> Pcs]
    BY DEF ExecSend, Goto, Set, localVars, TypeOK, Pcs
  <2>2. expected' \in [Cmds -> Nat] /\ gen' \in [Cmds -> Nat]
    BY DEF ExecSend, Goto, Set, localVars, TypeOK
  <2>3. suSlot' \in [gen : Nat, id : Nat] /\ shell' \in [Cmds -> [gen : Nat, id : Nat]]
    BY NoShellType DEF ExecSend, Goto, Set, suVars, localVars, TypeOK
  <2>4. delivered' \in [Cmds -> Nat] /\ faults' \in Nat /\ elevating' \in SUBSET Cmds
    BY DEF ExecSend, Goto, FailureOn, Set, suVars, localVars, Fault, TypeOK
  <2> QED
    BY <1>1, <1>2, <2>1, <2>2, <2>3, <2>4 DEF ExecSend, routeVars, suVars, localVars, FlagsOK,
        TypeOK
<1>4. PlaceInv'
  BY DEF ExecSend, Goto, Set, FailureOn, routeVars, suVars, localVars, LiveGeneration,
      Fault, Live, TypeOK, PlaceInv, AfterInv, DeliveryInv, OpenPcs, SuPcs
<1>5. SuInv'
  BY DEF ExecSend, Goto, Set, FailureOn, routeVars, suVars, localVars, LiveGeneration,
      Fault, Live, TypeOK, SuInv, SuStateOnRoute, ShellInv, PlaceInv, AfterInv
<1>6. ShellInv'
  BY NoShellType DEF ExecSend, Goto, Set, FailureOn, routeVars, suVars, localVars,
      LiveGeneration, Fault, Live, TypeOK, SuInv, SuStateOnRoute, ShellInv,
      ShellNotShared, ShellPcs
<1>7. ElevatedHasShell'
  BY DEF ExecSend, Goto, Set, FailureOn, routeVars, suVars, localVars, LiveGeneration,
      Fault, Live, TypeOK, SuInv, SuStateOnRoute, ShellInv, ShellPcs, ElevatedHasShell
<1> QED BY <1>1, <1>3, <1>4, <1>5, <1>6, <1>7

(* The second attempt starts with nothing delivered. *)
LEMMA RetryBeforeExecHolds ==
    ASSUME IndInv, NEW c \in Cmds, RetryBeforeExec(c)
    PROVE  IndInv'
<1> USE DEF IndInv
<1>1. SlotInv' /\ permits' \in 0..Slots
  BY SlotKept DEF RetryBeforeExec, Invalidate, Set, Goto, ClearSu, routeVars, suVars,
      TypeOK, Pcs, SlotPcs
<1>2. FlagsOK'
  BY Zenon DEF RetryBeforeExec, Invalidate, Set, Goto, ClearSu, routeVars, suVars,
      FlagsOK, TypeOK
<1>3. TypeOK'
  BY <1>1, <1>2, NoShellType DEF RetryBeforeExec, Invalidate, Set,
      Goto, ClearSu, routeVars, suVars, FlagsOK, TypeOK, Pcs
<1>4. PlaceInv'
  BY DEF RetryBeforeExec, Invalidate, Set, Goto, ClearSu, routeVars, suVars, TypeOK,
      PlaceInv, AfterInv, DeliveryInv, OpenPcs, SuPcs
<1>5. SuInv'
  BY DEF RetryBeforeExec, Invalidate, Set, Goto, ClearSu, routeVars, suVars, TypeOK,
      SuInv, SuStateOnRoute, ShellInv, PlaceInv, AfterInv
<1>6. ShellInv'
  BY NoShellType DEF RetryBeforeExec, Invalidate, Set, Goto, ClearSu, routeVars,
      suVars, TypeOK, SuInv, SuStateOnRoute, ShellInv, ShellNotShared, ShellPcs
<1>7. ElevatedHasShell'
  BY DEF RetryBeforeExec, Invalidate, Set, Goto, ClearSu, routeVars, suVars, Live,
      TypeOK, SuInv, SuStateOnRoute, ShellInv, ShellPcs, ElevatedHasShell
<1> QED BY <1>1, <1>3, <1>4, <1>5, <1>6, <1>7

(* The output is complete. *)
LEMMA CollectDoneHolds ==
    ASSUME IndInv, NEW c \in Cmds, CollectDone(c)
    PROVE  IndInv'
<1> USE DEF IndInv
<1>1. SlotInv' /\ permits' \in 0..Slots
  BY SlotKept DEF CollectDone, Goto, routeVars, suVars, localVars, TypeOK, Pcs,
      SlotPcs
<1>2. FlagsOK'
  BY Zenon DEF CollectDone, Goto, routeVars, suVars, localVars, FlagsOK, TypeOK
<1>3. TypeOK'
  BY <1>1, <1>2, NoShellType DEF CollectDone, Goto, routeVars,
      suVars, localVars, FlagsOK, TypeOK, Pcs
<1>4. PlaceInv'
  BY DEF CollectDone, Goto, routeVars, suVars, localVars, TypeOK, PlaceInv, AfterInv,
      DeliveryInv, OpenPcs, SuPcs
<1>5. SuInv'
  BY DEF CollectDone, Goto, routeVars, suVars, localVars, TypeOK, SuInv,
      SuStateOnRoute, ShellInv, PlaceInv, AfterInv
<1>6. ShellInv'
  BY NoShellType DEF CollectDone, Goto, routeVars, suVars, localVars, TypeOK, SuInv,
      SuStateOnRoute, ShellInv, ShellNotShared, ShellPcs
<1>7. ElevatedHasShell'
  BY DEF CollectDone, Goto, routeVars, suVars, localVars, Live, TypeOK, SuInv,
      SuStateOnRoute, ShellInv, ShellPcs, ElevatedHasShell
<1> QED BY <1>1, <1>3, <1>4, <1>5, <1>6, <1>7

(* After the send nothing leads back to it. *)
LEMMA CollectFailsHolds ==
    ASSUME IndInv, NEW c \in Cmds, CollectFails(c)
    PROVE  IndInv'
<1> USE DEF IndInv
<1>1. SlotInv' /\ permits' \in 0..Slots
  BY SlotKept DEF CollectFails, CollectFailsInto, FailureOn, Goto, routeVars, suVars,
      localVars, LiveGeneration, Fault, Live, TypeOK, Pcs, SlotPcs
<1>2. FlagsOK'
  BY Zenon DEF CollectFails, CollectFailsInto, FailureOn, Goto, routeVars, suVars,
      localVars, LiveGeneration, Fault, Live, FlagsOK, TypeOK
<1>3. TypeOK'
  BY <1>1, <1>2, NoShellType DEF CollectFails, CollectFailsInto,
      FailureOn, Goto, routeVars, suVars, localVars, LiveGeneration, Fault, Live,
      FlagsOK, TypeOK, Pcs
<1>4. PlaceInv'
  BY DEF CollectFails, CollectFailsInto, FailureOn, Goto, routeVars, suVars,
      localVars, LiveGeneration, Fault, Live, TypeOK, PlaceInv, AfterInv, DeliveryInv,
      OpenPcs, SuPcs
<1>5. SuInv'
  BY DEF CollectFails, CollectFailsInto, FailureOn, Goto, routeVars, suVars,
      localVars, LiveGeneration, Fault, Live, TypeOK, SuInv, SuStateOnRoute, ShellInv,
      PlaceInv, AfterInv
<1>6. ShellInv'
  BY NoShellType DEF CollectFails, CollectFailsInto, FailureOn, Goto, routeVars,
      suVars, localVars, LiveGeneration, Fault, Live, TypeOK, SuInv, SuStateOnRoute,
      ShellInv, ShellNotShared, ShellPcs
<1>7. ElevatedHasShell'
  BY DEF CollectFails, CollectFailsInto, FailureOn, Goto, routeVars, suVars,
      localVars, LiveGeneration, Fault, Live, TypeOK, SuInv, SuStateOnRoute, ShellInv,
      ShellPcs, ElevatedHasShell
<1> QED BY <1>1, <1>3, <1>4, <1>5, <1>6, <1>7

(* The only way to a second delivery, taken once. *)
LEMMA WrapperMissingHolds ==
    ASSUME IndInv, NEW c \in Cmds, WrapperMissing(c)
    PROVE  IndInv'
<1> USE DEF IndInv
<1>1. SlotInv' /\ permits' \in 0..Slots
  BY SlotKept DEF WrapperMissing, Set, Goto, routeVars, suVars, TypeOK, Pcs, SlotPcs
<1>2. FlagsOK'
  BY Zenon DEF WrapperMissing, Set, Goto, routeVars, suVars, FlagsOK, TypeOK
<1>3. TypeOK'
  BY <1>1, <1>2, NoShellType DEF WrapperMissing, Set, Goto,
      routeVars, suVars, FlagsOK, TypeOK, Pcs
<1>4. PlaceInv'
  BY DEF WrapperMissing, Set, Goto, routeVars, suVars, TypeOK, PlaceInv, AfterInv,
      DeliveryInv, OpenPcs, SuPcs
<1>5. SuInv'
  BY DEF WrapperMissing, Set, Goto, routeVars, suVars, TypeOK, SuInv, SuStateOnRoute,
      ShellInv, PlaceInv, AfterInv
<1>6. ShellInv'
  BY NoShellType DEF WrapperMissing, Set, Goto, routeVars, suVars, TypeOK, SuInv,
      SuStateOnRoute, ShellInv, ShellNotShared, ShellPcs
<1>7. ElevatedHasShell'
  BY DEF WrapperMissing, Set, Goto, routeVars, suVars, Live, TypeOK, SuInv,
      SuStateOnRoute, ShellInv, ShellPcs, ElevatedHasShell
<1> QED BY <1>1, <1>3, <1>4, <1>5, <1>6, <1>7

(* The command's own route goes, with its su state. *)
LEMMA InvalidateAfterHolds ==
    ASSUME IndInv, NEW c \in Cmds, InvalidateAfter(c)
    PROVE  IndInv'
<1> USE DEF IndInv
<1>1. SlotInv' /\ permits' \in 0..Slots
  BY SlotKept DEF InvalidateAfter, Invalidate, Goto, localVars, ClearSu, routeVars,
      suVars, TypeOK, Pcs, SlotPcs
<1>2. FlagsOK'
  BY Zenon DEF InvalidateAfter, Invalidate, Goto, localVars, ClearSu, routeVars,
      suVars, FlagsOK, TypeOK
<1>3. TypeOK'
  BY <1>1, <1>2, NoShellType DEF InvalidateAfter, Invalidate,
      Goto, localVars, ClearSu, routeVars, suVars, FlagsOK, TypeOK, Pcs
<1>4. PlaceInv'
  BY DEF InvalidateAfter, Invalidate, Goto, localVars, ClearSu, routeVars, suVars,
      TypeOK, PlaceInv, AfterInv, DeliveryInv, OpenPcs, SuPcs
<1>5. SuInv'
  BY DEF InvalidateAfter, Invalidate, Goto, localVars, ClearSu, routeVars, suVars,
      TypeOK, SuInv, SuStateOnRoute, ShellInv, PlaceInv, AfterInv
<1>6. ShellInv'
  BY NoShellType DEF InvalidateAfter, Invalidate, Goto, localVars, ClearSu, routeVars,
      suVars, TypeOK, SuInv, SuStateOnRoute, ShellInv, ShellNotShared, ShellPcs
<1>7. ElevatedHasShell'
  BY DEF InvalidateAfter, Invalidate, Goto, localVars, ClearSu, routeVars, suVars,
      Live, TypeOK, SuInv, SuStateOnRoute, ShellInv, ShellPcs, ElevatedHasShell
<1> QED BY <1>1, <1>3, <1>4, <1>5, <1>6, <1>7

(* The permit is dropped with the result. *)
LEMMA FinishHolds ==
    ASSUME IndInv, NEW c \in Cmds, Finish(c)
    PROVE  IndInv'
<1> USE DEF IndInv
<1>1. SlotInv' /\ permits' \in 0..Slots
  BY SlotFreed DEF Finish, FinishReleasing, Goto, routeVars, suVars, localVars,
      TypeOK, Pcs, SlotPcs
<1>2. FlagsOK'
  BY Zenon DEF Finish, FinishReleasing, Goto, routeVars, suVars, localVars, FlagsOK,
      TypeOK
<1>3. TypeOK'
  BY <1>1, <1>2, NoShellType DEF Finish, FinishReleasing, Goto,
      routeVars, suVars, localVars, FlagsOK, TypeOK, Pcs
<1>4. PlaceInv'
  BY DEF Finish, FinishReleasing, Goto, routeVars, suVars, localVars, TypeOK,
      PlaceInv, AfterInv, DeliveryInv, OpenPcs, SuPcs
<1>5. SuInv'
  BY DEF Finish, FinishReleasing, Goto, routeVars, suVars, localVars, TypeOK, SuInv,
      SuStateOnRoute, ShellInv, PlaceInv, AfterInv
<1>6. ShellInv'
  BY NoShellType DEF Finish, FinishReleasing, Goto, routeVars, suVars, localVars,
      TypeOK, SuInv, SuStateOnRoute, ShellInv, ShellNotShared, ShellPcs
<1>7. ElevatedHasShell'
  BY DEF Finish, FinishReleasing, Goto, routeVars, suVars, localVars, Live, TypeOK,
      SuInv, SuStateOnRoute, ShellInv, ShellPcs, ElevatedHasShell
<1> QED BY <1>1, <1>3, <1>4, <1>5, <1>6, <1>7

(* A background start gives its slot back. *)
LEMMA LaunchEndsHolds ==
    ASSUME IndInv, NEW c \in Cmds, LaunchEnds(c)
    PROVE  IndInv'
<1> USE DEF IndInv
<1>1. SlotInv' /\ permits' \in 0..Slots
  BY SlotFreed DEF LaunchEnds, Goto, routeVars, suVars, localVars,
      TypeOK, Pcs, SlotPcs
<1>2. FlagsOK'
  BY Zenon DEF LaunchEnds, Goto, routeVars, suVars, localVars, FlagsOK,
      TypeOK
<1>3. TypeOK'
  BY <1>1, <1>2, NoShellType DEF LaunchEnds, Goto,
      routeVars, suVars, localVars, FlagsOK, TypeOK, Pcs
<1>4. PlaceInv'
  BY DEF LaunchEnds, Goto, routeVars, suVars, localVars, TypeOK,
      PlaceInv, AfterInv, DeliveryInv, OpenPcs, SuPcs
<1>5. SuInv'
  BY DEF LaunchEnds, Goto, routeVars, suVars, localVars, TypeOK, SuInv,
      SuStateOnRoute, ShellInv, PlaceInv, AfterInv
<1>6. ShellInv'
  BY NoShellType DEF LaunchEnds, Goto, routeVars, suVars, localVars,
      TypeOK, SuInv, SuStateOnRoute, ShellInv, ShellNotShared, ShellPcs
<1>7. ElevatedHasShell'
  BY DEF LaunchEnds, Goto, routeVars, suVars, localVars, Live, TypeOK,
      SuInv, SuStateOnRoute, ShellInv, ShellPcs, ElevatedHasShell
<1> QED BY <1>1, <1>3, <1>4, <1>5, <1>6, <1>7

(* A dropped future frees what Rust's drop frees. *)
LEMMA DropCommandHolds ==
    ASSUME IndInv, NEW c \in Cmds, DropCommand(c)
    PROVE  IndInv'
<1> USE DEF IndInv
<1>1. SlotInv' /\ permits' \in 0..Slots
  BY SlotFreed DEF DropCommand, Set, Goto, routeVars, suVars, TypeOK, Pcs, SlotPcs
<1>2. FlagsOK'
  BY Zenon DEF DropCommand, Set, Goto, routeVars, suVars, FlagsOK, TypeOK
<1>3. TypeOK'
  BY <1>1, <1>2, NoShellType DEF DropCommand, Set, Goto,
      routeVars, suVars, FlagsOK, TypeOK, Pcs
<1>4. PlaceInv'
  BY DEF DropCommand, Set, Goto, routeVars, suVars, TypeOK, PlaceInv, AfterInv,
      DeliveryInv, OpenPcs, SuPcs
<1>5. SuInv'
  BY DEF DropCommand, Set, Goto, routeVars, suVars, TypeOK, SuInv, SuStateOnRoute,
      ShellInv, PlaceInv, AfterInv
<1>6. ShellInv'
  BY NoShellType DEF DropCommand, Set, Goto, routeVars, suVars, TypeOK, SuInv,
      SuStateOnRoute, ShellInv, ShellNotShared, ShellPcs
<1>7. ElevatedHasShell'
  BY DEF DropCommand, Set, Goto, routeVars, suVars, Live, TypeOK, SuInv,
      SuStateOnRoute, ShellInv, ShellPcs, ElevatedHasShell
<1> QED BY <1>1, <1>3, <1>4, <1>5, <1>6, <1>7

(* A new route meets an empty su state. *)
LEMMA EstablishHolds ==
    ASSUME IndInv, Establish
    PROVE  IndInv'
<1> USE DEF IndInv
<1>1. SlotInv' /\ permits' \in 0..Slots
  BY SlotStays DEF Establish, suVars, localVars
<1>2. FlagsOK'
  BY Zenon DEF Establish, suVars, localVars, FlagsOK, TypeOK
<1>3. TypeOK'
  BY <1>1, <1>2, NoShellType DEF Establish, suVars, localVars,
      FlagsOK, TypeOK, Pcs
<1>4. PlaceInv'
  BY DEF Establish, suVars, localVars, TypeOK, PlaceInv, AfterInv, DeliveryInv,
      OpenPcs, SuPcs
<1>5. SuInv'
  BY DEF Establish, suVars, localVars, TypeOK, SuInv, SuStateOnRoute, ShellInv,
      PlaceInv, AfterInv
<1>6. ShellInv'
  BY NoShellType DEF Establish, suVars, localVars, TypeOK, SuInv, SuStateOnRoute,
      ShellInv, ShellNotShared, ShellPcs
<1>7. ElevatedHasShell'
  BY DEF Establish, suVars, localVars, Live, TypeOK, SuInv, SuStateOnRoute, ShellInv,
      ShellPcs, ElevatedHasShell
<1> QED BY <1>1, <1>3, <1>4, <1>5, <1>6, <1>7

(* A dead route. *)
LEMMA RouteDiesHolds ==
    ASSUME IndInv, RouteDies
    PROVE  IndInv'
<1> USE DEF IndInv
<1>1. SlotInv' /\ permits' \in 0..Slots
  BY SlotStays DEF RouteDies, Live, Fault, suVars, localVars
<1>2. FlagsOK'
  BY Zenon DEF RouteDies, Live, Fault, suVars, localVars, FlagsOK, TypeOK
<1>3. TypeOK'
  BY <1>1, <1>2, NoShellType DEF RouteDies, Live, Fault, suVars,
      localVars, FlagsOK, TypeOK, Pcs
<1>4. PlaceInv'
  BY DEF RouteDies, Live, Fault, suVars, localVars, TypeOK, PlaceInv, AfterInv,
      DeliveryInv, OpenPcs, SuPcs
<1>5. SuInv'
  BY DEF RouteDies, Live, Fault, suVars, localVars, TypeOK, SuInv, SuStateOnRoute,
      ShellInv, PlaceInv, AfterInv
<1>6. ShellInv'
  BY NoShellType DEF RouteDies, Live, Fault, suVars, localVars, TypeOK, SuInv,
      SuStateOnRoute, ShellInv, ShellNotShared, ShellPcs
<1>7. ElevatedHasShell'
  BY DEF RouteDies, Live, Fault, suVars, localVars, TypeOK, SuInv, SuStateOnRoute,
      ShellInv, ShellPcs, ElevatedHasShell
<1> QED BY <1>1, <1>3, <1>4, <1>5, <1>6, <1>7

(* Route and su state go together. *)
LEMMA RouteRetiredHolds ==
    ASSUME IndInv, RouteRetired
    PROVE  IndInv'
<1> USE DEF IndInv
<1>1. SlotInv' /\ permits' \in 0..Slots
  BY SlotStays DEF RouteRetired, Fault, Invalidate, localVars, ClearSu, routeVars,
      suVars
<1>2. FlagsOK'
  BY Zenon DEF RouteRetired, Fault, Invalidate, localVars, ClearSu, routeVars, suVars,
      FlagsOK, TypeOK
<1>3. TypeOK'
  BY <1>1, <1>2, NoShellType DEF RouteRetired, Fault, Invalidate,
      localVars, ClearSu, routeVars, suVars, FlagsOK, TypeOK, Pcs
<1>4. PlaceInv'
  BY DEF RouteRetired, Fault, Invalidate, localVars, ClearSu, routeVars, suVars,
      TypeOK, PlaceInv, AfterInv, DeliveryInv, OpenPcs, SuPcs
<1>5. SuInv'
  BY DEF RouteRetired, Fault, Invalidate, localVars, ClearSu, routeVars, suVars,
      TypeOK, SuInv, SuStateOnRoute, ShellInv, PlaceInv, AfterInv
<1>6. ShellInv'
  BY NoShellType DEF RouteRetired, Fault, Invalidate, localVars, ClearSu, routeVars,
      suVars, TypeOK, SuInv, SuStateOnRoute, ShellInv, ShellNotShared, ShellPcs
<1>7. ElevatedHasShell'
  BY DEF RouteRetired, Fault, Invalidate, localVars, ClearSu, routeVars, suVars, Live,
      TypeOK, SuInv, SuStateOnRoute, ShellInv, ShellPcs, ElevatedHasShell
<1> QED BY <1>1, <1>3, <1>4, <1>5, <1>6, <1>7

(* The flag of close(). *)
LEMMA CloseBeginsHolds ==
    ASSUME IndInv, CloseBegins
    PROVE  IndInv'
<1> USE DEF IndInv
<1>1. SlotInv' /\ permits' \in 0..Slots
  BY SlotStays DEF CloseBegins, suVars, localVars
<1>2. FlagsOK'
  BY Zenon DEF CloseBegins, suVars, localVars, FlagsOK, TypeOK
<1>3. TypeOK'
  BY <1>1, <1>2, NoShellType DEF CloseBegins, suVars, localVars,
      FlagsOK, TypeOK, Pcs
<1>4. PlaceInv'
  BY DEF CloseBegins, suVars, localVars, TypeOK, PlaceInv, AfterInv, DeliveryInv,
      OpenPcs, SuPcs
<1>5. SuInv'
  BY DEF CloseBegins, suVars, localVars, TypeOK, SuInv, SuStateOnRoute, ShellInv,
      PlaceInv, AfterInv
<1>6. ShellInv'
  BY NoShellType DEF CloseBegins, suVars, localVars, TypeOK, SuInv, SuStateOnRoute,
      ShellInv, ShellNotShared, ShellPcs
<1>7. ElevatedHasShell'
  BY DEF CloseBegins, suVars, localVars, Live, TypeOK, SuInv, SuStateOnRoute,
      ShellInv, ShellPcs, ElevatedHasShell
<1> QED BY <1>1, <1>3, <1>4, <1>5, <1>6, <1>7

(* close() takes route and su state. *)
LEMMA CloseTakesRouteHolds ==
    ASSUME IndInv, CloseTakesRoute
    PROVE  IndInv'
<1> USE DEF IndInv
<1>1. SlotInv' /\ permits' \in 0..Slots
  BY SlotStays DEF CloseTakesRoute, ClearSu, localVars
<1>2. FlagsOK'
  BY Zenon DEF CloseTakesRoute, ClearSu, localVars, FlagsOK, TypeOK
<1>3. TypeOK'
  BY <1>1, <1>2, NoShellType DEF CloseTakesRoute, ClearSu,
      localVars, FlagsOK, TypeOK, Pcs
<1>4. PlaceInv'
  BY DEF CloseTakesRoute, ClearSu, localVars, TypeOK, PlaceInv, AfterInv, DeliveryInv,
      OpenPcs, SuPcs
<1>5. SuInv'
  BY DEF CloseTakesRoute, ClearSu, localVars, TypeOK, SuInv, SuStateOnRoute, ShellInv,
      PlaceInv, AfterInv
<1>6. ShellInv'
  BY NoShellType DEF CloseTakesRoute, ClearSu, localVars, TypeOK, SuInv,
      SuStateOnRoute, ShellInv, ShellNotShared, ShellPcs
<1>7. ElevatedHasShell'
  BY DEF CloseTakesRoute, ClearSu, localVars, Live, TypeOK, SuInv, SuStateOnRoute,
      ShellInv, ShellPcs, ElevatedHasShell
<1> QED BY <1>1, <1>3, <1>4, <1>5, <1>6, <1>7

-----------------------------------------------------------------------------

(* Every step keeps the invariant. *)
LEMMA Inductive == IndInv /\ [Next]_vars => IndInv'
<1> SUFFICES ASSUME IndInv, [Next]_vars PROVE IndInv'
  OBVIOUS
<1>1. ASSUME NEW c \in Cmds, Step(c) PROVE IndInv'
  BY <1>1, AcquireSlotHolds, EnsureConnectedHolds, AutoElevateHolds,
      ElevationBeginsHolds, ElevationOpensHolds, ElevationSucceedsHolds,
      ElevationFailsHolds, DispatchHolds, CheckWrapperHolds, TakeShellHolds,
      SuSendHolds, SuCollectHolds, RestoreShellHolds, OpenChannelHolds, ExecSendHolds,
      RetryBeforeExecHolds, CollectDoneHolds, CollectFailsHolds, WrapperMissingHolds,
      InvalidateAfterHolds, FinishHolds, LaunchEndsHolds DEF Step
<1>2. CASE UNCHANGED vars
  <2>1. UNCHANGED <<pc, permits>>
    BY <1>2 DEF vars
  <2>2. SlotInv'
    BY <2>1, SlotStays
  <2>3. TypeOK' /\ PlaceInv' /\ SuInv' /\ ShellInv' /\ ElevatedHasShell'
    BY <1>2 DEF vars, routeVars, suVars, localVars, IndInv, TypeOK, PlaceInv, AfterInv,
                DeliveryInv, SuInv, SuStateOnRoute, ShellInv, ShellNotShared,
                ElevatedHasShell, Live
  <2> QED BY <2>2, <2>3 DEF IndInv
<1> QED
  BY <1>1, <1>2, DropCommandHolds, EstablishHolds, RouteDiesHolds, RouteRetiredHolds,
      CloseBeginsHolds, CloseTakesRouteHolds DEF Next

(* The invariant holds in every state. *)
LEMMA AlwaysInv == Spec => []IndInv
BY InitHolds, Inductive, PTL DEF Spec

(* Every variable keeps its type; in particular the permits never exceed    *)
(* the slots, with dropped commands too.                                    *)
THEOREM TypeCorrect == Spec => []TypeOK
<1>1. IndInv => TypeOK
  BY DEF IndInv
<1> QED BY <1>1, AlwaysInv, PTL

(* Permits and commands in progress always add up to the slots: no way out  *)
(* of exec_command loses or invents one.                                    *)
THEOREM SlotsAreConserved == Spec => []SlotsConserved
<1>1. IndInv => SlotsConserved
  BY DEF IndInv, SlotInv, Holders, SlotsConserved
<1> QED BY <1>1, AlwaysInv, PTL

(* A payload is delivered once, and a second time only after the report     *)
(* that the wrapper is missing, however often channels and routes fail.     *)
THEOREM PayloadsAreNotReplayed == Spec => []NoReplay
<1>1. IndInv => NoReplay
  BY DEF IndInv, PlaceInv, DeliveryInv, NoReplay
<1> QED BY <1>1, AlwaysInv, PTL

(* An idle su shell always belongs to the installed route.                  *)
THEOREM SuStateFollowsRoute == Spec => []SuStateOnRoute
<1>1. IndInv => SuStateOnRoute
  BY DEF IndInv, SuInv
<1> QED BY <1>1, AlwaysInv, PTL

(* A su shell is in its slot or with one command, never in two places.      *)
THEOREM ShellsAreNotShared == Spec => []ShellNotShared
<1>1. IndInv => ShellNotShared
  BY DEF IndInv, ShellInv
<1> QED BY <1>1, AlwaysInv, PTL

(* While is_elevated is set on a live route a shell exists, is about to     *)
(* take its route with it, or was lost with a dropped future.               *)
THEOREM ElevationHasShell == Spec => []ElevatedHasShell
<1>1. IndInv => ElevatedHasShell
  BY DEF IndInv
<1> QED BY <1>1, AlwaysInv, PTL

(* The su shells of exec_command: of the installed route, with one command  *)
(* at a time, never forgotten while the elevation flag is set.              *)
THEOREM SuShellsAreSound == Spec => []SuShellsSound
  BY SuStateFollowsRoute, ShellsAreNotShared, ElevationHasShell, PTL DEF SuShellsSound

=============================================================================
