-------------------------- MODULE TransferJobProofs -------------------------
(***************************************************************************)
(* The safety of TransferJob for any sets of transfers, destinations and   *)
(* checks.  What makes the properties inductive: which places of a         *)
(* transfer hold a reservation, what a transfer at its commit has already  *)
(* achieved, and where the handle of a running task is.                    *)
(*                                                                         *)
(* Then the pure parts of a transfer, for every input: the paths it        *)
(* reserves and joins, the tail of its log, and the archives it sends and  *)
(* unpacks.                                                                *)
(***************************************************************************)
EXTENDS TransferJob, Algorithms, SequenceTheorems, FiniteSetTheorems, WellFoundedInduction, TLAPS

RunningPcs == {"spawned"} \cup WorkPcs

(* Who holds a reservation is in the set, alone for its destination, and    *)
(* every reservation has a holder.                                          *)
HoldInv ==
    /\ \A t \in Transfers : pc[t] \in HoldPcs => DestOf[t] \in active
    /\ \A d \in active : \E t \in Transfers : pc[t] \in HoldPcs /\ DestOf[t] = d
    /\ \A t, u \in Transfers :
          pc[t] \in HoldPcs /\ pc[u] \in HoldPcs /\ DestOf[t] = DestOf[u] => t = u

(* A client's copy is whole when its commit begins; a commit without a      *)
(* local side belongs to a transfer that is over.                           *)
CommitInv ==
    /\ \A t \in Transfers \ Streamed :
          /\ pc[t] = "finalizing" => t \in whole
          /\ phase[t] = "completed" => t \in installed \cap whole
    /\ \A t \in orphans : pc[t] = "done"

(* A registered job stays until its retention is over; only background      *)
(* transfers have one.                                                      *)
RegistryInv ==
    /\ \A t \in Background : pc[t] # "new" /\ t \notin expired => t \in registry
    /\ \A t \in Transfers : pc[t] \in {"registered", "spawned"} => t \in Background
    /\ \A c \in Checks : answer[c] = "missing" => JobOf[c] \in expired

(* The handle of a running task is in the list or with shutdown(). *)
HandleInv ==
    /\ \A t \in Background :
          pc[t] \in RunningPcs =>
              t \in tasks \/ (server \in {"draining", "closed"} /\ t \in drained)
    /\ server = "closed" => \A t \in drained : pc[t] = "done"

IndInv == TypeOK /\ HoldInv /\ CommitInv /\ RegistryInv /\ HandleInv

-----------------------------------------------------------------------------

(* The initial states: nothing runs, nothing is reserved. *)
LEMMA InitHolds == Init => IndInv
<1> SUFFICES ASSUME Init PROVE IndInv
  OBVIOUS
<1>1. TypeOK
  BY DEF Init, TypeOK, WorkPcs, Phases
<1>2. HoldInv /\ CommitInv /\ RegistryInv /\ HandleInv
  BY TransferAssumption
  DEF Init, HoldInv, CommitInv, RegistryInv, HandleInv, HoldPcs, WorkPcs, RunningPcs, Transfers
<1> QED BY <1>1, <1>2 DEF IndInv

(* A step that changes none of the variables keeps the invariant. *)
LEMMA StutterHolds == IndInv /\ UNCHANGED vars => IndInv'
BY DEF IndInv, TypeOK, HoldInv, CommitInv, RegistryInv, HandleInv, vars, jobVars,
       remoteVars, serverVars, checkVars

(* The end of a transfer, by return or by drop, frees exactly what it held; *)
(* completion is only claimed for what is installed.                        *)
LEMMA EndHolds ==
    ASSUME IndInv, NEW t \in Transfers, NEW ok \in BOOLEAN,
           pc[t] \in WorkPcs,
           pc' = [pc EXCEPT ![t] = "done"],
           active' = (IF pc[t] \in HoldPcs THEN active \ {DestOf[t]} ELSE active),
           FinishWith(t, ok),
           ok => t \in Streamed \/ t \in installed \cap whole,
           orphans' \subseteq Transfers \ installed,
           orphans' \subseteq orphans \cup {t},
           UNCHANGED <<stop, expired, whole, installed, registry, serverVars, checkVars>>
    PROVE  IndInv'
<1> USE DEF IndInv, FinishWith, serverVars, checkVars
<1>1. TypeOK'
  BY TransferAssumption DEF TypeOK, Phases, Transfers, HoldPcs, WorkPcs
<1>2. HoldInv'
  <2>1. \A u \in Transfers : pc'[u] \in HoldPcs => u # t /\ pc[u] \in HoldPcs
    BY DEF TypeOK, HoldPcs
  <2>2. \A u \in Transfers : u # t /\ pc[u] \in HoldPcs => pc'[u] \in HoldPcs
    BY DEF TypeOK
  <2>3. CASE pc[t] \in HoldPcs
    BY <2>1, <2>2, <2>3 DEF HoldInv
  <2>4. CASE pc[t] \notin HoldPcs
    BY <2>1, <2>2, <2>4 DEF HoldInv
  <2> QED BY <2>3, <2>4
<1>3. CommitInv'
  BY DEF CommitInv, TypeOK
<1>4. RegistryInv'
  BY DEF RegistryInv, TypeOK, WorkPcs
<1>5. HandleInv'
  BY DEF HandleInv, TypeOK, RunningPcs, WorkPcs
<1> QED BY <1>1, <1>2, <1>3, <1>4, <1>5

(* A dropped future ends its transfer without a claim. *)
LEMMA DropHolds ==
    ASSUME IndInv, NEW t \in Transfers, pc[t] \in WorkPcs, DropWork(t)
    PROVE  IndInv'
<1>1. orphans' \subseteq Transfers \ installed
  BY DEF DropWork, DropWorkReleasing, CommittingRemotely, Commits, IndInv, TypeOK
<1>2. orphans' \subseteq orphans \cup {t}
  BY DEF DropWork, DropWorkReleasing
<1> QED BY <1>1, <1>2, EndHolds DEF DropWork, DropWorkReleasing, Goto

(* A return ends it, with a claim only if the code had a reason. *)
LEMMA ReturnHolds ==
    ASSUME IndInv, NEW t \in Transfers, NEW ok \in BOOLEAN, pc[t] \in WorkPcs,
           ok => t \in Streamed \/ t \in installed \cap whole,
           WorkEnds(t, ok)
    PROVE  IndInv'
<1>1. orphans' \subseteq Transfers \ installed /\ orphans' \subseteq orphans \cup {t}
  <2>1. PICK left \in SUBSET ({t} \cap CommittingRemotely) : orphans' = orphans \cup left
    BY DEF WorkEnds
  <2> QED BY <2>1 DEF CommittingRemotely, Commits, IndInv, TypeOK
<1>2. (ok /\ stop[t] = "no") \in BOOLEAN
  OBVIOUS
<1>3. (ok /\ stop[t] = "no") => t \in Streamed \/ t \in installed \cap whole
  OBVIOUS
<1> QED BY <1>1, <1>2, <1>3, EndHolds DEF WorkEnds, Goto

(* Going on from one place of the work to another disturbs neither what is  *)
(* registered nor where the handle is.                                      *)
LEMMA AdvanceHolds ==
    ASSUME IndInv, NEW t \in Transfers, NEW label \in WorkPcs, pc[t] \in WorkPcs,
           pc' = [pc EXCEPT ![t] = label],
           UNCHANGED <<expired, registry, serverVars, checkVars>>
    PROVE  RegistryInv' /\ HandleInv'
<1> USE DEF IndInv, serverVars, checkVars
<1>1. \A u \in Transfers : u # t => pc'[u] = pc[u]
  BY DEF TypeOK
<1>2. pc'[t] = label /\ pc[t] \notin {"new", "registered", "spawned", "done"}
      /\ label \notin {"new", "registered", "spawned", "done"}
  BY DEF TypeOK, WorkPcs
<1>3. Background \subseteq Transfers
  BY DEF Transfers
<1>4. RegistryInv'
  BY <1>1, <1>2, <1>3 DEF RegistryInv
<1>5. HandleInv'
  <2>1. \A u \in Background : pc'[u] \in RunningPcs => pc[u] \in RunningPcs
    BY <1>1, <1>3 DEF RunningPcs
  <2>2. server = "closed" => \A u \in drained : u # t /\ pc'[u] = "done"
    BY <1>1, <1>2, <1>3 DEF HandleInv, TypeOK
  <2> QED BY <2>1, <2>2 DEF HandleInv
<1> QED BY <1>4, <1>5

(* From staging to the commit the reservation stays with its holder. *)
LEMMA CommitKeepsHold ==
    ASSUME IndInv, NEW t \in Transfers, pc[t] = "staging",
           pc' = [pc EXCEPT ![t] = "finalizing"], UNCHANGED active
    PROVE  HoldInv'
<1>1. \A u \in Transfers : pc'[u] \in HoldPcs <=> pc[u] \in HoldPcs
  BY DEF IndInv, TypeOK, HoldPcs
<1> QED BY <1>1 DEF IndInv, HoldInv

-----------------------------------------------------------------------------

(* Every step of a transfer's handler or task keeps the invariant. *)
LEMMA TransferStepHolds ==
    ASSUME IndInv, NEW t \in Transfers,
           \/ Register(t) \/ Spawn(t) \/ StartTask(t) \/ StartForeground(t)
           \/ Working(t)
           \/ \E reason \in {"cancelled", "timed_out"} : StopWaiting(t, reason)
           \/ GraceElapses(t) \/ OrphanInstalls(t) \/ OrphanDies(t)
           \/ RetentionEnds(t) \/ AbortTask(t)
    PROVE  IndInv'
<1> USE TransferAssumption
<1>1. CASE Register(t)
  BY <1>1 DEF Register, IndInv, TypeOK, HoldInv, CommitInv, RegistryInv, HandleInv,
     HoldPcs, WorkPcs, RunningPcs, Phases, Goto, Unexpired, Transfers, jobVars,
     remoteVars, serverVars, checkVars
<1>2. CASE Spawn(t)
  <2> USE <1>2 DEF Spawn, SpawnKeeping, Goto, jobVars, remoteVars, checkVars, IndInv
  <2>0. t \in Background
    BY DEF TypeOK, RegistryInv
  <2>1. TypeOK'
    BY <2>0 DEF TypeOK
  <2>2. HoldInv' /\ CommitInv' /\ RegistryInv'
    BY DEF TypeOK, HoldInv, CommitInv, RegistryInv, HoldPcs
  <2>3. HandleInv'
    BY DEF TypeOK, HandleInv, RunningPcs, WorkPcs
  <2> QED BY <2>1, <2>2, <2>3
<1>3. CASE StartTask(t)
  <2> USE <1>3 DEF StartTask, Goto, ApplyEvent, IndInv, jobVars, remoteVars, serverVars, checkVars
  <2>1. TypeOK'
    BY DEF TypeOK, Phases, WorkPcs, Transfers
  <2>2. HoldInv'
    BY DEF TypeOK, HoldInv, HoldPcs, WorkPcs
  <2>3. CommitInv'
    BY DEF TypeOK, CommitInv
  <2>4. RegistryInv'
    BY DEF TypeOK, RegistryInv, WorkPcs
  <2>5. HandleInv'
    BY DEF TypeOK, HandleInv, RegistryInv, RunningPcs, WorkPcs
  <2> QED BY <2>1, <2>2, <2>3, <2>4, <2>5
<1>4. CASE StartForeground(t)
  <2> USE <1>4 DEF StartForeground, Goto, IndInv, jobVars, remoteVars, serverVars, checkVars
  <2>1. TypeOK'
    BY DEF TypeOK, Phases, WorkPcs, Transfers
  <2>2. HoldInv'
    BY DEF TypeOK, HoldInv, HoldPcs, WorkPcs
  <2>3. CommitInv'
    BY DEF TypeOK, CommitInv
  <2>4. RegistryInv'
    BY DEF TypeOK, RegistryInv, WorkPcs
  <2>5. HandleInv'
    BY DEF TypeOK, HandleInv, RunningPcs, WorkPcs
  <2> QED BY <2>1, <2>2, <2>3, <2>4, <2>5
<1>5. CASE Reserve(t)
  <2>1. CASE DestOf[t] \in active
    <3>1. pc[t] \in WorkPcs /\ pc[t] \notin HoldPcs
      BY <1>5 DEF Reserve, WorkPcs, HoldPcs
    <3>2. WorkEnds(t, FALSE)
      BY <1>5, <2>1, <3>1 DEF Reserve, WorkEnds, FinishWith, remoteVars
    <3> QED BY <3>1, <3>2, ReturnHolds
  <2>2. CASE DestOf[t] \notin active
    <3> USE <1>5, <2>2 DEF Reserve, Goto, ApplyEvent, IndInv, remoteVars,
          serverVars, checkVars
    <3>1. TypeOK'
      BY DEF TypeOK, Phases, WorkPcs, Transfers
    <3>2. HoldInv'
      <4>1. \A u \in Transfers : pc'[u] \in HoldPcs <=> u = t \/ pc[u] \in HoldPcs
        BY DEF TypeOK, HoldPcs
      <4>2. \A u \in Transfers : pc[u] \in HoldPcs => DestOf[u] # DestOf[t]
        BY DEF HoldInv
      <4> QED BY <4>1, <4>2 DEF HoldInv
    <3>3. CommitInv'
      BY DEF TypeOK, CommitInv
    <3>4. RegistryInv' /\ HandleInv'
      BY AdvanceHolds DEF WorkPcs
    <3> QED BY <3>1, <3>2, <3>3, <3>4
  <2> QED BY <2>1, <2>2
<1>6. CASE CopyDone(t)
  <2> USE <1>6 DEF CopyDone, Goto, ApplyEvent, IndInv, jobVars, remoteVars, serverVars, checkVars
  <2>1. TypeOK'
    BY DEF TypeOK, Phases, WorkPcs, Transfers
  <2>2. HoldInv'
    BY DEF TypeOK, HoldInv, HoldPcs, WorkPcs
  <2>3. CommitInv'
    BY DEF TypeOK, CommitInv
  <2>4. PICK label \in WorkPcs : pc' = [pc EXCEPT ![t] = label]
    <3>1. CASE t \in OneScript
      BY <3>1 DEF TypeOK, WorkPcs
    <3>2. CASE t \notin OneScript
      BY <3>2 DEF WorkPcs
    <3> QED BY <3>1, <3>2
  <2>5. RegistryInv' /\ HandleInv'
    BY <2>4, AdvanceHolds DEF WorkPcs
  <2> QED BY <2>1, <2>2, <2>3, <2>5
<1>7. CASE StreamLost(t)
  <2>1. CASE t \in Puts
    <3>1. pc[t] \in WorkPcs /\ t \in Streamed /\ WorkEnds(t, TRUE)
      BY <1>7, <2>1 DEF StreamLost, WorkPcs
    <3> QED BY <3>1, ReturnHolds
  <2>2. CASE t \notin Puts
    <3>1. /\ pc[t] = "staging" /\ t \in Streamed
          /\ pc' = [pc EXCEPT ![t] = "finalizing"]
          /\ ApplyEvent(t, "finalizing")
          /\ UNCHANGED <<stop, ended, expired, remoteVars, registry, active,
                         serverVars, checkVars>>
      BY <1>7, <2>2 DEF StreamLost, Goto
    <3>2. TypeOK'
      BY <3>1 DEF IndInv, TypeOK, Phases, WorkPcs, Transfers, ApplyEvent, remoteVars,
         serverVars, checkVars
    <3>3. HoldInv'
      BY <3>1, CommitKeepsHold
    <3>4. CommitInv'
      BY <3>1 DEF IndInv, TypeOK, CommitInv, ApplyEvent, remoteVars
    <3>5. RegistryInv' /\ HandleInv'
      BY <3>1, AdvanceHolds DEF WorkPcs
    <3> QED BY <3>2, <3>3, <3>4, <3>5 DEF IndInv
  <2> QED BY <2>1, <2>2
<1>8. CASE Install(t)
  <2>1. /\ t \in Transfers /\ installed' = installed \cup {t}
        /\ pc[t] \in WorkPcs
        /\ UNCHANGED <<pc, stop, jobVars, whole, orphans, registry, active, serverVars, checkVars>>
    BY <1>8 DEF Install, Commits, CommitPc, WorkPcs
  <2>2. TypeOK'
    <3>1. t \notin orphans
      BY <2>1 DEF IndInv, CommitInv, WorkPcs
    <3> QED BY <2>1, <3>1 DEF IndInv, TypeOK, jobVars, serverVars, checkVars
  <2>3. HoldInv' /\ CommitInv' /\ RegistryInv' /\ HandleInv'
    BY <2>1 DEF IndInv, HoldInv, CommitInv, RegistryInv, HandleInv, jobVars, serverVars, checkVars
  <2> QED BY <2>2, <2>3 DEF IndInv
<1>9. CASE WorkSucceeds(t)
  <2>1. pc[t] \in WorkPcs /\ t \in installed /\ WorkEnds(t, TRUE)
    BY <1>9 DEF WorkSucceeds, SucceedIf, CommitPc, WorkPcs
  <2>2. t \in Streamed \/ t \in whole
    BY <1>9 DEF WorkSucceeds, SucceedIf, CommitPc, OneScript, IndInv, CommitInv
  <2> QED BY <2>1, <2>2, ReturnHolds
<1>10. CASE WorkFails(t)
  BY <1>10, ReturnHolds DEF WorkFails
<1>11. CASE \E reason \in {"cancelled", "timed_out"} : StopWaiting(t, reason)
  BY <1>11 DEF StopWaiting, IndInv, TypeOK, HoldInv, CommitInv, RegistryInv, HandleInv,
     jobVars, remoteVars, serverVars, checkVars
<1>12. CASE GraceElapses(t)
  BY <1>12, DropHolds DEF GraceElapses, GraceElapsesIf
<1>13. CASE OrphanInstalls(t)
  BY <1>13 DEF OrphanInstalls, IndInv, TypeOK, HoldInv, CommitInv, RegistryInv, HandleInv,
     jobVars, serverVars, checkVars
<1>14. CASE OrphanDies(t)
  BY <1>14 DEF OrphanDies, IndInv, TypeOK, HoldInv, CommitInv, RegistryInv, HandleInv,
     jobVars, serverVars, checkVars
<1>15. CASE RetentionEnds(t)
  BY <1>15 DEF RetentionEnds, Age, IndInv, TypeOK, HoldInv, CommitInv, RegistryInv, HandleInv,
     remoteVars, serverVars, checkVars
<1>16. CASE AbortTask(t)
  <2>1. CASE pc[t] \in WorkPcs /\ DropWork(t)
    BY <2>1, DropHolds
  <2>2. CASE ~(pc[t] \in WorkPcs /\ DropWork(t))
    <3>1. /\ server = "draining" /\ t \in drained /\ pc[t] = "spawned"
          /\ pc' = [pc EXCEPT ![t] = "done"]
          /\ UNCHANGED <<stop, jobVars, remoteVars, registry, active, serverVars, checkVars>>
      BY <1>16, <2>2 DEF AbortTask, Goto
    <3> USE DEF IndInv, jobVars, remoteVars, serverVars, checkVars
    <3>2. TypeOK'
      BY <3>1 DEF TypeOK
    <3>3. HoldInv'
      BY <3>1 DEF TypeOK, HoldInv, HoldPcs
    <3>4. CommitInv'
      BY <3>1 DEF TypeOK, CommitInv
    <3>5. RegistryInv'
      BY <3>1 DEF TypeOK, RegistryInv, Transfers
    <3>6. HandleInv'
      BY <3>1 DEF TypeOK, HandleInv, RunningPcs, WorkPcs, Transfers
    <3> QED BY <3>2, <3>3, <3>4, <3>5, <3>6
  <2> QED BY <2>1, <2>2
<1> QED BY <1>1, <1>2, <1>3, <1>4, <1>5, <1>6, <1>7, <1>8, <1>9, <1>10, <1>11, <1>12,
           <1>13, <1>14, <1>15, <1>16 DEF Working

(* The steps of checks and of shutdown keep the invariant. *)
LEMMA OtherStepHolds ==
    ASSUME IndInv,
           \/ \E c \in Checks : CheckLooks(c) \/ CheckWaited(c) \/ CheckCancelled(c)
           \/ ServiceEnds \/ CancelTransfers \/ TakeTasks \/ CloseConnection \/ Exit
    PROVE  IndInv'
<1> USE TransferAssumption DEF IndInv, jobVars, remoteVars, serverVars, checkVars
<1>1. ASSUME NEW c \in Checks, CheckLooks(c) PROVE IndInv'
  <2> DEFINE seen == IF JobOf[c] \in Unexpired THEN Snapshot(JobOf[c]) ELSE "missing"
  <2>0. seen \in {"missing", "running", "ended"}
    BY DEF Snapshot
  <2>1. TypeOK'
    BY <1>1, <2>0 DEF CheckLooks, TypeOK, Unexpired
  <2>2. HoldInv' /\ CommitInv' /\ HandleInv'
    BY <1>1 DEF CheckLooks, HoldInv, CommitInv, HandleInv
  <2>3. RegistryInv'
    <3>1. seen = "missing" => JobOf[c] \in expired
      BY <1>1 DEF CheckLooks, RegistryInv, Unexpired, Snapshot
    <3>2. \A d \in Checks : answer'[d] = IF d = c THEN seen ELSE answer[d]
      BY <1>1 DEF CheckLooks, TypeOK
    <3>3. registry' = registry \ expired /\ UNCHANGED <<pc, expired>>
      BY <1>1 DEF CheckLooks, Unexpired
    <3> HIDE DEF seen
    <3> QED BY <3>1, <3>2, <3>3 DEF RegistryInv
  <2> QED BY <2>1, <2>2, <2>3
<1>2. ASSUME NEW c \in Checks, CheckWaited(c) PROVE IndInv'
  <2>1. TypeOK'
    BY <1>2 DEF CheckWaited, TypeOK, Unexpired, Snapshot
  <2>2. HoldInv' /\ CommitInv' /\ HandleInv'
    BY <1>2 DEF CheckWaited, HoldInv, CommitInv, HandleInv
  <2>3. RegistryInv'
    <3>1. \A d \in Checks : answer'[d] = "missing" => answer[d] = "missing"
      BY <1>2 DEF CheckWaited, TypeOK, Snapshot
    <3>2. registry' = registry \ expired /\ UNCHANGED <<pc, expired>>
      BY <1>2 DEF CheckWaited, Unexpired
    <3> QED BY <3>1, <3>2 DEF RegistryInv
  <2> QED BY <2>1, <2>2, <2>3
<1>3. ASSUME NEW c \in Checks, CheckCancelled(c) PROVE IndInv'
  BY <1>3 DEF CheckCancelled, TypeOK, HoldInv, CommitInv, RegistryInv, HandleInv
<1>4. CASE ServiceEnds
  BY <1>4 DEF ServiceEnds, TypeOK, HoldInv, CommitInv, RegistryInv, HandleInv
<1>5. CASE CancelTransfers
  BY <1>5 DEF CancelTransfers, TypeOK, HoldInv, CommitInv, RegistryInv, HandleInv
<1>6. CASE TakeTasks
  BY <1>6 DEF TakeTasks, TypeOK, HoldInv, CommitInv, RegistryInv, HandleInv
<1>7. CASE CloseConnection
  BY <1>7 DEF CloseConnection, TypeOK, HoldInv, CommitInv, RegistryInv, HandleInv
<1>8. CASE Exit
  BY <1>8, StutterHolds DEF Exit
<1> QED BY <1>1, <1>2, <1>3, <1>4, <1>5, <1>6, <1>7, <1>8

(* The invariant of every reachable state. *)
THEOREM Invariance == Spec => []IndInv
<1>1. IndInv /\ [Next]_vars => IndInv'
  BY TransferStepHolds, OtherStepHolds, StutterHolds DEF Next
<1> QED BY <1>1, InitHolds, PTL DEF Spec

-----------------------------------------------------------------------------

(* Every variable of the transfer jobs keeps its type. *)
THEOREM TypeCorrect == Spec => []TypeOK
<1>1. IndInv => TypeOK
  BY DEF IndInv
<1> QED BY <1>1, Invariance, PTL

(* A destination has one in-process writer, and its reservation ends with   *)
(* that writer on every path out of run_controlled.                         *)
THEOREM SingleWriter == Spec => []OneWriter
<1>1. IndInv => OneWriter
  BY DEF IndInv, HoldInv, OneWriter
<1> QED BY <1>1, Invariance, PTL

(* Completion reported by rsync, sftp and scp transfers is true. *)
THEOREM CompletionIsTrue == Spec => []CompletedMeansInstalled
<1>1. IndInv => CompletedMeansInstalled
  BY DEF IndInv, CommitInv, CompletedMeansInstalled
<1> QED BY <1>1, Invariance, PTL

(* A job_id handed to a client is found until its retention is over. *)
THEOREM JobsStayPollable == Spec => []ToldJobsPollable
<1>1. IndInv => ToldJobsPollable
  BY DEF IndInv, RegistryInv, ToldJobsPollable
<1> QED BY <1>1, Invariance, PTL

(* Shutdown joins every task whose handle was in the list. *)
THEOREM ShutdownJoinsTasks == Spec => []NoTaskLeftBehind
<1>1. IndInv => NoTaskLeftBehind
  BY DEF IndInv, TypeOK, HandleInv, NoTaskLeftBehind, RunningPcs, WorkPcs
<1> QED BY <1>1, Invariance, PTL

-----------------------------------------------------------------------------
(* The abstract call *)

(* A result is there only when the transfer is over; what a local client    *)
(* has replaced is whole, and so is the stage of its commit that goes on.   *)
ResultInv ==
    /\ \A t \in Transfers : phase[t] \in {"completed", "failed"} => pc[t] = "done"
    /\ \A t \in Transfers \ Streamed :
          t \in installed => t \in whole /\ pc[t] \in {"finalizing", "done"}
    /\ orphans \subseteq whole \cup Streamed

(* A step of the abstract call, or none of it. *)
Allowed == Transfer!Next \/ UNCHANGED Transfer!vars

Result(t) == phase[t] \in {"completed", "failed"}

(* A step that neither replaces a destination nor gives a result. *)
LEMMA QuietStep ==
    ASSUME UNCHANGED <<whole, installed>>,
           \A t \in Transfers \ Streamed :
              phase'[t] = phase[t] \/ (~Result(t) /\ ~Result(t)')
    PROVE  Allowed
<1>1. \A t \in Transfers \ Streamed : Concluded(t)' = Concluded(t)
  BY DEF Concluded, Result
<1>2. [t \in Transfers \ Streamed |-> Concluded(t)]'
        = [t \in Transfers \ Streamed |-> Concluded(t)]
  BY <1>1
<1> QED BY <1>2 DEF Allowed, Transfer!vars

(* A transfer goes on: its phase is no result, before and after. *)
LEMMA GoesOn ==
    ASSUME IndInv, ResultInv, NEW t \in Transfers, pc[t] # "done",
           NEW p \in Phases \ {"completed", "failed"},
           phase' \in {phase, [phase EXCEPT ![t] = p]}
    PROVE  \A u \in Transfers : phase'[u] = phase[u] \/ (~Result(u) /\ ~Result(u)')
BY DEF IndInv, TypeOK, ResultInv, Result

(* The result of a transfer is given once. *)
LEMMA ResultStep ==
    ASSUME IndInv, ResultInv, NEW t \in Transfers, NEW ok \in BOOLEAN, pc[t] # "done",
           FinishWith(t, ok), UNCHANGED <<whole, installed>>,
           ok => t \in Streamed \/ t \in installed \cap whole
    PROVE  Allowed
<1> DEFINE v == IF ok THEN "done" ELSE "unknown"
<1>1. phase \in [Transfers -> Phases]
  BY DEF IndInv, TypeOK
<1>2. \A u \in Transfers : u # t => phase'[u] = phase[u]
  BY <1>1 DEF FinishWith
<1>3. CASE t \in Streamed
  BY <1>2, <1>3, QuietStep
<1>4. CASE t \notin Streamed
  <2>1. Concluded(t) = "none"
    BY DEF ResultInv, Concluded
  <2>2. Concluded(t)' = v
    BY <1>1 DEF FinishWith, Concluded
  <2>3. \A u \in Transfers \ Streamed : u # t => Concluded(u)' = Concluded(u)
    BY <1>2 DEF Concluded
  <2>4. [u \in Transfers \ Streamed |-> Concluded(u)]'
          = [[u \in Transfers \ Streamed |-> Concluded(u)] EXCEPT ![t] = v]
    BY <1>4, <2>2, <2>3
  <2>5. Transfer!Tells(t, v)
    BY <1>4, <2>1, <2>4 DEF Transfer!Tells
  <2>6. v \in Transfer!Verdicts
    BY DEF Transfer!Verdicts
  <2> QED BY <1>4, <2>5, <2>6 DEF Allowed, Transfer!Next
<1> QED BY <1>3, <1>4

(* A destination is replaced once. *)
LEMMA ReplaceStep ==
    ASSUME IndInv, ResultInv, NEW t \in Transfers, t \notin installed,
           installed' = installed \cup {t}, UNCHANGED <<whole, phase>>,
           t \in Streamed \/ t \in whole
    PROVE  Allowed
<1>1. [u \in Transfers \ Streamed |-> Concluded(u)]'
        = [u \in Transfers \ Streamed |-> Concluded(u)]
  BY DEF Concluded
<1>2. CASE t \in Streamed
  <2>1. ((installed \cap whole) \ Streamed)' = (installed \cap whole) \ Streamed
    BY <1>2
  <2> QED BY <1>1, <2>1 DEF Allowed, Transfer!vars
<1>3. CASE t \notin Streamed
  <2>1. ((installed \cap whole) \ Streamed)' = ((installed \cap whole) \ Streamed) \cup {t}
    BY <1>3
  <2>2. Concluded(t) # "never"
    BY DEF Concluded
  <2>3. Transfer!Happens(t)
    BY <1>1, <1>3, <2>1, <2>2 DEF Transfer!Happens
  <2> QED BY <1>3, <2>3 DEF Allowed, Transfer!Next
<1> QED BY <1>2, <1>3

(* The end of a transfer gives its result. *)
LEMMA EndStep ==
    ASSUME IndInv, ResultInv, NEW t \in Transfers, NEW ok \in BOOLEAN, pc[t] # "done",
           Goto(t, "done"), FinishWith(t, ok), UNCHANGED <<whole, installed>>,
           orphans' \subseteq orphans \cup ({t} \cap (whole \cup Streamed)),
           ok => t \in Streamed \/ t \in installed \cap whole
    PROVE  ResultInv' /\ Allowed
<1>1. ResultInv'
  BY DEF ResultInv, IndInv, TypeOK, Goto, FinishWith
<1>2. Allowed
  BY ResultStep
<1> QED BY <1>1, <1>2

(* The remote commit of a local client has a whole stage. *)
LEMMA CommitsWhole ==
    ASSUME IndInv
    PROVE  CommittingRemotely \subseteq whole \cup Streamed
<1> SUFFICES ASSUME NEW t \in CommittingRemotely, t \notin Streamed PROVE t \in whole
  OBVIOUS
<1>1. t \in Transfers /\ Commits(t)
  BY TransferAssumption DEF CommittingRemotely
<1> QED BY <1>1 DEF Commits, CommitPc, OneScript, IndInv, CommitInv

(* The drop of its future is an end without success. *)
LEMMA DropStep ==
    ASSUME IndInv, ResultInv, NEW t \in Transfers, pc[t] # "done", DropWork(t)
    PROVE  ResultInv' /\ Allowed
<1>1. orphans' \subseteq orphans \cup ({t} \cap (whole \cup Streamed))
  BY CommitsWhole DEF DropWork, DropWorkReleasing
<1> QED BY <1>1, EndStep DEF DropWork, DropWorkReleasing

(* Its return is one with the outcome of the work. *)
LEMMA ReturnStep ==
    ASSUME IndInv, ResultInv, NEW t \in Transfers, NEW ok \in BOOLEAN, pc[t] # "done",
           WorkEnds(t, ok), ok => t \in Streamed \/ t \in installed \cap whole
    PROVE  ResultInv' /\ Allowed
<1>1. (ok /\ stop[t] = "no") \in BOOLEAN
  OBVIOUS
<1>2. (ok /\ stop[t] = "no") => t \in Streamed \/ t \in installed \cap whole
  OBVIOUS
<1>3. orphans' \subseteq orphans \cup ({t} \cap (whole \cup Streamed))
  <2>1. PICK left \in SUBSET ({t} \cap CommittingRemotely) : orphans' = orphans \cup left
    BY DEF WorkEnds
  <2> QED BY <2>1, CommitsWhole
<1> QED BY <1>1, <1>2, <1>3, EndStep DEF WorkEnds

(* A transfer that goes on. *)
LEMMA OnwardStep ==
    ASSUME IndInv, ResultInv, NEW t \in Transfers, NEW label, label # "done",
           pc[t] # "done", pc[t] = "finalizing" => label = "finalizing",
           pc' \in {pc, [pc EXCEPT ![t] = label]},
           NEW p \in Phases \ {"completed", "failed"},
           phase' \in {phase, [phase EXCEPT ![t] = p]},
           UNCHANGED remoteVars
    PROVE  ResultInv' /\ Allowed
<1>1. \A u \in Transfers : phase'[u] = phase[u] \/ (~Result(u) /\ ~Result(u)')
  BY GoesOn
<1>2. Allowed
  BY <1>1, QuietStep DEF remoteVars
<1>3. \A u \in Transfers : pc'[u] = pc[u] \/ (u = t /\ pc'[u] = label)
  BY DEF IndInv, TypeOK
<1>4. \A u \in Transfers : Result(u)' => pc'[u] = "done"
  BY <1>1, <1>3 DEF ResultInv, Result
<1>5. \A u \in Transfers \ Streamed :
        u \in installed => u \in whole /\ pc'[u] \in {"finalizing", "done"}
  BY <1>3 DEF ResultInv
<1> QED BY <1>2, <1>4, <1>5 DEF ResultInv, Result, remoteVars

(* Every step of a transfer's handler or task. *)
LEMMA TransferStep ==
    ASSUME IndInv, ResultInv, NEW t \in Transfers,
           \/ Register(t) \/ Spawn(t) \/ StartTask(t) \/ StartForeground(t)
           \/ Working(t)
           \/ \E reason \in {"cancelled", "timed_out"} : StopWaiting(t, reason)
           \/ GraceElapses(t) \/ OrphanInstalls(t) \/ OrphanDies(t)
           \/ RetentionEnds(t) \/ AbortTask(t)
    PROVE  ResultInv' /\ Allowed
<1> USE DEF Goto, ApplyEvent, jobVars
<1>1. {"queued", "preparing", "transferring", "finalizing"}
        \subseteq Phases \ {"completed", "failed"}
  BY DEF Phases
<1>2. CASE Register(t) \/ Spawn(t) \/ StartTask(t) \/ StartForeground(t)
  BY <1>1, <1>2, OnwardStep DEF Register, Spawn, SpawnKeeping, StartTask, StartForeground
<1>3. CASE Reserve(t)
  <2>1. CASE DestOf[t] \in active
    BY <1>3, <2>1, EndStep DEF Reserve, remoteVars
  <2>2. CASE DestOf[t] \notin active
    BY <1>1, <1>3, <2>2, OnwardStep DEF Reserve
  <2> QED BY <2>1, <2>2
<1>4. CASE CopyDone(t)
  <2>1. whole' = whole \cup {t} /\ UNCHANGED <<installed, orphans>> /\ pc[t] = "staging"
    BY <1>4 DEF CopyDone
  <2>2. \A u \in Transfers : phase'[u] = phase[u] \/ (~Result(u) /\ ~Result(u)')
    BY <1>1, <1>4, <2>1, GoesOn DEF CopyDone
  <2>3. t \in Streamed \/ t \notin installed
    BY <2>1 DEF ResultInv
  <2>4. ((installed \cap whole) \ Streamed)' = (installed \cap whole) \ Streamed
    BY <2>1, <2>3
  <2>5. [u \in Transfers \ Streamed |-> Concluded(u)]'
          = [u \in Transfers \ Streamed |-> Concluded(u)]
    BY <2>2 DEF Concluded, Result
  <2>6. Allowed
    BY <2>4, <2>5 DEF Allowed, Transfer!vars
  <2>7. \A u \in Transfers : pc'[u] = pc[u] \/ (u = t /\ pc'[u] = "finalizing")
    BY <1>4 DEF CopyDone, IndInv, TypeOK
  <2>8. ResultInv'
    BY <2>1, <2>2, <2>7 DEF ResultInv, Result
  <2> QED BY <2>6, <2>8
<1>5. CASE StreamLost(t)
  <2>1. CASE t \in Puts
    BY <1>5, <2>1, ReturnStep DEF StreamLost
  <2>2. CASE t \notin Puts
    BY <1>1, <1>5, <2>2, OnwardStep DEF StreamLost
  <2> QED BY <2>1, <2>2
<1>6. CASE Install(t)
  <2>1. t \in Streamed \/ (pc[t] = "finalizing" /\ t \in whole)
    BY <1>6 DEF Install, Commits, CommitPc, OneScript, IndInv, CommitInv
  <2>2. Allowed
    BY <1>6, <2>1, ReplaceStep DEF Install, Commits
  <2>3. ResultInv'
    BY <1>6, <2>1 DEF Install, ResultInv
  <2> QED BY <2>2, <2>3
<1>7. CASE WorkSucceeds(t)
  <2>1. t \in Streamed \/ t \in installed \cap whole
    BY <1>7 DEF WorkSucceeds, SucceedIf, ResultInv
  <2> QED BY <1>7, <2>1, ReturnStep DEF WorkSucceeds, SucceedIf, CommitPc
<1>8. CASE WorkFails(t)
  BY <1>8, ReturnStep DEF WorkFails, WorkPcs
<1>9. CASE GraceElapses(t)
  BY <1>9, DropStep DEF GraceElapses, GraceElapsesIf, WorkPcs
<1>10. CASE OrphanInstalls(t)
  <2>1. t \in whole \cup Streamed /\ t \notin installed /\ pc[t] = "done"
    BY <1>10 DEF OrphanInstalls, ResultInv, IndInv, TypeOK, CommitInv
  <2>2. Allowed
    BY <1>10, <2>1, ReplaceStep DEF OrphanInstalls
  <2>3. ResultInv'
    BY <1>10, <2>1 DEF OrphanInstalls, ResultInv
  <2> QED BY <2>2, <2>3
<1>11. CASE AbortTask(t)
  <2>1. CASE pc[t] \in WorkPcs /\ DropWork(t)
    BY <2>1, DropStep DEF WorkPcs
  <2>2. CASE /\ pc[t] = "spawned" /\ pc' = [pc EXCEPT ![t] = "done"]
             /\ UNCHANGED <<jobVars, remoteVars>>
    <3>1. Allowed
      BY <2>2, QuietStep DEF remoteVars
    <3>2. ResultInv'
      BY <2>2 DEF ResultInv, remoteVars, IndInv, TypeOK
    <3> QED BY <3>1, <3>2
  <2> QED BY <1>11, <2>1, <2>2 DEF AbortTask
<1>12. ASSUME UNCHANGED <<pc, phase, whole, installed>>, orphans' \subseteq orphans
       PROVE  ResultInv' /\ Allowed
  <2>1. Allowed
    BY <1>12, QuietStep
  <2> QED BY <1>12, <2>1 DEF ResultInv
<1> QED
  BY <1>2, <1>3, <1>4, <1>5, <1>6, <1>7, <1>8, <1>9, <1>10, <1>11, <1>12
     DEF Working, StopWaiting, OrphanDies, RetentionEnds, Age, remoteVars

(* A transfer through a local client implements the abstract call: one      *)
(* replacement of the destination and one result, for any transfers.        *)
THEOREM TransfersReplaceAtMostOnce == Spec => ImplementsAtMostOnce
<1>1. Init => Transfer!Init /\ ResultInv
  BY DEF Init, Transfer!Init, Concluded, ResultInv
<1>2. IndInv /\ ResultInv /\ [Next]_vars
        => ResultInv' /\ [Transfer!Next]_(Transfer!vars)
  <2> SUFFICES ASSUME IndInv, ResultInv, [Next]_vars PROVE ResultInv' /\ Allowed
    BY DEF Allowed
  <2>1. ASSUME UNCHANGED <<pc, phase, whole, installed, orphans>>
        PROVE  ResultInv' /\ Allowed
    BY <2>1, QuietStep DEF ResultInv
  <2>2. ASSUME NEW c \in Checks, CheckLooks(c) \/ CheckWaited(c) \/ CheckCancelled(c)
        PROVE  ResultInv' /\ Allowed
    BY <2>1, <2>2 DEF CheckLooks, CheckWaited, CheckCancelled, jobVars, remoteVars
  <2>3. CASE \/ ServiceEnds \/ CancelTransfers \/ TakeTasks \/ CloseConnection \/ Exit
             \/ UNCHANGED vars
    BY <2>1, <2>3 DEF ServiceEnds, CancelTransfers, TakeTasks, CloseConnection, Exit,
       vars, jobVars, remoteVars
  <2> QED BY <2>2, <2>3, TransferStep DEF Next
<1> QED
  BY <1>1, <1>2, Invariance, PTL DEF Spec, ImplementsAtMostOnce, Transfer!Spec

-----------------------------------------------------------------------------
(* What the algorithms of PathsAndLogs compute: the key a transfer         *)
(* reserves, the local path it is held to, and the tail of a log.  Every   *)
(* loop is taken turn by turn, by induction over the number of turns.      *)

(* A set of natural numbers that is not empty has a least element. *)
LEMMA Least == ASSUME NEW T \in SUBSET Nat, T # {}
  PROVE \E n \in T : \A m \in T : n <= m
<1> DEFINE R == {ss \in Nat \X Nat : ss[1] < ss[2]}
<1>1. R = OpToRel(<, Nat)
  BY DEF OpToRel
<1>2. IsWellFoundedOn(R, Nat)
  BY <1>1, NatLessThanWellFounded
<1>3. PICK n \in T : \A m \in T : ~(<<m, n>> \in R)
  <2> HIDE DEF R
  <2> QED BY <1>2, WFMin
<1>4. \A m \in T : n <= m
  <2> SUFFICES ASSUME NEW m \in T, m < n PROVE FALSE
    OBVIOUS
  <2>1. <<m, n>> \in Nat \X Nat /\ <<m, n>>[1] < <<m, n>>[2]
    OBVIOUS
  <2>2. <<m, n>> \in R
    BY <2>1, Zenon
  <2> QED BY <1>3, <2>2
<1> QED BY <1>4

(* Induction over the natural numbers. *)
LEMMA Induct == ASSUME NEW S, 0 \in S, \A n \in Nat : n \in S => n + 1 \in S
  PROVE Nat \subseteq S
<1> SUFFICES ASSUME Nat \ S # {} PROVE FALSE
  OBVIOUS
<1>1. PICK n \in Nat \ S : \A m \in Nat \ S : n <= m
  BY Least
<1>2. n - 1 \in Nat /\ n - 1 \in S
  BY <1>1
<1> QED BY <1>1, <1>2

(* Induction up to a bound. *)
LEMMA Climb == ASSUME NEW n \in Nat, NEW S, 0 \in S, \A i \in 1..n : i - 1 \in S => i \in S
  PROVE 0..n \subseteq S
<1> DEFINE T == {i \in Nat : i <= n => i \in S}
<1>1. 0 \in T
  OBVIOUS
<1>2. ASSUME NEW i \in Nat, i \in T PROVE i + 1 \in T
  <2> SUFFICES ASSUME i + 1 <= n PROVE i + 1 \in S
    OBVIOUS
  <2>1. i + 1 \in 1..n /\ (i + 1) - 1 = i /\ i \in S
    BY <1>2
  <2> QED BY <2>1
<1>3. Nat \subseteq T
  <2> HIDE DEF T
  <2> QED BY <1>1, <1>2, Induct
<1> QED BY <1>3

LEMMA SubSeqIs ==
  ASSUME NEW S, NEW s \in Seq(S), NEW m \in 1..Len(s) + 1, NEW n \in m - 1..Len(s)
  PROVE  /\ SubSeq(s, m, n) \in Seq(S)
         /\ Len(SubSeq(s, m, n)) = n - m + 1
         /\ \A i \in 1..n - m + 1 : SubSeq(s, m, n)[i] = s[m + i - 1]
<1>1. \A i \in m..n : s[i] \in S
  BY ElementOfSeq
<1>2. m \in Int /\ n \in Int /\ (m <= n \/ n - m + 1 = 0)
  OBVIOUS
<1> QED BY <1>1, <1>2, SubSeqProperties

(* What stands where in a concatenation. *)
LEMMA ConcatIs ==
  ASSUME NEW S, NEW a \in Seq(S), NEW b \in Seq(S)
  PROVE  /\ a \o b \in Seq(S) /\ Len(a \o b) = Len(a) + Len(b)
         /\ Len(a) \in Nat /\ Len(b) \in Nat
         /\ \A i \in 1..Len(a) : (a \o b)[i] = a[i]
         /\ \A i \in 1..Len(b) : (a \o b)[Len(a) + i] = b[i]
<1>1. Len(a) \in Nat /\ Len(b) \in Nat
  BY LenProperties
<1>2. \A i \in 1..Len(a) : i \in 1..Len(a) + Len(b) /\ i <= Len(a)
  BY <1>1
<1>3. \A i \in 1..Len(b) : Len(a) + i \in 1..Len(a) + Len(b) /\ ~(Len(a) + i <= Len(a))
                            /\ Len(a) + i - Len(a) = i
  BY <1>1
<1> QED BY <1>1, <1>2, <1>3, ConcatProperties

(* Appending to what follows is appending to the whole. *)
Moves(a, b, x) == Append(a \o b, x) = a \o Append(b, x)

LEMMA AppendConcat ==
  ASSUME NEW S, NEW a \in Seq(S), NEW b \in Seq(S), NEW x \in S
  PROVE  Moves(a, b, x)
<1>1. a \o b \in Seq(S) /\ <<x>> \in Seq(S) /\ Append(b, x) \in Seq(S)
  BY ConcatProperties
<1>2. Append(a \o b, x) = (a \o b) \o <<x>> /\ Append(b, x) = b \o <<x>>
  BY <1>1, AppendIsConcat
<1>3. (a \o b) \o <<x>> = a \o (b \o <<x>>)
  BY <1>1, ConcatAssociative
<1> QED BY <1>2, <1>3 DEF Moves

(* Cutting off the last is cutting it off what follows. *)
Shortens(a, b) == Front(a \o b) = a \o Front(b)

LEMMA FrontConcat ==
  ASSUME NEW S, NEW a \in Seq(S), NEW b \in Seq(S), b # <<>>
  PROVE  Shortens(a, b)
<1> DEFINE c == a \o b
           f == SubSeq(b, 1, Len(b) - 1)
           l == SubSeq(c, 1, Len(c) - 1)
<1>1. Len(a) \in Nat /\ Len(b) \in Nat /\ Len(b) # 0
  BY EmptySeq, LenProperties
<1>2. c \in Seq(S) /\ Len(c) = Len(a) + Len(b)
      /\ (\A i \in 1..Len(a) : c[i] = a[i]) /\ \A i \in 1..Len(b) : c[Len(a) + i] = b[i]
  BY ConcatIs
<1>3. f \in Seq(S) /\ Len(f) = Len(b) - 1 /\ \A i \in 1..Len(b) - 1 : f[i] = b[i]
  <2>1. 1 \in 1..Len(b) + 1 /\ Len(b) - 1 \in 1 - 1..Len(b) /\ (Len(b) - 1) - 1 + 1 = Len(b) - 1
        /\ \A i \in 1..Len(b) - 1 : 1 + i - 1 = i
    BY <1>1
  <2> QED BY <2>1, SubSeqIs
<1> HIDE DEF c, f
<1>4. l \in Seq(S) /\ Len(l) = Len(c) - 1 /\ \A i \in 1..Len(c) - 1 : l[i] = c[i]
  <2>1. 1 \in 1..Len(c) + 1 /\ Len(c) - 1 \in 1 - 1..Len(c) /\ (Len(c) - 1) - 1 + 1 = Len(c) - 1
        /\ \A i \in 1..Len(c) - 1 : 1 + i - 1 = i
    BY <1>1, <1>2
  <2> QED BY <1>2, <2>1, SubSeqIs
<1>5. a \o f \in Seq(S) /\ Len(a \o f) = Len(a) + Len(f)
      /\ (\A i \in 1..Len(a) : (a \o f)[i] = a[i])
      /\ \A i \in 1..Len(f) : (a \o f)[Len(a) + i] = f[i]
  <2>1. f \in Seq(S)
    BY <1>3
  <2> HIDE <1>2, <1>3, <1>4
  <2> QED BY <2>1, ConcatIs
<1> HIDE DEF l
<1>6. Len(l) = Len(a \o f)
  BY <1>1, <1>2, <1>3, <1>4, <1>5
<1>7. ASSUME NEW i \in 1..Len(l) PROVE l[i] = (a \o f)[i]
  <2>1. l[i] = c[i] /\ i \in 1..Len(a) + Len(b) - 1
    BY <1>1, <1>2, <1>4
  <2>2. CASE i <= Len(a)
    <3>1. i \in 1..Len(a)
      BY <2>2, <2>1, <1>1
    <3> QED BY <3>1, <2>1, <1>2, <1>5
  <2>3. CASE ~(i <= Len(a))
    <3>1. i - Len(a) \in 1..Len(b) - 1 /\ i - Len(a) \in 1..Len(b) /\ Len(a) + (i - Len(a)) = i
          /\ i - Len(a) \in 1..Len(f)
      BY <2>3, <2>1, <1>1, <1>3
    <3>2. c[i] = b[i - Len(a)]
      BY <3>1, <1>2
    <3>3. (a \o f)[i] = f[i - Len(a)]
      BY <3>1, <1>5
    <3> QED BY <3>1, <3>2, <3>3, <2>1, <1>3
  <2> QED BY <2>2, <2>3
<1>8. l = a \o f
  BY <1>4, <1>5, <1>6, <1>7, SeqEqual
<1> QED BY <1>8 DEF l, f, c, Front, Shortens

(* A loop whose turns stay in a set has a run. *)
Stays(F, V, n) == \A v \in V, i \in 1..n : F[<<v, i>>] \in V
Runs(g, F, V, b, n) ==
  g \in [0..n -> V] /\ g[0] = b /\ \A i \in 1..n : g[i] = F[<<g[i - 1], i>>]

LEMMA LoopRuns ==
  ASSUME NEW n \in Nat, NEW V, NEW b \in V, NEW F, Stays(F, V, n)
  PROVE  \E g : Runs(g, F, V, b, n)
<1> USE DEF Stays, Runs
<1> DEFINE Is(g, m) == g \in [0..m -> V] /\ g[0] = b /\ \A i \in 1..m : g[i] = F[<<g[i - 1], i>>]
           S == {m \in 0..n : \E g : Is(g, m)}
<1>1. 0 \in S
  <2>1. Is([i \in 0..0 |-> b], 0)
    OBVIOUS
  <2>2. 0 \in 0..n
    OBVIOUS
  <2> QED BY <2>1, <2>2
<1>2. ASSUME NEW m \in 1..n, m - 1 \in S PROVE m \in S
  <2>1. PICK g : Is(g, m - 1)
    BY <1>2
  <2> DEFINE f == [i \in 0..m |-> IF i = m THEN F[<<g[m - 1], m>>] ELSE g[i]]
  <2>2. Is(f, m)
    <3>1. m \in Nat /\ m # 0 /\ m - 1 \in 0..m - 1 /\ 0 \in 0..m /\ 0 # m
      OBVIOUS
    <3>2. F[<<g[m - 1], m>>] \in V
      BY <2>1, <3>1
    <3>3. f \in [0..m -> V]
      <4> SUFFICES ASSUME NEW i \in 0..m PROVE f[i] \in V
        OBVIOUS
      <4>1. i = m \/ i \in 0..m - 1
        BY <3>1
      <4> QED BY <2>1, <3>2, <4>1
    <3>4. f[0] = b
      BY <2>1, <3>1
    <3>5. ASSUME NEW i \in 1..m PROVE f[i] = F[<<f[i - 1], i>>]
      <4>1. i \in 0..m /\ i - 1 \in 0..m /\ i - 1 # m /\ (i = m \/ i \in 1..m - 1)
        BY <3>1
      <4>2. f[i - 1] = g[i - 1]
        BY <4>1
      <4>3. CASE i = m
        BY <4>1, <4>2, <4>3
      <4>4. CASE i # m
        <5>1. f[i] = g[i] /\ i \in 1..m - 1
          BY <4>1, <4>4
        <5> QED BY <2>1, <4>2, <5>1
      <4> QED BY <4>3, <4>4
    <3> QED BY <3>3, <3>4, <3>5
  <2>3. m \in 0..n
    OBVIOUS
  <2> HIDE DEF Is, f
  <2> QED BY <2>2, <2>3
<1>3. n \in S
  <2>1. n \in 0..n
    OBVIOUS
  <2> HIDE DEF S
  <2> QED BY <1>1, <1>2, <2>1, Climb
<1> QED BY <1>3

LEMMA FrontIs ==
  ASSUME NEW S, NEW s \in Seq(S), s # <<>>
  PROVE  Front(s) \in Seq(S) /\ s = Append(Front(s), s[Len(s)]) /\ s[Len(s)] \in S
<1>1. PICK t \in Seq(S), x \in S : s = Append(t, x)
  BY SequenceEmptyOrAppend
<1>2. Len(t) \in Nat /\ Len(s) = Len(t) + 1 /\ s[Len(s)] = x
  BY <1>1, LenProperties, AppendProperties
<1>3. Front(s) = t
  <2> DEFINE f == SubSeq(s, 1, Len(s) - 1)
  <2>1. 1 \in 1..Len(s) + 1 /\ Len(s) - 1 \in 1 - 1..Len(s) /\ (Len(s) - 1) - 1 + 1 = Len(t)
        /\ \A i \in 1..Len(t) : 1 + i - 1 = i
    BY <1>2
  <2>2. f \in Seq(S) /\ Len(f) = Len(t) /\ \A i \in 1..Len(t) : f[i] = s[i]
    BY <2>1, SubSeqIs
  <2>3. \A i \in 1..Len(t) : s[i] = t[i]
    BY <1>1, AppendProperties
  <2> HIDE DEF f
  <2>4. f = t
    BY <2>2, <2>3, SeqEqual
  <2> QED BY <2>4 DEF f, Front
<1> QED BY <1>1, <1>2, <1>3

(* One component of a path followed, and of a key. *)
LEMMA FollowIs ==
  ASSUME NEW a \in Seq(STRING), NEW c \in STRING
  PROVE  /\ Follow(a, c) \in Seq(STRING)
         /\ c \in {"", "."} => Follow(a, c) = a
         /\ c = ".." => Follow(a, c) = IF a = <<>> THEN a ELSE Front(a)
         /\ c \notin {"", ".", ".."} => Follow(a, c) = Append(a, c)
<1>1. c \in {"", "."} => Follow(a, c) = a
  BY DEF Follow
<1>2. c = ".." => Follow(a, c) = IF a = <<>> THEN a ELSE Front(a)
  BY DEF Follow
<1>3. c \notin {"", ".", ".."} => Follow(a, c) = Append(a, c)
  BY DEF Follow
<1>4. Append(a, c) \in Seq(STRING)
  BY AppendProperties
<1>5. a # <<>> => Front(a) \in Seq(STRING)
  BY FrontIs
<1>6. Follow(a, c) \in {a, Front(a), Append(a, c)}
      /\ (Follow(a, c) = Front(a) => a # <<>> \/ Follow(a, c) \in {a, Append(a, c)})
  BY <1>1, <1>2, <1>3
<1>7. Follow(a, c) \in Seq(STRING)
  BY <1>4, <1>5, <1>6
<1> QED BY <1>1, <1>2, <1>3, <1>7

LEMMA NormalizeStepIs ==
  ASSUME NEW a \in Seq(STRING), NEW c \in STRING, NEW abs \in BOOLEAN
  PROVE  LET r == NormalizeStep(a, c, abs)
             named == a # <<>> /\ a[Len(a)] # ".."
         IN  /\ r \in Seq(STRING)
             /\ c \in {"", "."} => r = a
             /\ c = ".." /\ named => r = Front(a)
             /\ c = ".." /\ ~named => r = IF abs THEN a ELSE Append(a, c)
             /\ c \notin {"", ".", ".."} => r = Append(a, c)
<1> DEFINE r == NormalizeStep(a, c, abs)
           named == a # <<>> /\ a[Len(a)] # ".."
<1>1. c \in {"", "."} => r = a
  BY DEF NormalizeStep
<1>2. c = ".." /\ named => r = Front(a)
  BY DEF NormalizeStep, Last
<1>3. c = ".." /\ ~named => r = IF abs THEN a ELSE Append(a, c)
  BY DEF NormalizeStep, Last
<1>4. c \notin {"", ".", ".."} => r = Append(a, c)
  BY DEF NormalizeStep
<1>5. Append(a, c) \in Seq(STRING)
  BY AppendProperties
<1>6. a # <<>> => Front(a) \in Seq(STRING)
  BY FrontIs
<1> HIDE DEF r
<1>7. r = a \/ r = Append(a, c) \/ (r = Front(a) /\ a # <<>>)
  BY <1>1, <1>2, <1>3, <1>4
<1>8. r \in Seq(STRING)
  BY <1>5, <1>6, <1>7
<1> QED BY <1>1, <1>2, <1>3, <1>4, <1>8 DEF r

(* Path::components, turn by turn. *)
LEMMA ScannedRec ==
  ASSUME NEW path \in Seq(STRING)
  PROVE  LET k == Scanned(path)
         IN  /\ k[0] = <<>>
             /\ \A i \in 1..Len(path) :
                  k[i] = IF path[i] \in {"", "."} THEN k[i - 1] ELSE Append(k[i - 1], path[i])
             /\ \A i \in 0..Len(path) : k[i] \in Seq(STRING)
<1> DEFINE n == Len(path)
           V == Seq(STRING)
           z == <<>>
           After(b, i) == IF path[i] \in {"", "."} THEN b ELSE Append(b, path[i])
           F == [x \in V \X (1..n) |-> After(x[1], x[2])]
           Is(g) == g = [i \in 0..n |-> IF i = 0 THEN z ELSE After(g[i - 1], i)]
           k == Scanned(path)
<1>1. n \in Nat /\ z \in V
  BY LenProperties
<1>2. \A v \in V, i \in 1..n : F[<<v, i>>] = After(v, i) /\ After(v, i) \in V
  BY ElementOfSeq, AppendProperties
<1>3. \E g : Is(g)
  <2>1. Stays(F, V, n)
    BY <1>2 DEF Stays
  <2> HIDE DEF n, V, F, After, z
  <2>2. PICK g : Runs(g, F, V, z, n)
    BY <1>1, <2>1, LoopRuns
  <2>3. \A i \in 0..n : g[i] = IF i = 0 THEN z ELSE After(g[i - 1], i)
    <3>1. \A i \in 0..n : i = 0 \/ (i \in 1..n /\ i - 1 \in 0..n)
      BY <1>1
    <3> QED BY <2>2, <1>2, <3>1 DEF Runs
  <2>4. Is(g)
    BY <2>2, <2>3 DEF Runs
  <2> QED BY <2>4
<1>4. k = CHOOSE g : Is(g)
  BY DEF Scanned
<1> HIDE DEF Is
<1>5. Is(k)
  BY <1>3, <1>4
<1>6. 0 \in 0..n /\ \A i \in 1..n : i \in 0..n /\ i # 0
  BY <1>1
<1>7. k[0] = z /\ \A i \in 1..n : k[i] = After(k[i - 1], i)
  <2> HIDE DEF After, n, k, z
  <2> QED BY <1>5, <1>6 DEF Is
<1>8. \A i \in 0..n : k[i] \in V
  <2> DEFINE T == {i \in 0..n : k[i] \in V}
  <2> HIDE DEF After, n, k, z, V
  <2>1. 0 \in T
    BY <1>1, <1>6, <1>7
  <2>2. ASSUME NEW i \in 1..n, i - 1 \in T PROVE i \in T
    <3>1. k[i] = After(k[i - 1], i) /\ k[i - 1] \in V
      BY <1>7, <2>2
    <3>2. After(k[i - 1], i) \in V
      BY <1>2, <3>1
    <3> QED BY <1>6, <3>1, <3>2
  <2> HIDE DEF T
  <2>3. 0..n \subseteq T
    BY <1>1, <2>1, <2>2, Climb
  <2> QED BY <2>3 DEF T
<1> QED BY <1>7, <1>8

(* A path followed, turn by turn. *)
LEMMA StepsRec ==
  ASSUME NEW base \in Seq(STRING), NEW path \in Seq(STRING)
  PROVE  LET k == Steps(base, path)
         IN  /\ k[0] = base
             /\ \A i \in 1..Len(path) : k[i] = Follow(k[i - 1], path[i])
             /\ \A i \in 0..Len(path) : k[i] \in Seq(STRING)
<1> DEFINE n == Len(path)
           V == Seq(STRING)
           z == base
           After(b, i) == Follow(b, path[i])
           F == [x \in V \X (1..n) |-> After(x[1], x[2])]
           Is(g) == g = [i \in 0..n |-> IF i = 0 THEN z ELSE After(g[i - 1], i)]
           k == Steps(base, path)
<1>1. n \in Nat /\ z \in V
  BY LenProperties
<1>2. \A v \in V, i \in 1..n : F[<<v, i>>] = After(v, i) /\ After(v, i) \in V
  BY ElementOfSeq, FollowIs
<1>3. \E g : Is(g)
  <2>1. Stays(F, V, n)
    BY <1>2 DEF Stays
  <2> HIDE DEF n, V, F, After, z
  <2>2. PICK g : Runs(g, F, V, z, n)
    BY <1>1, <2>1, LoopRuns
  <2>3. \A i \in 0..n : g[i] = IF i = 0 THEN z ELSE After(g[i - 1], i)
    <3>1. \A i \in 0..n : i = 0 \/ (i \in 1..n /\ i - 1 \in 0..n)
      BY <1>1
    <3> QED BY <2>2, <1>2, <3>1 DEF Runs
  <2>4. Is(g)
    BY <2>2, <2>3 DEF Runs
  <2> QED BY <2>4
<1>4. k = CHOOSE g : Is(g)
  BY DEF Steps
<1> HIDE DEF Is
<1>5. Is(k)
  BY <1>3, <1>4
<1>6. 0 \in 0..n /\ \A i \in 1..n : i \in 0..n /\ i # 0
  BY <1>1
<1>7. k[0] = z /\ \A i \in 1..n : k[i] = After(k[i - 1], i)
  <2> HIDE DEF After, n, k, z
  <2> QED BY <1>5, <1>6 DEF Is
<1>8. \A i \in 0..n : k[i] \in V
  <2> DEFINE T == {i \in 0..n : k[i] \in V}
  <2> HIDE DEF After, n, k, z, V
  <2>1. 0 \in T
    BY <1>1, <1>6, <1>7
  <2>2. ASSUME NEW i \in 1..n, i - 1 \in T PROVE i \in T
    <3>1. k[i] = After(k[i - 1], i) /\ k[i - 1] \in V
      BY <1>7, <2>2
    <3>2. After(k[i - 1], i) \in V
      BY <1>2, <3>1
    <3> QED BY <1>6, <3>1, <3>2
  <2> HIDE DEF T
  <2>3. 0..n \subseteq T
    BY <1>1, <2>1, <2>2, Climb
  <2> QED BY <2>3 DEF T
<1> QED BY <1>7, <1>8

(* The loop of normalize_remote_path, turn by turn. *)
LEMMA NormalizedRec ==
  ASSUME NEW path \in Seq(STRING)
  PROVE  LET k == Normalized(path)
         IN  /\ k[0] = <<>>
             /\ \A i \in 1..Len(path) :
                  k[i] = NormalizeStep(k[i - 1], path[i], Absolute(path))
             /\ \A i \in 0..Len(path) : k[i] \in Seq(STRING)
<1> DEFINE n == Len(path)
           V == Seq(STRING)
           z == <<>>
           After(b, i) == NormalizeStep(b, path[i], Absolute(path))
           F == [x \in V \X (1..n) |-> After(x[1], x[2])]
           Is(g) == g = [i \in 0..n |-> IF i = 0 THEN z ELSE After(g[i - 1], i)]
           k == Normalized(path)
<1>1. n \in Nat /\ z \in V
  BY LenProperties
<1>2. \A v \in V, i \in 1..n : F[<<v, i>>] = After(v, i) /\ After(v, i) \in V
  <2>1. Absolute(path) \in BOOLEAN
    BY DEF Absolute
  <2> QED BY <2>1, ElementOfSeq, NormalizeStepIs
<1>3. \E g : Is(g)
  <2>1. Stays(F, V, n)
    BY <1>2 DEF Stays
  <2> HIDE DEF n, V, F, After, z
  <2>2. PICK g : Runs(g, F, V, z, n)
    BY <1>1, <2>1, LoopRuns
  <2>3. \A i \in 0..n : g[i] = IF i = 0 THEN z ELSE After(g[i - 1], i)
    <3>1. \A i \in 0..n : i = 0 \/ (i \in 1..n /\ i - 1 \in 0..n)
      BY <1>1
    <3> QED BY <2>2, <1>2, <3>1 DEF Runs
  <2>4. Is(g)
    BY <2>2, <2>3 DEF Runs
  <2> QED BY <2>4
<1>4. k = CHOOSE g : Is(g)
  BY DEF Normalized
<1> HIDE DEF Is
<1>5. Is(k)
  BY <1>3, <1>4
<1>6. 0 \in 0..n /\ \A i \in 1..n : i \in 0..n /\ i # 0
  BY <1>1
<1>7. k[0] = z /\ \A i \in 1..n : k[i] = After(k[i - 1], i)
  <2> HIDE DEF After, n, k, z
  <2> QED BY <1>5, <1>6 DEF Is
<1>8. \A i \in 0..n : k[i] \in V
  <2> DEFINE T == {i \in 0..n : k[i] \in V}
  <2> HIDE DEF After, n, k, z, V
  <2>1. 0 \in T
    BY <1>1, <1>6, <1>7
  <2>2. ASSUME NEW i \in 1..n, i - 1 \in T PROVE i \in T
    <3>1. k[i] = After(k[i - 1], i) /\ k[i - 1] \in V
      BY <1>7, <2>2
    <3>2. After(k[i - 1], i) \in V
      BY <1>2, <3>1
    <3> QED BY <1>6, <3>1, <3>2
  <2> HIDE DEF T
  <2>3. 0..n \subseteq T
    BY <1>1, <2>1, <2>2, Climb
  <2> QED BY <2>3 DEF T
<1> QED BY <1>7, <1>8

(* Whether a part occurs among the parts of a path. *)
Has(s, x) == \E j \in 1..Len(s) : s[j] = x

LEMMA HasIs ==
  ASSUME NEW s \in Seq(STRING), NEW x
  PROVE  x \in ToSet(s) <=> Has(s, x)
<1>1. DOMAIN s = 1..Len(s)
  BY LenProperties
<1> QED BY <1>1 DEF Has, ToSet

LEMMA HasAppend ==
  ASSUME NEW s \in Seq(STRING), NEW y \in STRING, NEW x
  PROVE  Has(Append(s, y), x) <=> Has(s, x) \/ y = x
<1>1. /\ Len(s) \in Nat /\ Len(Append(s, y)) = Len(s) + 1
      /\ \A i \in 1..Len(s) : Append(s, y)[i] = s[i]
      /\ Append(s, y)[Len(s) + 1] = y
  <2>1. Len(s) \in Nat
    BY LenProperties
  <2>2. Len(Append(s, y)) = Len(s) + 1
    BY AppendProperties
  <2>3. \A i \in 1..Len(s) : Append(s, y)[i] = s[i]
    BY AppendProperties
  <2>4. Append(s, y)[Len(s) + 1] = y
    BY AppendProperties
  <2> QED BY <2>1, <2>2, <2>3, <2>4
<1>2. \A j \in 1..Len(s) + 1 : j \in 1..Len(s) \/ j = Len(s) + 1
  BY <1>1
<1>3. Len(s) + 1 \in 1..Len(s) + 1 /\ \A j \in 1..Len(s) : j \in 1..Len(s) + 1
  BY <1>1
<1> QED BY <1>1, <1>2, <1>3 DEF Has

LEMMA HasConcat ==
  ASSUME NEW a \in Seq(STRING), NEW b \in Seq(STRING), NEW x
  PROVE  Has(a \o b, x) <=> Has(a, x) \/ Has(b, x)
<1>1. /\ Len(a) \in Nat /\ Len(b) \in Nat /\ Len(a \o b) = Len(a) + Len(b)
      /\ \A i \in 1..Len(a) : (a \o b)[i] = a[i]
      /\ \A i \in 1..Len(b) : (a \o b)[Len(a) + i] = b[i]
  BY ConcatIs
<1>2. \A j \in 1..Len(a) + Len(b) : j \in 1..Len(a)
                                    \/ (j - Len(a) \in 1..Len(b) /\ Len(a) + (j - Len(a)) = j)
  BY <1>1
<1>3. /\ \A j \in 1..Len(a) : j \in 1..Len(a) + Len(b)
      /\ \A j \in 1..Len(b) : Len(a) + j \in 1..Len(a) + Len(b)
  BY <1>1
<1>4. ASSUME Has(a \o b, x) PROVE Has(a, x) \/ Has(b, x)
  <2>1. PICK j \in 1..Len(a) + Len(b) : (a \o b)[j] = x
    BY <1>1, <1>4 DEF Has
  <2>2. CASE j \in 1..Len(a)
    BY <1>1, <2>1, <2>2 DEF Has
  <2>3. CASE j - Len(a) \in 1..Len(b) /\ Len(a) + (j - Len(a)) = j
    <3>1. (a \o b)[Len(a) + (j - Len(a))] = b[j - Len(a)]
      BY <1>1, <2>3
    <3>2. b[j - Len(a)] = x
      BY <2>1, <2>3, <3>1
    <3> QED BY <2>3, <3>2 DEF Has
  <2> QED BY <1>2, <2>1, <2>2, <2>3
<1>5. ASSUME Has(a, x) PROVE Has(a \o b, x)
  BY <1>1, <1>3, <1>5 DEF Has
<1>6. ASSUME Has(b, x) PROVE Has(a \o b, x)
  <2>1. PICK j \in 1..Len(b) : b[j] = x
    BY <1>6 DEF Has
  <2>2. Len(a) + j \in 1..Len(a \o b) /\ (a \o b)[Len(a) + j] = x
    BY <1>1, <1>3, <2>1
  <2> QED BY <2>2 DEF Has
<1> QED BY <1>4, <1>5, <1>6

(* Path::components keeps every part but the empty ones and ".". *)
LEMMA ComponentsHas ==
  ASSUME NEW path \in Seq(STRING)
  PROVE  /\ Components(path) \in Seq(STRING)
         /\ Has(Components(path), "..") <=> Has(path, "..")
<1> DEFINE n == Len(path)
           k == Scanned(path)
           T == {i \in 0..n : Has(k[i], "..") <=> \E j \in 1..i : path[j] = ".."}
<1>1. /\ k[0] = <<>>
      /\ \A i \in 1..n : k[i] = IF path[i] \in {"", "."} THEN k[i - 1]
                                ELSE Append(k[i - 1], path[i])
      /\ \A i \in 0..n : k[i] \in Seq(STRING)
  BY ScannedRec
<1>2. n \in Nat /\ \A i \in 1..n : path[i] \in STRING
  BY LenProperties, ElementOfSeq
<1> HIDE DEF n, k
<1>3. 0 \in T
  <2>1. ~Has(<<>>, "..") /\ 0 \in 0..n
    <3>1. Len(<<>>) = 0
      BY EmptySeq
    <3> QED BY <1>2, <3>1 DEF Has
  <2>2. ~\E j \in 1..0 : path[j] = ".."
    OBVIOUS
  <2>3. ~Has(k[0], "..")
    BY <1>1, <2>1
  <2> QED BY <2>1, <2>2, <2>3
<1>4. ASSUME NEW i \in 1..n, i - 1 \in T PROVE i \in T
  <2>1. i \in 0..n /\ i - 1 \in 0..n /\ \A j \in 1..i : j = i \/ j \in 1..i - 1
    BY <1>2
  <2>2. \A j \in 1..i - 1 : j \in 1..i
    BY <1>2
  <2>3. (\E j \in 1..i : path[j] = "..") <=> path[i] = ".." \/ \E j \in 1..i - 1 : path[j] = ".."
    BY <2>1, <2>2
  <2>4. Has(k[i], "..") <=> path[i] = ".." \/ Has(k[i - 1], "..")
    <3>1. CASE path[i] \in {"", "."}
      <4>1. path[i] # ".."
        BY <3>1
      <4> QED BY <1>1, <3>1, <4>1
    <3>2. CASE path[i] \notin {"", "."}
      <4>1. k[i] = Append(k[i - 1], path[i])
        BY <1>1, <3>2
      <4>2. k[i - 1] \in Seq(STRING) /\ path[i] \in STRING
        BY <1>1, <1>2, <2>1
      <4>3. Has(Append(k[i - 1], path[i]), "..") <=> Has(k[i - 1], "..") \/ path[i] = ".."
        BY <4>2, HasAppend
      <4> QED BY <4>1, <4>3
    <3> QED BY <3>1, <3>2
  <2> QED BY <1>4, <2>1, <2>3, <2>4
<1>5. 0..n \subseteq T
  <2> HIDE DEF T
  <2> QED BY <1>2, <1>3, <1>4, Climb
<1>6. n \in 0..n
  BY <1>2
<1>7. k[n] = Components(path)
  BY DEF Components, k, n
<1> QED BY <1>1, <1>5, <1>6, <1>7 DEF n, Has

(* Without ".." a path leads to the directory its components name. *)
LEMMA StepsDown ==
  ASSUME NEW base \in Seq(STRING), NEW path \in Seq(STRING), ~Has(path, "..")
  PROVE  Steps(base, path)[Len(path)] = base \o Components(path)
<1> DEFINE n == Len(path)
           k == Scanned(path)
           at == Steps(base, path)
           T == {i \in 0..n : at[i] = base \o k[i]}
<1>1. /\ k[0] = <<>>
      /\ \A i \in 1..n : k[i] = IF path[i] \in {"", "."} THEN k[i - 1]
                                ELSE Append(k[i - 1], path[i])
      /\ \A i \in 0..n : k[i] \in Seq(STRING)
  BY ScannedRec
<1>2. /\ at[0] = base
      /\ \A i \in 1..n : at[i] = Follow(at[i - 1], path[i])
      /\ \A i \in 0..n : at[i] \in Seq(STRING)
  BY StepsRec
<1>3. n \in Nat /\ \A i \in 1..n : path[i] \in STRING /\ path[i] # ".."
  BY LenProperties, ElementOfSeq DEF Has
<1> HIDE DEF n, k, at
<1>4. 0 \in T
  <2>1. 0 \in 0..n
    BY <1>3
  <2> QED BY <1>1, <1>2, <2>1, ConcatEmptySeq
<1>5. ASSUME NEW i \in 1..n, i - 1 \in T PROVE i \in T
  <2>1. i \in 0..n /\ i - 1 \in 0..n
    BY <1>3
  <2>2. CASE path[i] \in {"", "."}
    <3>1. Follow(at[i - 1], path[i]) = at[i - 1]
      BY <1>2, <1>3, <2>1, <2>2, FollowIs
    <3> QED BY <1>1, <1>2, <1>5, <2>1, <2>2, <3>1
  <2>3. CASE path[i] \notin {"", "."}
    <3>1. Follow(at[i - 1], path[i]) = Append(at[i - 1], path[i])
      BY <1>2, <1>3, <2>1, <2>3, FollowIs
    <3>2. Append(base \o k[i - 1], path[i]) = base \o Append(k[i - 1], path[i])
      <4>1. k[i - 1] \in Seq(STRING) /\ path[i] \in STRING
        BY <1>1, <1>3, <2>1
      <4>2. Moves(base, k[i - 1], path[i])
        BY <4>1, AppendConcat
      <4> QED BY <4>2 DEF Moves
    <3> QED BY <1>1, <1>2, <1>5, <2>1, <2>3, <3>1, <3>2
  <2> QED BY <2>2, <2>3
<1>6. 0..n \subseteq T
  <2> HIDE DEF T
  <2> QED BY <1>3, <1>4, <1>5, Climb
<1>7. n \in 0..n
  BY <1>3
<1>8. k[n] = Components(path)
  BY DEF Components, k, n
<1> QED BY <1>6, <1>7, <1>8 DEF n, at

(* A path and another after it, followed one after the other. *)
LEMMA StepsConcat ==
  ASSUME NEW base \in Seq(STRING), NEW p \in Seq(STRING), NEW q \in Seq(STRING)
  PROVE  Steps(base, p \o q)[Len(p \o q)]
           = Steps(Steps(base, p)[Len(p)], q)[Len(q)]
<1> DEFINE m == Len(p)
           n == Len(q)
           r == p \o q
           f == Steps(base, p)
           mid == f[m]
           g == Steps(mid, q)
           h == Steps(base, r)
           T == {i \in 0..m : h[i] = f[i]}
           U == {i \in 0..n : h[m + i] = g[i]}
<1>1. /\ f[0] = base
      /\ \A i \in 1..m : f[i] = Follow(f[i - 1], p[i])
      /\ \A i \in 0..m : f[i] \in Seq(STRING)
  BY StepsRec
<1>2. /\ m \in Nat /\ n \in Nat /\ r \in Seq(STRING) /\ Len(r) = m + n
      /\ \A i \in 1..m : r[i] = p[i]
      /\ \A i \in 1..n : r[m + i] = q[i]
  BY ConcatIs
<1>3. mid \in Seq(STRING)
  <2>1. m \in 0..m
    BY <1>2
  <2> QED BY <1>1, <2>1
<1> HIDE DEF m, n, r, f, mid
<1>4. /\ g[0] = mid
      /\ \A i \in 1..n : g[i] = Follow(g[i - 1], q[i])
  BY <1>3, StepsRec DEF n
<1>5. /\ h[0] = base
      /\ \A i \in 1..m + n : h[i] = Follow(h[i - 1], r[i])
  <2>1. r \in Seq(STRING) /\ Len(r) = m + n
    BY <1>2
  <2>2. h[0] = base /\ \A i \in 1..Len(r) : h[i] = Follow(h[i - 1], r[i])
    BY <2>1, StepsRec
  <2> QED BY <2>1, <2>2
<1> HIDE DEF g, h
<1>6. 0 \in T
  BY <1>1, <1>2, <1>5
<1>7. ASSUME NEW i \in 1..m, i - 1 \in T PROVE i \in T
  <2>1. i \in 0..m /\ i \in 1..m + n
    BY <1>2
  <2> QED BY <1>1, <1>2, <1>5, <1>7, <2>1
<1>8. 0..m \subseteq T
  <2> HIDE DEF T
  <2> QED BY <1>2, <1>6, <1>7, Climb
<1>9. 0 \in U
  <2>1. m \in 0..m /\ m + 0 = m /\ 0 \in 0..n
    BY <1>2
  <2>2. h[m] = f[m]
    BY <1>8, <2>1
  <2> QED BY <1>4, <2>1, <2>2 DEF mid
<1>10. ASSUME NEW i \in 1..n, i - 1 \in U PROVE i \in U
  <2>1. i \in 0..n /\ m + i \in 1..m + n /\ (m + i) - 1 = m + (i - 1)
    BY <1>2
  <2>2. h[m + i] = Follow(h[m + (i - 1)], r[m + i])
    BY <1>5, <2>1
  <2> QED BY <1>2, <1>4, <1>10, <2>1, <2>2
<1>11. 0..n \subseteq U
  <2> HIDE DEF U
  <2> QED BY <1>2, <1>9, <1>10, Climb
<1>12. n \in 0..n
  BY <1>2
<1>13. h[m + n] = g[n]
  BY <1>11, <1>12
<1> QED BY <1>2, <1>13 DEF h, g, mid, f, r, m, n

LEMMA PrefixIs ==
  ASSUME NEW s \in Seq(STRING), NEW t \in Seq(STRING)
  PROVE  IsPrefix(s, t) <=> Len(s) <= Len(t) /\ \A i \in 1..Len(s) : s[i] = t[i]
<1>1. Len(s) \in Nat /\ Len(t) \in Nat
  BY LenProperties
<1> DEFINE l == Len(s)
           a == SubSeq(s, 1, l)
           b == SubSeq(t, 1, l)
<1>2. CASE ~(Len(s) <= Len(t))
  BY <1>2 DEF IsPrefix
<1>3. CASE Len(s) <= Len(t)
  <2>1. 1 \in 1..Len(s) + 1 /\ 1 \in 1..Len(t) + 1 /\ l \in 1 - 1..Len(s) /\ l \in 1 - 1..Len(t)
        /\ l - 1 + 1 = l /\ \A i \in 1..l : 1 + i - 1 = i
    BY <1>1, <1>3
  <2>2. a \in Seq(STRING) /\ Len(a) = l /\ \A i \in 1..l : a[i] = s[i]
    BY <2>1, SubSeqIs
  <2>3. b \in Seq(STRING) /\ Len(b) = l /\ \A i \in 1..l : b[i] = t[i]
    BY <2>1, SubSeqIs
  <2> HIDE DEF a, b, l
  <2>4. a = b <=> \A i \in 1..l : s[i] = t[i]
    <3>1. ASSUME \A i \in 1..l : s[i] = t[i] PROVE a = b
      BY <2>2, <2>3, <3>1, SeqEqual
    <3> QED BY <2>2, <2>3, <3>1
  <2> QED BY <1>3, <2>4 DEF IsPrefix, a, b, l
<1> QED BY <1>2, <1>3

(* What strip_prefix leaves of the components. *)
LEMMA BelowIs ==
  ASSUME NEW s \in Seq(STRING), NEW t \in Seq(STRING), IsPrefix(s, t)
  PROVE  LET u == SubSeq(t, Len(s) + 1, Len(t))
         IN  /\ u = <<>> <=> s = t
             /\ ~Has(s, "..") => (Has(u, "..") <=> Has(t, ".."))
<1> DEFINE u == SubSeq(t, Len(s) + 1, Len(t))
<1>1. Len(s) \in Nat /\ Len(t) \in Nat
  BY LenProperties
<1>2. Len(s) <= Len(t) /\ \A i \in 1..Len(s) : s[i] = t[i]
  BY PrefixIs
<1>3. u \in Seq(STRING) /\ Len(u) = Len(t) - Len(s)
      /\ \A i \in 1..Len(t) - Len(s) : u[i] = t[Len(s) + i]
  <2>1. Len(s) + 1 \in 1..Len(t) + 1 /\ Len(t) \in (Len(s) + 1) - 1..Len(t)
        /\ Len(t) - (Len(s) + 1) + 1 = Len(t) - Len(s)
        /\ \A i \in 1..Len(t) - Len(s) : (Len(s) + 1) + i - 1 = Len(s) + i
    BY <1>1, <1>2
  <2> QED BY <2>1, SubSeqIs
<1> HIDE DEF u
<1>4. u = <<>> <=> s = t
  <2>1. ASSUME u = <<>> PROVE s = t
    <3>1. Len(u) = 0
      BY <2>1, EmptySeq
    <3>2. Len(s) = Len(t)
      BY <1>1, <1>3, <3>1
    <3> QED BY <1>2, <3>2, SeqEqual
  <2>2. ASSUME s = t PROVE u = <<>>
    <3>1. Len(u) = 0
      BY <1>1, <1>3, <2>2
    <3> QED BY <1>3, <3>1, EmptySeq
  <2> QED BY <2>1, <2>2
<1>5. ASSUME ~Has(s, "..") PROVE Has(u, "..") <=> Has(t, "..")
  <2>1. ASSUME Has(u, "..") PROVE Has(t, "..")
    <3>1. PICK j \in 1..Len(t) - Len(s) : u[j] = ".."
      BY <1>3, <2>1 DEF Has
    <3>2. t[Len(s) + j] = ".." /\ Len(s) + j \in 1..Len(t)
      BY <1>1, <1>3, <3>1
    <3> QED BY <3>2 DEF Has
  <2>2. ASSUME Has(t, "..") PROVE Has(u, "..")
    <3>1. PICK j \in 1..Len(t) : t[j] = ".."
      BY <2>2 DEF Has
    <3>2. j \notin 1..Len(s)
      BY <1>2, <1>5, <3>1 DEF Has
    <3>3. j - Len(s) \in 1..Len(t) - Len(s) /\ Len(s) + (j - Len(s)) = j
      BY <1>1, <1>2, <3>2
    <3>4. u[j - Len(s)] = ".." /\ j - Len(s) \in 1..Len(u)
      BY <1>3, <3>1, <3>3
    <3> QED BY <3>4 DEF Has
  <2> QED BY <2>1, <2>2
<1> QED BY <1>4, <1>5 DEF u

(* safe_join_local_root lets a path through exactly when it has no ".." and *)
(* names a place strictly below the root, and joins it to that place.      *)
LEMMA JoinIs ==
  ASSUME NEW path \in Seq(STRING), path # <<>>,
         LocalRoot \in Seq(STRING), Absolute(LocalRoot), ".." \notin ToSet(LocalRoot)
  PROVE  LET root == Resolve(<<>>, LocalRoot)
             place == Resolve(root, path)
             joined == SafeJoinLocalRoot(path)
         IN  /\ joined # Refused <=> IsStrictPrefix(root, place)
                                         /\ ".." \notin ToSet(path)
             /\ joined # Refused => Resolve(<<>>, joined) = place
<1> DEFINE root == Resolve(<<>>, LocalRoot)
           place == Resolve(root, path)
           joined == SafeJoinLocalRoot(path)
           parts == Components(path)
           rparts == Components(LocalRoot)
           below == SubSeq(parts, Len(rparts) + 1, Len(parts))
<1>1. <<>> \in Seq(STRING)
  BY EmptySeq
<1>2. parts \in Seq(STRING) /\ rparts \in Seq(STRING) /\ (Has(parts, "..") <=> Has(path, ".."))
      /\ ~Has(LocalRoot, "..") /\ ~Has(rparts, "..")
  BY ComponentsHas, HasIs
<1>3. root = rparts
  <2>1. root = Steps(<<>>, LocalRoot)[Len(LocalRoot)]
    BY DEF Resolve
  <2>2. root = <<>> \o rparts
    BY <1>1, <1>2, <2>1, StepsDown
  <2> HIDE DEF root, rparts
  <2> QED BY <1>2, <2>2, ConcatEmptySeq
<1>4. /\ ".." \in ToSet(path) <=> Has(path, "..")
      /\ ".." \in ToSet(parts) <=> Has(parts, "..")
  BY <1>2, HasIs
<1>5. Refused = <<>>
  BY DEF Refused
<1> HIDE DEF root, parts, rparts, joined
<1>6. CASE Absolute(path)
  <2>1. place = Steps(<<>>, path)[Len(path)]
    BY <1>6 DEF Resolve
  <2>2. path # <<"">>
    <3>1. Len(<<"">>) = 1
      OBVIOUS
    <3>2. Len(path) > 1 /\ Len(path) \in Nat
      BY <1>6, LenProperties DEF Absolute
    <3>3. Len(path) # 1
      <4> DEFINE l == Len(path)
      <4>1. l > 1 /\ l \in Nat
        BY <3>2
      <4> HIDE DEF l
      <4>2. l # 1
        BY <4>1
      <4> QED BY <4>2 DEF l
    <3> QED BY <3>1, <3>3
  <2>3. joined = IF ~IsPrefix(rparts, parts) \/ ".." \in ToSet(below) \/ below = <<>>
                 THEN <<>> ELSE path
    BY <1>5, <1>6, <2>2 DEF SafeJoinLocalRoot, joined, parts, rparts
  <2>4. ASSUME IsPrefix(rparts, parts)
        PROVE  below \in Seq(STRING) /\ (".." \in ToSet(below) <=> Has(below, ".."))
    <3>1. Len(rparts) \in Nat /\ Len(parts) \in Nat /\ Len(rparts) <= Len(parts)
      BY <1>2, <2>4, LenProperties, PrefixIs
    <3>2. Len(rparts) + 1 \in 1..Len(parts) + 1 /\ Len(parts) \in (Len(rparts) + 1) - 1..Len(parts)
      BY <3>1
    <3>3. below \in Seq(STRING)
      BY <1>2, <3>2, SubSeqIs
    <3> HIDE DEF below
    <3> QED BY <3>3, HasIs
  <2>5. IsPrefix(rparts, parts) =>
          (below = <<>> <=> rparts = parts) /\ (Has(below, "..") <=> Has(parts, ".."))
    BY <1>2, BelowIs
  <2> HIDE DEF below
  <2>6. joined # <<>> <=> IsPrefix(rparts, parts) /\ ~Has(path, "..") /\ rparts # parts
    BY <1>2, <2>3, <2>4, <2>5
  <2>7. ~Has(path, "..") => place = parts
    <3>1. ~Has(path, "..") => place = <<>> \o parts
      BY <1>1, <2>1, StepsDown DEF parts
    <3> QED BY <1>2, <3>1, ConcatEmptySeq
  <2>8. joined # <<>> => Resolve(<<>>, joined) = place
    BY <1>6, <2>1, <2>3 DEF Resolve
  <2> HIDE DEF place
  <2> QED BY <1>3, <1>4, <1>5, <2>6, <2>7, <2>8 DEF IsStrictPrefix, root, place, joined
<1>7. CASE ~Absolute(path)
  <2>1. place = Steps(root, path)[Len(path)]
    BY <1>7 DEF Resolve
  <2>2. joined = IF path = <<"">> \/ Has(path, "..") \/ parts = <<>> THEN <<>>
                 ELSE LocalRoot \o path
    BY <1>2, <1>4, <1>5, <1>7 DEF SafeJoinLocalRoot, joined, parts
  <2>3. ASSUME path = <<"">> PROVE parts = <<>>
    <3>1. Len(path) = 1 /\ path[1] = ""
      BY <2>3
    <3> DEFINE k == Scanned(path)
    <3>2. k[0] = <<>> /\ \A i \in 1..Len(path) :
            k[i] = IF path[i] \in {"", "."} THEN k[i - 1] ELSE Append(k[i - 1], path[i])
      BY ScannedRec
    <3>3. 1 \in 1..1 /\ 1 - 1 = 0
      OBVIOUS
    <3> HIDE DEF k
    <3>4. k[1] = <<>>
      BY <3>1, <3>2, <3>3
    <3> QED BY <3>1, <3>4 DEF Components, k, parts
  <2>4. ~Has(path, "..") => place = rparts \o parts
    BY <1>2, <1>3, <2>1, StepsDown DEF parts
  <2>5. /\ Len(path) \in Nat \ {0} /\ Len(LocalRoot) \in Nat /\ Len(LocalRoot) > 1
        /\ LocalRoot[1] = "" /\ LocalRoot \o path \in Seq(STRING)
        /\ Len(LocalRoot \o path) = Len(LocalRoot) + Len(path)
        /\ \A i \in 1..Len(LocalRoot) : (LocalRoot \o path)[i] = LocalRoot[i]
    <3>1. Len(path) \in Nat \ {0} /\ Len(LocalRoot) \in Nat
      BY EmptySeq, LenProperties
    <3>2. Len(LocalRoot) > 1 /\ LocalRoot[1] = ""
      BY DEF Absolute
    <3>3. /\ LocalRoot \o path \in Seq(STRING)
          /\ Len(LocalRoot \o path) = Len(LocalRoot) + Len(path)
          /\ \A i \in 1..Len(LocalRoot) : (LocalRoot \o path)[i] = LocalRoot[i]
      BY ConcatIs
    <3> QED BY <3>1, <3>2, <3>3
  <2>6. LocalRoot \o path # <<>> /\ Absolute(LocalRoot \o path)
    <3>1. Len(LocalRoot \o path) > 1 /\ 1 \in 1..Len(LocalRoot)
      <4> DEFINE l == Len(LocalRoot)
                 m == Len(path)
                 n == Len(LocalRoot \o path)
      <4>1. l \in Nat /\ m \in Nat /\ l > 1 /\ n = l + m
        BY <2>5
      <4> HIDE DEF l, m, n
      <4>2. n > 1 /\ 1 \in 1..l
        BY <4>1
      <4> QED BY <4>2 DEF l, n
    <3>2. LocalRoot \o path # <<>>
      BY <3>1, EmptySeq
    <3> QED BY <2>5, <3>1, <3>2 DEF Absolute
  <2>7. Resolve(<<>>, LocalRoot \o path) = place
    <3>1. Resolve(<<>>, LocalRoot \o path)
            = Steps(<<>>, LocalRoot \o path)[Len(LocalRoot \o path)]
      BY <2>6 DEF Resolve
    <3>2. root = Steps(<<>>, LocalRoot)[Len(LocalRoot)]
      BY DEF Resolve, root
    <3> HIDE DEF place
    <3> QED BY <1>1, <2>1, <3>1, <3>2, StepsConcat
  <2>8. ~Has(path, "..") => (IsStrictPrefix(rparts, place) <=> parts # <<>>)
    <3> SUFFICES ASSUME ~Has(path, "..")
                 PROVE  IsStrictPrefix(rparts, rparts \o parts) <=> parts # <<>>
      BY <2>4
    <3>1. rparts \o parts \in Seq(STRING) /\ Len(rparts) \in Nat /\ Len(parts) \in Nat
          /\ Len(rparts \o parts) = Len(rparts) + Len(parts)
          /\ \A i \in 1..Len(rparts) : (rparts \o parts)[i] = rparts[i]
      BY <1>2, ConcatIs
    <3>2. IsPrefix(rparts, rparts \o parts)
      <4>1. Len(rparts) <= Len(rparts \o parts)
        BY <3>1
      <4> QED BY <1>2, <3>1, <4>1, PrefixIs
    <3>3. parts = <<>> => rparts = rparts \o parts
      BY <1>2, ConcatEmptySeq
    <3>4. parts # <<>> => rparts # rparts \o parts
      <4>1. parts # <<>> => Len(parts) # 0
        BY <1>2, EmptySeq
      <4>2. Len(parts) # 0 => Len(rparts) # Len(rparts \o parts)
        BY <3>1
      <4> QED BY <4>1, <4>2
    <3> QED BY <3>2, <3>3, <3>4 DEF IsStrictPrefix
  <2> HIDE DEF place
  <2>9. joined # <<>> <=> ~Has(path, "..") /\ parts # <<>>
    BY <2>2, <2>3, <2>6
  <2>10. joined # <<>> => joined = LocalRoot \o path
    BY <2>2
  <2>11. joined # <<>> => Resolve(<<>>, joined) = place
    BY <2>7, <2>10
  <2> QED BY <1>3, <1>4, <1>5, <2>8, <2>9, <2>11 DEF root, place, joined
<1> QED BY <1>6, <1>7

-----------------------------------------------------------------------------

LEMMA FrontAt ==
  ASSUME NEW s \in Seq(STRING), s # <<>>
  PROVE  /\ Front(s) \in Seq(STRING) /\ Len(Front(s)) = Len(s) - 1
         /\ Len(s) \in Nat \ {0}
         /\ \A i \in 1..Len(s) - 1 : Front(s)[i] = s[i]
<1> DEFINE f == Front(s)
           x == s[Len(s)]
<1>1. f \in Seq(STRING) /\ s = Append(f, x) /\ x \in STRING
  BY FrontIs
<1>2. Len(f) \in Nat /\ Len(s) \in Nat \ {0}
  BY <1>1, LenProperties, EmptySeq
<1> HIDE DEF f, x
<1>3. Len(s) = Len(f) + 1
  BY <1>1, AppendProperties
<1>4. \A i \in 1..Len(f) : s[i] = f[i]
  BY <1>1, AppendProperties
<1>5. Len(s) - 1 = Len(f)
  BY <1>2, <1>3
<1> QED BY <1>1, <1>2, <1>4, <1>5 DEF f

(* Plain names that occur in a path. *)
Plain(c) == c \notin {"", ".", ".."}

From(names, path) ==
  names \in Seq(STRING)
  /\ \A j \in 1..Len(names) : Plain(names[j]) /\ Has(path, names[j])

LEMMA FromEmpty == ASSUME NEW path \in Seq(STRING) PROVE From(<<>>, path)
<1>1. <<>> \in Seq(STRING) /\ Len(<<>>) = 0
  BY EmptySeq
<1>2. 1..0 = {}
  OBVIOUS
<1> QED BY <1>1, <1>2 DEF From

LEMMA FromAppend ==
  ASSUME NEW path \in Seq(STRING), NEW names, From(names, path), NEW m \in 1..Len(path),
         Plain(path[m])
  PROVE  From(Append(names, path[m]), path)
<1> DEFINE c == path[m]
           t == Append(names, c)
<1>1. c \in STRING /\ names \in Seq(STRING) /\ Has(path, c) /\ Plain(c)
  BY ElementOfSeq DEF From, Has
<1>2. Len(names) \in Nat
  BY <1>1, LenProperties
<1>3. \A j \in 1..Len(names) : Plain(names[j]) /\ Has(path, names[j])
  BY DEF From
<1> HIDE DEF c
<1>4. t \in Seq(STRING) /\ Len(t) = Len(names) + 1
  BY <1>1, AppendProperties
<1>5. \A j \in 1..Len(names) : t[j] = names[j]
  BY <1>1, AppendProperties
<1>6. t[Len(names) + 1] = c
  BY <1>1, AppendProperties
<1>7. \A j \in 1..Len(names) + 1 : j \in 1..Len(names) \/ j = Len(names) + 1
  BY <1>2
<1> HIDE DEF t
<1>8. \A j \in 1..Len(t) : Plain(t[j]) /\ Has(path, t[j])
  BY <1>1, <1>3, <1>4, <1>5, <1>6, <1>7
<1>9. From(t, path)
  BY <1>4, <1>8 DEF From
<1> QED BY <1>9 DEF t, c

LEMMA FromFront ==
  ASSUME NEW path \in Seq(STRING), NEW names, From(names, path), names # <<>>
  PROVE  From(Front(names), path)
<1>1. names \in Seq(STRING)
  BY DEF From
<1> DEFINE f == Front(names)
<1>2. /\ f \in Seq(STRING) /\ Len(f) = Len(names) - 1 /\ Len(names) \in Nat \ {0}
      /\ \A i \in 1..Len(names) - 1 : f[i] = names[i]
  BY <1>1, FrontAt
<1>3. \A i \in 1..Len(names) - 1 : i \in 1..Len(names)
  BY <1>2
<1> HIDE DEF f
<1>4. \A i \in 1..Len(f) : Plain(f[i]) /\ Has(path, f[i])
  BY <1>2, <1>3 DEF From
<1>5. From(f, path)
  BY <1>2, <1>4 DEF From
<1> QED BY <1>5 DEF f

(* The last of some names is one of them. *)
LEMMA FromLast ==
  ASSUME NEW path \in Seq(STRING), NEW names, From(names, path), names # <<>>
  PROVE  names[Len(names)] # ".."
<1>1. Len(names) \in Nat \ {0}
  BY EmptySeq DEF From
<1>2. Len(names) \in 1..Len(names)
  BY <1>1
<1> QED BY <1>2 DEF From, Plain

(* The key of an absolute path is the place it names. *)
LEMMA NormalAbsolute ==
  ASSUME NEW path \in Seq(STRING), Absolute(path)
  PROVE  LET joined == Normalized(path)[Len(path)]
         IN  From(joined, path) /\ joined = Steps(<<>>, path)[Len(path)]
<1> DEFINE n == Len(path)
           k == Normalized(path)
           at == Steps(<<>>, path)
           T == {i \in 0..n : From(k[i], path) /\ k[i] = at[i]}
<1>1. /\ k[0] = <<>>
      /\ \A i \in 1..n : k[i] = NormalizeStep(k[i - 1], path[i], Absolute(path))
  BY NormalizedRec
<1>2. at[0] = <<>> /\ \A i \in 1..n : at[i] = Follow(at[i - 1], path[i])
  BY EmptySeq, StepsRec
<1>3. n \in Nat /\ \A i \in 1..n : path[i] \in STRING
  BY LenProperties, ElementOfSeq
<1>4. Absolute(path) = TRUE
  BY DEF Absolute
<1>5. \A m \in 1..n : m \in 1..Len(path)
  OBVIOUS
<1> HIDE DEF n, k, at
<1>6. 0 \in T
  BY <1>1, <1>2, <1>3, FromEmpty
<1>7. ASSUME NEW i \in 1..n, i - 1 \in T PROVE i \in T
  <2> DEFINE a == k[i - 1]
             c == path[i]
             r == NormalizeStep(a, c, TRUE)
             w == Follow(a, c)
  <2>1. i \in 0..n /\ From(a, path) /\ a = at[i - 1] /\ a \in Seq(STRING) /\ c \in STRING
    <3>1. i - 1 \in T /\ i \in 0..n /\ c \in STRING
      BY <1>3, <1>7
    <3> QED BY <3>1 DEF From
  <2>2. k[i] = r /\ at[i] = w
    BY <1>1, <1>2, <1>4, <2>1
  <2>3. a # <<>> => a[Len(a)] # ".."
    BY <2>1, FromLast
  <2>4. c \notin {"", ".", ".."} => From(Append(a, c), path)
    BY <1>5, <2>1, FromAppend DEF Plain
  <2>5. a # <<>> => From(Front(a), path)
    BY <2>1, FromFront
  <2> HIDE DEF a, c
  <2>6. /\ c \in {"", "."} => w = a
        /\ c = ".." => w = IF a = <<>> THEN a ELSE Front(a)
        /\ c \notin {"", ".", ".."} => w = Append(a, c)
    BY <2>1, FollowIs
  <2>7. /\ c \in {"", "."} => r = a
        /\ c = ".." /\ (a # <<>> /\ a[Len(a)] # "..") => r = Front(a)
        /\ c = ".." /\ ~(a # <<>> /\ a[Len(a)] # "..") => r = a
        /\ c \notin {"", ".", ".."} => r = Append(a, c)
    BY <2>1, NormalizeStepIs
  <2> HIDE DEF r, w
  <2>8. r = w
    BY <2>3, <2>6, <2>7
  <2>9. From(r, path)
    BY <2>1, <2>3, <2>4, <2>5, <2>7
  <2> QED BY <2>1, <2>2, <2>8, <2>9
<1>8. 0..n \subseteq T
  <2> HIDE DEF T
  <2> QED BY <1>3, <1>6, <1>7, Climb
<1>9. n \in 0..n
  BY <1>3
<1> QED BY <1>8, <1>9 DEF n, k, at

(* The ".." a relative key begins with, and a directory that many levels up. *)
Ups(k) == [j \in 1..k |-> ".."]
Cut(b, k) == IF k >= Len(b) THEN <<>> ELSE SubSeq(b, 1, Len(b) - k)

LEMMA UpsIs ==
  ASSUME NEW k \in Nat, k = 0 \/ ".." \in STRING
  PROVE  Ups(k) \in Seq(STRING) /\ Len(Ups(k)) = k /\ \A j \in 1..k : Ups(k)[j] = ".."
<1>1. Ups(k) \in [1..k -> STRING]
  <2>1. k = 0 => 1..k = {}
    OBVIOUS
  <2>2. \A j \in 1..k : ".." \in STRING
    BY <2>1
  <2> QED BY <2>2, Zenon DEF Ups
<1>2. Ups(k) \in Seq(STRING)
  BY <1>1
<1>3. Len(Ups(k)) = k
  <2>1. DOMAIN Ups(k) = 1..k /\ DOMAIN Ups(k) = 1..Len(Ups(k)) /\ Len(Ups(k)) \in Nat
    BY <1>1, <1>2, LenProperties
  <2> QED BY <2>1
<1>4. \A j \in 1..k : Ups(k)[j] = ".."
  BY DEF Ups
<1> QED BY <1>2, <1>3, <1>4

LEMMA UpsMore ==
  ASSUME NEW k \in Nat, ".." \in STRING
  PROVE  Append(Ups(k), "..") = Ups(k + 1)
<1> DEFINE x == ".."
           a == Ups(k)
           t == Append(a, x)
           u == Ups(k + 1)
<1>1. a \in Seq(STRING) /\ Len(a) = k /\ \A j \in 1..k : a[j] = x
  BY UpsIs
<1>2. k + 1 \in Nat
  OBVIOUS
<1>3. u \in Seq(STRING) /\ Len(u) = k + 1 /\ \A j \in 1..k + 1 : u[j] = x
  BY <1>2, UpsIs
<1>4. x \in STRING
  OBVIOUS
<1> HIDE DEF x, a, u
<1>5. t \in Seq(STRING) /\ Len(t) = k + 1
  BY <1>1, <1>4, AppendProperties
<1>6. \A j \in 1..k : t[j] = a[j]
  BY <1>1, <1>4, AppendProperties
<1>7. t[k + 1] = x
  BY <1>1, <1>4, AppendProperties
<1> HIDE DEF t
<1>8. \A j \in 1..k + 1 : j \in 1..k \/ j = k + 1
  OBVIOUS
<1>9. \A j \in 1..Len(t) : t[j] = u[j]
  BY <1>1, <1>3, <1>5, <1>6, <1>7, <1>8
<1>10. t = u
  BY <1>3, <1>5, <1>9, SeqEqual
<1> QED BY <1>10 DEF a, t, u, x

LEMMA CutIs ==
  ASSUME NEW b \in Seq(STRING), NEW k \in Nat
  PROVE  /\ Cut(b, k) \in Seq(STRING)
         /\ Len(b) \in Nat
         /\ Len(Cut(b, k)) = IF k >= Len(b) THEN 0 ELSE Len(b) - k
         /\ \A i \in 1..Len(Cut(b, k)) : Cut(b, k)[i] = b[i]
<1>1. Len(b) \in Nat
  BY LenProperties
<1>2. CASE k >= Len(b)
  <2>1. Cut(b, k) = <<>>
    BY <1>2 DEF Cut
  <2>2. Cut(b, k) \in Seq(STRING) /\ Len(Cut(b, k)) = 0
    BY <2>1, EmptySeq
  <2>3. 1..0 = {}
    OBVIOUS
  <2> QED BY <1>1, <1>2, <2>2, <2>3
<1>3. CASE ~(k >= Len(b))
  <2> DEFINE l == Len(b) - k
  <2>1. 1 \in 1..Len(b) + 1 /\ l \in 1 - 1..Len(b) /\ l - 1 + 1 = l
        /\ \A i \in 1..l : 1 + i - 1 = i
    BY <1>1, <1>3
  <2>2. SubSeq(b, 1, l) \in Seq(STRING) /\ Len(SubSeq(b, 1, l)) = l
        /\ \A i \in 1..l : SubSeq(b, 1, l)[i] = b[i]
    <3> HIDE DEF l
    <3> QED BY <2>1, SubSeqIs
  <2>3. Cut(b, k) = SubSeq(b, 1, l)
    BY <1>3 DEF Cut
  <2> HIDE DEF l
  <2>4. Cut(b, k) \in Seq(STRING) /\ Len(Cut(b, k)) = l /\ \A i \in 1..l : Cut(b, k)[i] = b[i]
    BY <2>2, <2>3
  <2> QED BY <1>1, <1>3, <2>4 DEF l
<1> QED BY <1>2, <1>3

LEMMA CutNone == ASSUME NEW b \in Seq(STRING) PROVE Cut(b, 0) = b
<1>1. /\ Cut(b, 0) \in Seq(STRING) /\ Len(b) \in Nat
      /\ Len(Cut(b, 0)) = IF 0 >= Len(b) THEN 0 ELSE Len(b) - 0
      /\ \A i \in 1..Len(Cut(b, 0)) : Cut(b, 0)[i] = b[i]
  BY CutIs
<1>2. Len(Cut(b, 0)) = Len(b)
  BY <1>1
<1> QED BY <1>1, <1>2, SeqEqual

(* One level more. *)
LEMMA CutMore ==
  ASSUME NEW b \in Seq(STRING), NEW k \in Nat
  PROVE  Cut(b, k + 1) = IF Cut(b, k) = <<>> THEN Cut(b, k) ELSE Front(Cut(b, k))
<1> DEFINE c == Cut(b, k)
           d == Cut(b, k + 1)
           l == Len(b)
<1>1. c \in Seq(STRING) /\ Len(c) = (IF k >= l THEN 0 ELSE l - k) /\ l \in Nat
      /\ \A i \in 1..Len(c) : c[i] = b[i]
  BY CutIs
<1>2. d \in Seq(STRING) /\ Len(d) = (IF k + 1 >= l THEN 0 ELSE l - (k + 1))
      /\ \A i \in 1..Len(d) : d[i] = b[i]
  BY CutIs
<1> HIDE DEF c, d, l
<1>3. CASE c = <<>>
  <2>1. Len(c) = 0
    BY <1>3, EmptySeq
  <2>2. Len(d) = 0
    BY <1>1, <1>2, <2>1
  <2>3. d = <<>>
    BY <1>2, <2>2, EmptySeq
  <2> QED BY <1>3, <2>3 DEF c, d
<1>4. CASE c # <<>>
  <2> DEFINE f == Front(c)
  <2>1. /\ f \in Seq(STRING) /\ Len(f) = Len(c) - 1 /\ Len(c) \in Nat \ {0}
        /\ \A i \in 1..Len(c) - 1 : f[i] = c[i]
    BY <1>1, <1>4, FrontAt
  <2> HIDE DEF f
  <2>2. Len(d) = Len(f)
    BY <1>1, <1>2, <2>1
  <2>3. \A i \in 1..Len(d) : i \in 1..Len(c) /\ i \in 1..Len(c) - 1
    BY <2>1, <2>2
  <2>4. \A i \in 1..Len(d) : d[i] = f[i]
    BY <1>1, <1>2, <2>1, <2>3
  <2>5. d = f
    BY <1>2, <2>1, <2>2, <2>4, SeqEqual
  <2> QED BY <1>4, <2>5 DEF c, d, f
<1> QED BY <1>3, <1>4

LEMMA ConcatLast ==
  ASSUME NEW a \in Seq(STRING), NEW b \in Seq(STRING), b # <<>>
  PROVE  a \o b # <<>> /\ (a \o b)[Len(a \o b)] = b[Len(b)]
<1>1. /\ Len(a \o b) = Len(a) + Len(b) /\ Len(a) \in Nat /\ Len(b) \in Nat
      /\ \A i \in 1..Len(b) : (a \o b)[Len(a) + i] = b[i]
  BY ConcatIs
<1>2. Len(b) # 0
  BY EmptySeq
<1>3. Len(b) \in 1..Len(b) /\ Len(a \o b) # 0
  BY <1>1, <1>2
<1>4. (a \o b)[Len(a) + Len(b)] = b[Len(b)]
  BY <1>1, <1>3
<1>5. a \o b # <<>>
  BY <1>3, EmptySeq
<1> QED BY <1>1, <1>4, <1>5

(* What a relative path has come to after i components: some levels up from *)
(* wherever it starts, then names.                                         *)
Walk(path, i, k, names) ==
  /\ k \in Nat /\ k <= i /\ (k = 0 \/ ".." \in STRING)
  /\ From(names, path)
  /\ Normalized(path)[i] = Ups(k) \o names
  /\ \A b \in Seq(STRING) : Steps(b, path)[i] = Cut(b, k) \o names

Walked(path, i) == \E k, names : Walk(path, i, k, names)

LEMMA WalkedStep ==
  ASSUME NEW path \in Seq(STRING), ~Absolute(path), NEW i \in 1..Len(path),
         Walked(path, i - 1)
  PROVE  Walked(path, i)
<1> DEFINE N == Normalized(path)
           c == path[i]
<1>1. Len(path) \in Nat /\ i \in Nat /\ i - 1 \in Nat /\ i - 1 < i /\ c \in STRING
      /\ i \in 1..Len(path)
  BY LenProperties, ElementOfSeq
<1>2. N[i] = NormalizeStep(N[i - 1], c, FALSE)
  <2>1. N[i] = NormalizeStep(N[i - 1], path[i], Absolute(path))
    BY NormalizedRec
  <2>2. Absolute(path) = FALSE
    BY DEF Absolute
  <2> QED BY <2>1, <2>2
<1>3. \A b \in Seq(STRING) : Steps(b, path)[i] = Follow(Steps(b, path)[i - 1], c)
  BY StepsRec
<1>4. PICK k, names : Walk(path, i - 1, k, names)
  BY DEF Walked
<1>5. k \in Nat /\ k <= i /\ k + 1 <= i /\ (k = 0 \/ ".." \in STRING) /\ From(names, path)
      /\ names \in Seq(STRING)
  <2>1. k \in Nat /\ k <= i - 1
    BY <1>4 DEF Walk
  <2>2. (k = 0 \/ ".." \in STRING) /\ From(names, path) /\ names \in Seq(STRING)
    BY <1>4 DEF Walk, From
  <2>3. k <= i /\ k + 1 <= i
    BY <1>1, <2>1
  <2> QED BY <2>1, <2>2, <2>3
<1> DEFINE u == Ups(k)
<1>6. u \in Seq(STRING) /\ Len(u) = k /\ \A j \in 1..k : u[j] = ".."
  BY <1>5, UpsIs
<1>7. N[i - 1] = u \o names
  BY <1>4 DEF Walk
<1>8. \A b \in Seq(STRING) : Steps(b, path)[i - 1] = Cut(b, k) \o names
  BY <1>4 DEF Walk
<1>9. \A b \in Seq(STRING) : Cut(b, k) \in Seq(STRING) /\ Cut(b, k) \o names \in Seq(STRING)
  BY <1>5, CutIs, ConcatProperties
<1>10. u \o names \in Seq(STRING)
  BY <1>5, <1>6, ConcatProperties
<1> DEFINE v == u \o names
<1>11. LET r == NormalizeStep(v, c, FALSE)
           named == v # <<>> /\ v[Len(v)] # ".."
       IN  /\ c \in {"", "."} => r = v
           /\ c = ".." /\ named => r = Front(v)
           /\ c = ".." /\ ~named => r = Append(v, c)
           /\ c \notin {"", ".", ".."} => r = Append(v, c)
  <2> HIDE DEF v
  <2>1. v \in Seq(STRING) /\ c \in STRING
    BY <1>1, <1>10 DEF v
  <2> HIDE DEF c
  <2> QED BY <2>1, NormalizeStepIs
<1>12. \A d \in Seq(STRING) :
         /\ c \in {"", "."} => Follow(d, c) = d
         /\ c = ".." => Follow(d, c) = IF d = <<>> THEN d ELSE Front(d)
         /\ c \notin {"", ".", ".."} => Follow(d, c) = Append(d, c)
  BY <1>1, FollowIs
<1> HIDE DEF N, c, u
<1>13. CASE c \in {"", "."}
  <2>1. N[i] = u \o names
    BY <1>2, <1>7, <1>11, <1>13
  <2>2. \A b \in Seq(STRING) : Steps(b, path)[i] = Cut(b, k) \o names
    BY <1>3, <1>8, <1>9, <1>12, <1>13
  <2>3. Walk(path, i, k, names)
    BY <1>5, <2>1, <2>2 DEF Walk, N, u
  <2> QED BY <2>3 DEF Walked
<1>14. CASE c \notin {"", ".", ".."}
  <2> DEFINE more == Append(names, c)
  <2>1. From(more, path)
    BY <1>1, <1>5, <1>14, FromAppend DEF c, Plain
  <2>2. N[i] = u \o more
    <3>1. Moves(u, names, c)
      BY <1>1, <1>5, <1>6, AppendConcat
    <3> QED BY <1>2, <1>7, <1>11, <1>14, <3>1 DEF Moves
  <2>3. ASSUME NEW b \in Seq(STRING) PROVE Steps(b, path)[i] = Cut(b, k) \o more
    <3>1. Moves(Cut(b, k), names, c)
      BY <1>1, <1>5, <1>9, AppendConcat
    <3>2. Steps(b, path)[i] = Append(Cut(b, k) \o names, c)
      BY <1>3, <1>8, <1>9, <1>12, <1>14
    <3> QED BY <3>1, <3>2 DEF Moves
  <2> HIDE DEF more
  <2>4. Walk(path, i, k, more)
    BY <1>5, <2>1, <2>2, <2>3 DEF Walk, N, u
  <2> QED BY <2>4 DEF Walked
<1>15. CASE c = ".." /\ names # <<>>
  <2> DEFINE less == Front(names)
  <2>1. From(less, path) /\ names[Len(names)] # ".."
    BY <1>5, <1>15, FromFront, FromLast
  <2>2. N[i] = u \o less
    <3>1. v # <<>> /\ v[Len(v)] = names[Len(names)]
      BY <1>5, <1>6, <1>15, ConcatLast
    <3>2. N[i] = Front(u \o names)
      <4> HIDE DEF v
      <4>1. N[i] = Front(v)
        BY <1>2, <1>7, <1>11, <1>15, <2>1, <3>1 DEF v
      <4> QED BY <4>1 DEF v
    <3>3. Shortens(u, names)
      BY <1>5, <1>6, <1>15, FrontConcat
    <3> QED BY <3>2, <3>3 DEF Shortens
  <2>3. ASSUME NEW b \in Seq(STRING) PROVE Steps(b, path)[i] = Cut(b, k) \o less
    <3> DEFINE d == Cut(b, k)
    <3>1. d \in Seq(STRING) /\ d \o names \in Seq(STRING)
      BY <1>9
    <3>2. d \o names # <<>>
      <4> HIDE DEF d
      <4> QED BY <1>5, <1>15, <3>1, ConcatLast
    <3>3. Shortens(d, names)
      <4> HIDE DEF d
      <4> QED BY <1>5, <1>15, <3>1, FrontConcat
    <3>4. Steps(b, path)[i] = Front(d \o names)
      <4>1. Steps(b, path)[i] = Follow(d \o names, c)
        BY <1>3, <1>8
      <4> HIDE DEF d
      <4> QED BY <1>12, <1>15, <3>1, <3>2, <4>1
    <3> QED BY <3>3, <3>4 DEF Shortens
  <2> HIDE DEF less
  <2>4. Walk(path, i, k, less)
    BY <1>5, <2>1, <2>2, <2>3 DEF Walk, N, u
  <2> QED BY <2>4 DEF Walked
<1>16. CASE c = ".." /\ names = <<>>
  <2>1. ".." \in STRING
    BY <1>1, <1>16 DEF c
  <2>2. u \o names = u
    BY <1>6, <1>16, ConcatEmptySeq
  <2>3. ~(u # <<>> /\ u[Len(u)] # "..")
    <3>1. CASE k = 0
      <4>1. u = <<>>
        BY <1>6, <3>1, EmptySeq
      <4> QED BY <4>1
    <3>2. CASE k # 0
      <4>1. k \in 1..k
        BY <1>5, <3>2
      <4> QED BY <1>6, <4>1
    <3> QED BY <3>1, <3>2
  <2> DEFINE w == Ups(k + 1)
  <2>4. k + 1 \in Nat /\ w \in Seq(STRING)
    <3>1. k + 1 \in Nat
      BY <1>5
    <3> QED BY <2>1, <3>1, UpsIs
  <2>5. N[i] = w \o <<>>
    <3>1. N[i] = Append(u, "..")
      BY <1>2, <1>7, <1>11, <1>16, <2>2, <2>3
    <3>2. Append(u, "..") = w
      BY <1>5, <2>1, UpsMore DEF u
    <3>3. w \o <<>> = w
      <4> HIDE DEF w
      <4> QED BY <2>4, ConcatEmptySeq
    <3> QED BY <3>1, <3>2, <3>3
  <2>6. ASSUME NEW b \in Seq(STRING) PROVE Steps(b, path)[i] = Cut(b, k + 1) \o <<>>
    <3> DEFINE d == Cut(b, k)
               e == Cut(b, k + 1)
    <3>1. d \in Seq(STRING) /\ e \in Seq(STRING)
      BY <1>5, <2>4, CutIs
    <3>2. e = IF d = <<>> THEN d ELSE Front(d)
      BY <1>5, CutMore
    <3>3. Steps(b, path)[i] = Follow(d \o <<>>, c)
      BY <1>3, <1>8, <1>16
    <3> HIDE DEF d, e
    <3>4. d \o <<>> = d /\ e \o <<>> = e
      BY <3>1, ConcatEmptySeq
    <3>5. Follow(d, c) = IF d = <<>> THEN d ELSE Front(d)
      BY <1>12, <1>16, <3>1
    <3>6. Steps(b, path)[i] = e \o <<>>
      BY <3>2, <3>3, <3>4, <3>5
    <3> QED BY <3>6 DEF e
  <2>7. From(<<>>, path)
    BY FromEmpty
  <2>8. Walk(path, i, k + 1, <<>>)
    BY <1>5, <2>1, <2>4, <2>5, <2>6, <2>7 DEF Walk, N
  <2> QED BY <2>8 DEF Walked
<1> QED BY <1>13, <1>14, <1>15, <1>16

LEMMA NormalRelative ==
  ASSUME NEW path \in Seq(STRING), ~Absolute(path)
  PROVE  Walked(path, Len(path))
<1> DEFINE n == Len(path)
           T == {i \in 0..n : Walked(path, i)}
<1>1. n \in Nat /\ n \in 0..n /\ 0 \in 0..n
  BY LenProperties
<1>2. Walked(path, 0)
  <2>1. Ups(0) = <<>> /\ <<>> \in Seq(STRING)
    <3>1. Ups(0) \in Seq(STRING) /\ Len(Ups(0)) = 0
      BY UpsIs
    <3> QED BY <3>1, EmptySeq
  <2>2. Normalized(path)[0] = <<>>
    BY NormalizedRec
  <2>3. Ups(0) \o <<>> = <<>>
    BY <2>1, ConcatEmptySeq
  <2>4. ASSUME NEW b \in Seq(STRING) PROVE Steps(b, path)[0] = Cut(b, 0) \o <<>>
    <3>1. Steps(b, path)[0] = b
      BY StepsRec
    <3>2. Cut(b, 0) = b
      BY CutNone
    <3>3. b \o <<>> = b
      BY ConcatEmptySeq
    <3> QED BY <3>1, <3>2, <3>3
  <2>5. From(<<>>, path)
    BY FromEmpty
  <2>6. 0 \in Nat /\ 0 <= 0
    OBVIOUS
  <2>7. Walk(path, 0, 0, <<>>)
    BY <2>2, <2>3, <2>4, <2>5, <2>6 DEF Walk
  <2> QED BY <2>7 DEF Walked
<1>3. ASSUME NEW i \in 1..n, i - 1 \in T PROVE i \in T
  <2>1. i \in 0..n /\ i \in 1..Len(path)
    BY <1>1
  <2> QED BY <1>3, <2>1, WalkedStep
<1>4. 0..n \subseteq T
  <2>1. 0 \in T
    BY <1>1, <1>2
  <2> HIDE DEF T, n
  <2> QED BY <1>1, <1>3, <2>1, Climb
<1> QED BY <1>1, <1>4

(* Two ways to cut one sequence: what the longer front adds stands in what *)
(* follows the shorter one.                                                *)
LEMMA Overlap ==
  ASSUME NEW a \in Seq(STRING), NEW b \in Seq(STRING), NEW x \in Seq(STRING),
         NEW y \in Seq(STRING), a \o x = b \o y, Len(a) < Len(b)
  PROVE  Len(a) + 1 \in 1..Len(b) /\ 1 \in 1..Len(x) /\ x[1] = b[Len(a) + 1]
<1> DEFINE s == a \o x
<1>0. \A v \in Seq(STRING), w \in Seq(STRING) :
        /\ Len(v) \in Nat /\ Len(w) \in Nat /\ Len(v \o w) = Len(v) + Len(w)
        /\ \A i \in 1..Len(v) : (v \o w)[i] = v[i]
        /\ \A i \in 1..Len(w) : (v \o w)[Len(v) + i] = w[i]
  BY ConcatIs
<1>1. /\ Len(a) \in Nat /\ Len(x) \in Nat /\ Len(s) = Len(a) + Len(x)
      /\ \A i \in 1..Len(x) : s[Len(a) + i] = x[i]
  BY <1>0
<1>2. /\ Len(b) \in Nat /\ Len(y) \in Nat /\ Len(b \o y) = Len(b) + Len(y)
      /\ \A i \in 1..Len(b) : (b \o y)[i] = b[i]
  BY <1>0
<1>3. s = b \o y
  OBVIOUS
<1> HIDE DEF s
<1>4. Len(s) = Len(b) + Len(y) /\ \A i \in 1..Len(b) : s[i] = b[i]
  BY <1>2, <1>3
<1>5. Len(a) + 1 \in 1..Len(b) /\ 1 \in 1..Len(x)
  BY <1>1, <1>2, <1>4
<1> QED BY <1>1, <1>4, <1>5

(* A relative key tells how far up it goes and which names follow. *)
LEMMA UpsApart ==
  ASSUME NEW p \in Seq(STRING), NEW k \in Nat, NEW m \in Nat, NEW x, NEW y \in Seq(STRING),
         From(x, p), k = 0 \/ ".." \in STRING, m = 0 \/ ".." \in STRING,
         Ups(k) \o x = Ups(m) \o y
  PROVE  ~(k < m)
<1> SUFFICES ASSUME k < m PROVE FALSE
  OBVIOUS
<1> DEFINE a == Ups(k)
           b == Ups(m)
<1>1. a \in Seq(STRING) /\ Len(a) = k
  BY UpsIs
<1>2. b \in Seq(STRING) /\ Len(b) = m /\ \A j \in 1..m : b[j] = ".."
  BY UpsIs
<1>3. x \in Seq(STRING) /\ \A j \in 1..Len(x) : x[j] # ".."
  BY DEF From, Plain
<1>4. a \o x = b \o y
  OBVIOUS
<1> HIDE DEF a, b
<1>5. k + 1 \in 1..m /\ 1 \in 1..Len(x) /\ x[1] = b[k + 1]
  <2>1. Len(a) < Len(b)
    BY <1>1, <1>2
  <2>2. Len(a) + 1 \in 1..Len(b) /\ 1 \in 1..Len(x) /\ x[1] = b[Len(a) + 1]
    <3>1. a \in Seq(STRING) /\ b \in Seq(STRING) /\ x \in Seq(STRING)
      BY <1>1, <1>2, <1>3
    <3> QED BY <1>4, <2>1, <3>1, Overlap
  <2> QED BY <1>1, <1>2, <2>2
<1> QED BY <1>2, <1>3, <1>5

Alike(k, x, m, y) == Ups(k) \o x = Ups(m) \o y

LEMMA UpsSame ==
  ASSUME NEW p \in Seq(STRING), NEW q \in Seq(STRING), NEW k \in Nat, NEW m \in Nat, NEW x, NEW y,
         From(x, p), From(y, q), k = 0 \/ ".." \in STRING, m = 0 \/ ".." \in STRING,
         Alike(k, x, m, y)
  PROVE  k = m /\ x = y
<1> USE DEF Alike
<1>1. x \in Seq(STRING) /\ y \in Seq(STRING)
  BY DEF From
<1>2. ~(k < m)
  BY <1>1, UpsApart
<1>3. ~(m < k)
  <2>1. Ups(m) \o y = Ups(k) \o x
    OBVIOUS
  <2> QED BY <1>1, <2>1, UpsApart
<1>4. k = m
  BY <1>2, <1>3
<1> DEFINE u == Ups(k)
<1>5. u \in Seq(STRING) /\ u \o x = u \o y
  BY <1>4, UpsIs
<1> HIDE DEF u
<1>6. x = y
  BY <1>1, <1>5, ConcatSimplifications
<1> QED BY <1>4, <1>6

(* From a directory deep enough, none of whose names the paths use, so does *)
(* the place they lead to.                                                 *)
Deep(d, p) == d \in Seq(STRING) /\ Len(p) < Len(d) /\ \A x : ~(Has(p, x) /\ Has(d, x))

LEMMA CutDeep ==
  ASSUME NEW p \in Seq(STRING), NEW d, Deep(d, p), NEW k \in Nat, k <= Len(p)
  PROVE  /\ d \in Seq(STRING) /\ Cut(d, k) \in Seq(STRING) /\ Len(d) \in Nat
         /\ k < Len(d) /\ Len(Cut(d, k)) = Len(d) - k
         /\ \A i \in 1..Len(d) - k : Has(d, Cut(d, k)[i])
<1>1. Len(p) \in Nat /\ Len(p) < Len(d) /\ d \in Seq(STRING)
  BY LenProperties DEF Deep
<1>2. /\ Cut(d, k) \in Seq(STRING) /\ Len(d) \in Nat
      /\ Len(Cut(d, k)) = IF k >= Len(d) THEN 0 ELSE Len(d) - k
      /\ \A i \in 1..Len(Cut(d, k)) : Cut(d, k)[i] = d[i]
  BY <1>1, CutIs
<1>3. k < Len(d) /\ Len(Cut(d, k)) = Len(d) - k
  BY <1>1, <1>2
<1>4. \A i \in 1..Len(d) - k : i \in 1..Len(d)
  BY <1>2
<1> QED BY <1>1, <1>2, <1>3, <1>4 DEF Has

(* Names that follow a shorter front would have to be names of d. *)
LEMMA CutApart ==
  ASSUME NEW p \in Seq(STRING), NEW q \in Seq(STRING), NEW d, Deep(d, p), Deep(d, q),
         NEW k \in Nat, NEW m \in Nat, k <= Len(p), m <= Len(q), NEW x, NEW y \in Seq(STRING),
         From(x, p), Cut(d, k) \o x = Cut(d, m) \o y
  PROVE  ~(m < k)
<1> SUFFICES ASSUME m < k PROVE FALSE
  OBVIOUS
<1> DEFINE a == Cut(d, k)
           b == Cut(d, m)
           l == Len(d)
<1>1. a \in Seq(STRING) /\ l \in Nat /\ k < l /\ Len(a) = l - k
  BY CutDeep
<1>2. b \in Seq(STRING) /\ m < l /\ Len(b) = l - m /\ \A i \in 1..l - m : Has(d, b[i])
  BY CutDeep
<1>3. x \in Seq(STRING) /\ \A j \in 1..Len(x) : Has(p, x[j])
  BY DEF From
<1>4. a \o x = b \o y
  OBVIOUS
<1> HIDE DEF a, b, l
<1>5. Len(a) + 1 \in 1..Len(b) /\ 1 \in 1..Len(x) /\ x[1] = b[Len(a) + 1]
  <2>1. Len(a) < Len(b)
    BY <1>1, <1>2
  <2>2. a \in Seq(STRING) /\ b \in Seq(STRING) /\ x \in Seq(STRING)
    BY <1>1, <1>2, <1>3
  <2> QED BY <1>4, <2>1, <2>2, Overlap
<1>6. Has(d, x[1]) /\ Has(p, x[1])
  BY <1>2, <1>3, <1>5
<1> QED BY <1>6 DEF Deep

Meet(d, k, x, m, y) == Cut(d, k) \o x = Cut(d, m) \o y

LEMMA CutSame ==
  ASSUME NEW p \in Seq(STRING), NEW q \in Seq(STRING), NEW d, Deep(d, p), Deep(d, q),
         NEW k \in Nat, NEW m \in Nat, k <= Len(p), m <= Len(q), NEW x, NEW y,
         From(x, p), From(y, q), Meet(d, k, x, m, y)
  PROVE  k = m /\ x = y
<1> USE DEF Meet
<1>1. x \in Seq(STRING) /\ y \in Seq(STRING)
  BY DEF From
<1>2. ~(m < k)
  BY <1>1, CutApart
<1>3. ~(k < m)
  <2>1. Cut(d, m) \o y = Cut(d, k) \o x
    OBVIOUS
  <2> QED BY <1>1, <2>1, CutApart
<1>4. k = m
  BY <1>2, <1>3
<1> DEFINE u == Cut(d, k)
<1>5. u \in Seq(STRING) /\ u \o x = u \o y
  BY <1>4, CutDeep
<1> HIDE DEF u
<1>6. x = y
  BY <1>1, <1>5, ConcatSimplifications
<1> QED BY <1>4, <1>6

(* The parts normalize_remote_path joins, and how it marks the two kinds. *)
JoinedUp(p) == Normalized(p)[Len(p)]
Rooted(j) == IF j = <<>> THEN <<"">> ELSE j

LEMMA OneIs ==
  ASSUME NEW S, NEW x \in S
  PROVE  <<x>> \in Seq(S) /\ Len(<<x>>) = 1 /\ <<x>>[1] = x
OBVIOUS

LEMMA KeyAbsolute ==
  ASSUME NEW p \in Seq(STRING), Absolute(p)
  PROVE  /\ From(JoinedUp(p), p) /\ \A b : Resolve(b, p) = JoinedUp(p)
         /\ "" \in STRING /\ <<"">> \in Seq(STRING) /\ Rooted(JoinedUp(p)) \in Seq(STRING)
         /\ NormalizeRemotePath(p) = <<"">> \o Rooted(JoinedUp(p))
         /\ NormalizeRemotePath(p)[1] = ""
<1>1. From(JoinedUp(p), p) /\ JoinedUp(p) = Steps(<<>>, p)[Len(p)]
  BY NormalAbsolute DEF JoinedUp
<1>2. "" \in STRING
  <2>1. Len(p) \in Nat /\ Len(p) > 1 /\ p[1] = ""
    BY LenProperties DEF Absolute
  <2>2. 1 \in 1..Len(p)
    <3>1. Len(p) \in Nat /\ Len(p) > 1
      BY <2>1
    <3> HIDE <2>1
    <3> QED BY <3>1
  <2>3. p[1] \in STRING
    BY <2>2, ElementOfSeq
  <2> QED BY <2>1, <2>3
<1> DEFINE e == ""
           w == <<e>>
           r == Rooted(JoinedUp(p))
<1>3. w \in Seq(STRING) /\ Len(w) = 1 /\ w[1] = e
  <2>1. e \in STRING
    BY <1>2
  <2> HIDE DEF e
  <2> QED BY <2>1, OneIs, Zenon
<1>4. r \in Seq(STRING)
  <2>1. JoinedUp(p) \in Seq(STRING)
    BY <1>1 DEF From
  <2> QED BY <1>3, <2>1 DEF Rooted
<1>5. NormalizeRemotePath(p) = w \o r
  BY DEF NormalizeRemotePath, JoinedUp, Rooted
<1>6. \A b : Resolve(b, p) = JoinedUp(p)
  BY <1>1 DEF Resolve
<1> HIDE DEF w, r, e
<1>7. (w \o r)[1] = w[1]
  <2>1. 1 \in 1..Len(w)
    BY <1>3
  <2> QED BY <1>3, <1>4, <2>1, ConcatIs
<1> QED BY <1>1, <1>2, <1>3, <1>4, <1>5, <1>6, <1>7 DEF w, r, e

(* The first part of a relative key is never empty. *)
Shown(c) == c \notin {"", "."}

LEMMA KeyRelative ==
  ASSUME NEW p \in Seq(STRING), ~Absolute(p), NEW k, NEW x, Walk(p, Len(p), k, x)
  PROVE  /\ JoinedUp(p) = Ups(k) \o x
         /\ \A b \in Seq(STRING) : Resolve(b, p) = Cut(b, k) \o x
         /\ JoinedUp(p) # <<>> => Shown(JoinedUp(p)[1])
         /\ NormalizeRemotePath(p) = IF JoinedUp(p) = <<>> THEN <<".">> ELSE JoinedUp(p)
<1>1. k \in Nat /\ (k = 0 \/ ".." \in STRING) /\ From(x, p) /\ JoinedUp(p) = Ups(k) \o x
  BY DEF Walk, JoinedUp
<1>2. \A b \in Seq(STRING) : Resolve(b, p) = Cut(b, k) \o x
  BY DEF Walk, Resolve
<1>3. NormalizeRemotePath(p) = IF JoinedUp(p) = <<>> THEN <<".">> ELSE JoinedUp(p)
  BY DEF NormalizeRemotePath, JoinedUp
<1>4. x \in Seq(STRING) /\ \A j \in 1..Len(x) : Shown(x[j])
  BY <1>1 DEF From, Plain, Shown
<1> DEFINE u == Ups(k)
           t == u \o x
<1>5. u \in Seq(STRING) /\ Len(u) = k /\ \A j \in 1..k : u[j] = ".."
  BY <1>1, UpsIs
<1> HIDE DEF u
<1>6. ASSUME t # <<>> PROVE Shown(t[1])
  <2>1. CASE k = 0
    <3>1. u = <<>>
      BY <1>5, <2>1, EmptySeq
    <3>2. t = x
      BY <1>4, <3>1, ConcatEmptySeq
    <3>3. Len(x) \in Nat \ {0}
      BY <1>4, <1>6, <3>2, EmptySeq
    <3>4. 1 \in 1..Len(x)
      BY <3>3
    <3> HIDE DEF t
    <3> QED BY <1>4, <3>2, <3>4
  <2>2. CASE k # 0
    <3>1. 1 \in 1..k
      BY <1>1, <2>2
    <3>2. t[1] = u[1]
      <4>1. u \in Seq(STRING) /\ x \in Seq(STRING) /\ 1 \in 1..Len(u)
        BY <1>4, <1>5, <3>1
      <4> QED BY <4>1, ConcatIs
    <3>3. t[1] = ".."
      BY <1>5, <3>1, <3>2
    <3> HIDE DEF t
    <3> QED BY <3>3 DEF Shown
  <2> QED BY <2>1, <2>2
<1> HIDE DEF t
<1> QED BY <1>1, <1>2, <1>3, <1>6 DEF t, u

(* The keys of two absolute paths. *)
LEMMA BothAbsolute ==
  ASSUME NEW p \in Seq(STRING), NEW q \in Seq(STRING), Absolute(p), Absolute(q)
  PROVE  NormalizeRemotePath(p) = NormalizeRemotePath(q) <=> JoinedUp(p) = JoinedUp(q)
<1> DEFINE w == <<"">>
           a == JoinedUp(p)
           b == JoinedUp(q)
<1>1. w \in Seq(STRING) /\ Rooted(a) \in Seq(STRING) /\ From(a, p)
      /\ NormalizeRemotePath(p) = w \o Rooted(a)
  BY KeyAbsolute
<1>2. Rooted(b) \in Seq(STRING) /\ From(b, q) /\ NormalizeRemotePath(q) = w \o Rooted(b)
  BY KeyAbsolute
<1>3. Len(w) = 1
  OBVIOUS
<1>4. w[1] = ""
  <2> DEFINE e == ""
  <2>1. e \in {e}
    OBVIOUS
  <2> HIDE DEF e
  <2>2. <<e>>[1] = e
    BY <2>1, OneIs, Zenon
  <2> QED BY <2>2 DEF e
<1>5. 1 \in 1..1
  OBVIOUS
<1>6. \A c, o : From(c, o) => c # w
  <2> SUFFICES ASSUME NEW c, NEW o, From(c, o), c = w PROVE FALSE
    OBVIOUS
  <2>1. Plain(c[1])
    <3> HIDE DEF w
    <3> QED BY <1>3, <1>5 DEF From
  <2> QED BY <1>4, <2>1 DEF Plain
<1>7. Rooted(a) = (IF a = <<>> THEN w ELSE a) /\ Rooted(b) = (IF b = <<>> THEN w ELSE b)
  BY DEF Rooted
<1> HIDE DEF w, a, b
<1>8. Rooted(a) = Rooted(b) <=> a = b
  BY <1>1, <1>2, <1>6, <1>7
<1>9. w \o Rooted(a) = w \o Rooted(b) <=> Rooted(a) = Rooted(b)
  BY <1>1, <1>2, ConcatSimplifications
<1> QED BY <1>1, <1>2, <1>8, <1>9 DEF a, b

(* The keys of two relative paths. *)
LEMMA BothRelative ==
  ASSUME NEW p \in Seq(STRING), NEW q \in Seq(STRING), ~Absolute(p), ~Absolute(q)
  PROVE  NormalizeRemotePath(p) = NormalizeRemotePath(q) <=> JoinedUp(p) = JoinedUp(q)
<1> DEFINE w == <<".">>
           a == JoinedUp(p)
           b == JoinedUp(q)
<1>1. (a # <<>> => Shown(a[1]))
      /\ NormalizeRemotePath(p) = IF a = <<>> THEN w ELSE a
  <2>1. Walked(p, Len(p))
    BY NormalRelative
  <2>2. PICK k, x : Walk(p, Len(p), k, x)
    BY <2>1 DEF Walked
  <2> QED BY <2>2, KeyRelative
<1>2. (b # <<>> => Shown(b[1]))
      /\ NormalizeRemotePath(q) = IF b = <<>> THEN w ELSE b
  <2>1. Walked(q, Len(q))
    BY NormalRelative
  <2>2. PICK k, x : Walk(q, Len(q), k, x)
    BY <2>1 DEF Walked
  <2> QED BY <2>2, KeyRelative
<1>3. w[1] = "."
  OBVIOUS
<1> HIDE DEF w, a, b
<1>4. (a # <<>> => a # w) /\ (b # <<>> => b # w)
  BY <1>1, <1>2, <1>3 DEF Shown
<1>5. (IF a = <<>> THEN w ELSE a) = (IF b = <<>> THEN w ELSE b) <=> a = b
  BY <1>4
<1> DEFINE g == NormalizeRemotePath(p)
           h == NormalizeRemotePath(q)
<1>6. g = (IF a = <<>> THEN w ELSE a) /\ h = (IF b = <<>> THEN w ELSE b)
  BY <1>1, <1>2
<1> HIDE DEF g, h
<1>7. g = h <=> a = b
  BY <1>5, <1>6
<1> QED BY <1>7 DEF a, b, g, h

(* An absolute and a relative path never share a key. *)
LEMMA KindsApart ==
  ASSUME NEW p \in Seq(STRING), NEW q \in Seq(STRING), Absolute(p), ~Absolute(q)
  PROVE  NormalizeRemotePath(p) # NormalizeRemotePath(q)
<1> DEFINE w == <<".">>
           b == JoinedUp(q)
<1>1. NormalizeRemotePath(p)[1] = ""
  BY KeyAbsolute
<1>2. (b # <<>> => Shown(b[1]))
      /\ NormalizeRemotePath(q) = IF b = <<>> THEN w ELSE b
  <2>1. Walked(q, Len(q))
    BY NormalRelative
  <2>2. PICK k, x : Walk(q, Len(q), k, x)
    BY <2>1 DEF Walked
  <2> QED BY <2>2, KeyRelative
<1>3. w[1] = "."
  OBVIOUS
<1> HIDE DEF w, b
<1>4. NormalizeRemotePath(q)[1] # ""
  BY <1>2, <1>3 DEF Shown
<1> QED BY <1>1, <1>4

(* Nor do they name the same place from a deep directory. *)
LEMMA PlacesApart ==
  ASSUME NEW p \in Seq(STRING), NEW q \in Seq(STRING), Absolute(p), ~Absolute(q),
         NEW d, Deep(d, p), Deep(d, q)
  PROVE  Resolve(d, p) # Resolve(d, q)
<1>1. Walked(q, Len(q))
  BY NormalRelative
<1>2. PICK k, x : Walk(q, Len(q), k, x)
  BY <1>1 DEF Walked
<1> DEFINE a == JoinedUp(p)
           c == Cut(d, k)
<1>3. From(a, p) /\ Resolve(d, p) = a
  BY KeyAbsolute
<1>4. k \in Nat /\ k <= Len(q) /\ d \in Seq(STRING) /\ From(x, q)
  BY <1>2 DEF Walk, Deep
<1>5. Resolve(d, q) = c \o x
  BY <1>2, <1>4, KeyRelative
<1>6. /\ c \in Seq(STRING) /\ Len(d) \in Nat
      /\ k < Len(d) /\ Len(c) = Len(d) - k
      /\ \A i \in 1..Len(d) - k : Has(d, c[i])
  BY <1>4, CutDeep
<1>7. a \in Seq(STRING) /\ x \in Seq(STRING)
  BY <1>3, <1>4 DEF From
<1> HIDE DEF a, c
<1>8. 1 \in 1..Len(d) - k /\ 1 \in 1..Len(c)
  BY <1>4, <1>6
<1> DEFINE t == c \o x
<1>9. t[1] = c[1] /\ Len(t) = Len(c) + Len(x) /\ Len(x) \in Nat /\ Len(c) \in Nat
  <2>1. c \in Seq(STRING) /\ x \in Seq(STRING)
    BY <1>6, <1>7
  <2>2. Len(t) = Len(c) + Len(x) /\ Len(x) \in Nat /\ Len(c) \in Nat
        /\ \A i \in 1..Len(c) : t[i] = c[i]
    BY <2>1, ConcatIs
  <2> QED BY <1>8, <2>2
<1> SUFFICES ASSUME a = t PROVE FALSE
  BY <1>3, <1>5
<1> HIDE DEF t
<1>10. a[1] = c[1] /\ Len(a) = Len(c) + Len(x) /\ Len(x) \in Nat /\ Len(c) \in Nat
  BY <1>9
<1>11. 1 \in 1..Len(a)
  BY <1>8, <1>10
<1>12. Has(p, a[1]) /\ Has(d, a[1])
  BY <1>3, <1>6, <1>8, <1>10, <1>11 DEF From
<1> QED BY <1>12 DEF Deep

(* Two keys are equal exactly when the paths name one place from everywhere. *)
LEMMA KeyIs ==
  ASSUME NEW p \in Seq(STRING), NEW q \in Seq(STRING), NEW B, \A b \in B : b \in Seq(STRING),
         NEW d \in B, Deep(d, p), Deep(d, q)
  PROVE  NormalizeRemotePath(q) = NormalizeRemotePath(p)
           <=> \A b \in B : Resolve(b, p) = Resolve(b, q)
<1>1. CASE Absolute(p) /\ Absolute(q)
  <2>1. NormalizeRemotePath(p) = NormalizeRemotePath(q) <=> JoinedUp(p) = JoinedUp(q)
    BY <1>1, BothAbsolute
  <2>2. \A b : Resolve(b, p) = JoinedUp(p) /\ Resolve(b, q) = JoinedUp(q)
    BY <1>1, KeyAbsolute
  <2> QED BY <2>1, <2>2
<1>2. CASE Absolute(p) /\ ~Absolute(q)
  BY <1>2, KindsApart, PlacesApart
<1>3. CASE ~Absolute(p) /\ Absolute(q)
  BY <1>3, KindsApart, PlacesApart
<1>4. CASE ~Absolute(p) /\ ~Absolute(q)
  <2>1. NormalizeRemotePath(p) = NormalizeRemotePath(q) <=> JoinedUp(p) = JoinedUp(q)
    BY <1>4, BothRelative
  <2>2. Walked(p, Len(p)) /\ Walked(q, Len(q))
    BY <1>4, NormalRelative
  <2>3. PICK k, x : Walk(p, Len(p), k, x)
    BY <2>2 DEF Walked
  <2>4. PICK m, y : Walk(q, Len(q), m, y)
    BY <2>2 DEF Walked
  <2>5. k \in Nat /\ k <= Len(p) /\ (k = 0 \/ ".." \in STRING) /\ From(x, p)
    BY <2>3 DEF Walk
  <2>6. m \in Nat /\ m <= Len(q) /\ (m = 0 \/ ".." \in STRING) /\ From(y, q)
    BY <2>4 DEF Walk
  <2>7. JoinedUp(p) = Ups(k) \o x /\ \A b \in Seq(STRING) : Resolve(b, p) = Cut(b, k) \o x
    BY <1>4, <2>3, KeyRelative
  <2>8. JoinedUp(q) = Ups(m) \o y /\ \A b \in Seq(STRING) : Resolve(b, q) = Cut(b, m) \o y
    BY <1>4, <2>4, KeyRelative
  <2>9. ASSUME JoinedUp(p) = JoinedUp(q) PROVE k = m /\ x = y
    <3>1. Ups(k) \o x = Ups(m) \o y
      BY <2>7, <2>8, <2>9
    <3>2. Alike(k, x, m, y)
      BY <3>1 DEF Alike
    <3> QED BY <2>5, <2>6, <3>2, UpsSame
  <2>10. ASSUME \A b \in B : Resolve(b, p) = Resolve(b, q) PROVE k = m /\ x = y
    <3>1. Cut(d, k) \o x = Cut(d, m) \o y
      BY <2>7, <2>8, <2>10
    <3>2. From(x, p) /\ From(y, q) /\ k \in Nat /\ m \in Nat /\ k <= Len(p) /\ m <= Len(q)
      BY <2>5, <2>6
    <3>3. Meet(d, k, x, m, y)
      BY <3>1 DEF Meet
    <3> QED BY <3>2, <3>3, CutSame
  <2> QED BY <2>1, <2>7, <2>8, <2>9, <2>10
<1> QED BY <1>1, <1>2, <1>3, <1>4

(* What a run of a path task has computed. *)
PathInv ==
  /\ task = "reserve" => /\ input \in ClientPaths
                         /\ output = NoOutput \/ output = NormalizeRemotePath(input)
  /\ task = "join" => /\ input \in ClientPaths
                      /\ output = NoOutput \/ output = SafeJoinLocalRoot(input)

LEMMA PathInvInit == AlgInit => PathInv
BY DEF AlgInit, PathInv

LEMMA PathInvNext == PathInv /\ [AlgNext]_algVars => PathInv'
<1> SUFFICES ASSUME PathInv, [AlgNext]_algVars PROVE PathInv'
  OBVIOUS
<1>1. CASE Normalize
  BY <1>1 DEF PathInv, Normalize, Compute
<1>2. CASE Join
  BY <1>2 DEF PathInv, Join, Compute
<1>3. CASE UNCHANGED algVars
  BY <1>3 DEF PathInv, algVars
<1>4. ASSUME NEW t, t \notin {"reserve", "join"}, task = t, task' = task PROVE PathInv'
  BY <1>4 DEF PathInv
<1>5. CASE Parse
  <2>1. task = "parse" /\ task' = task
    BY <1>5 DEF Parse, Compute
  <2> QED BY <1>4, <2>1
<1>6. CASE Update
  <2>1. task = "update" /\ task' = task
    BY <1>6 DEF Update, Compute
  <2> QED BY <1>4, <2>1
<1>7. CASE Send
  <2>1. task = "send" /\ task' = task
    BY <1>7 DEF Send, Carry, Compute
  <2> QED BY <1>4, <2>1
<1>8. CASE Fetch
  <2>1. task = "fetch" /\ task' = task
    BY <1>8 DEF Fetch, Carry, Compute
  <2> QED BY <1>4, <2>1
<1>9. CASE Extract
  <2>1. task = "extract" /\ task' = task
    BY <1>9 DEF Extract, Compute
  <2> QED BY <1>4, <2>1
<1>10. CASE LogTail
  <2>1. task = "tail" /\ task' = task
    BY <1>10 DEF LogTail, Compute
  <2> QED BY <1>4, <2>1
<1> QED BY <1>1, <1>2, <1>3, <1>5, <1>6, <1>7, <1>8, <1>9, <1>10 DEF AlgNext

LEMMA PathInvExact ==
  ASSUME PathInputs, PathInv
  PROVE  PathsExact
<1>1. \A p \in ClientPaths : p \in Seq(STRING) /\ p # <<>>
  BY DEF PathInputs
<1>2. LocalRoot \in Seq(STRING) /\ Absolute(LocalRoot) /\ ".." \notin ToSet(LocalRoot)
  BY DEF PathInputs
<1>3. \A b \in Bases : b \in Seq(STRING)
  BY DEF PathInputs
<1>4. PICK d \in Bases : \A p \in ClientPaths :
        Len(p) < Len(d) /\ ToSet(p) \cap ToSet(d) = {}
  BY DEF PathInputs
<1>5. \A p \in ClientPaths : Deep(d, p)
  <2> TAKE p \in ClientPaths
  <2>1. p \in Seq(STRING) /\ d \in Seq(STRING)
    BY <1>1, <1>3
  <2>2. \A x : x \in ToSet(p) <=> Has(p, x)
    BY <2>1, HasIs
  <2>3. \A x : x \in ToSet(d) <=> Has(d, x)
    BY <2>1, HasIs
  <2> QED BY <1>4, <2>1, <2>2, <2>3 DEF Deep
<1>6. DestinationKeyExact
  <2> SUFFICES ASSUME Computed("reserve"), NEW other \in ClientPaths
               PROVE  (NormalizeRemotePath(other) = output)
                        <=> \A b \in Bases : Resolve(b, input) = Resolve(b, other)
    BY DEF DestinationKeyExact
  <2>1. input \in ClientPaths /\ output = NormalizeRemotePath(input)
    BY DEF PathInv, Computed
  <2>2. input \in Seq(STRING) /\ other \in Seq(STRING) /\ Deep(d, input) /\ Deep(d, other)
    BY <1>1, <1>5, <2>1
  <2>3. NormalizeRemotePath(other) = NormalizeRemotePath(input)
          <=> \A b \in Bases : Resolve(b, input) = Resolve(b, other)
    BY <1>3, <2>2, KeyIs
  <2> QED BY <2>1, <2>3
<1>7. JoinStaysBelow
  <2> SUFFICES ASSUME Computed("join") PROVE JoinStaysBelow
    BY DEF JoinStaysBelow
  <2>1. input \in ClientPaths /\ output = SafeJoinLocalRoot(input)
    BY DEF PathInv, Computed
  <2>2. input \in Seq(STRING) /\ input # <<>>
    BY <1>1, <2>1
  <2>3. LET root == Resolve(<<>>, LocalRoot)
            place == Resolve(root, input)
            joined == SafeJoinLocalRoot(input)
        IN  /\ joined # Refused <=> IsStrictPrefix(root, place)
                                        /\ ".." \notin ToSet(input)
            /\ joined # Refused => Resolve(<<>>, joined) = place
    BY <1>2, <2>2, JoinIs
  <2> QED BY <2>1, <2>3 DEF JoinStaysBelow
<1> QED BY <1>6, <1>7 DEF PathsExact

(* The two path checks, for every path, root and set of working             *)
(* directories: normalize_remote_path gives two paths one key exactly when  *)
(* they name one place from every directory, and safe_join_local_root lets  *)
(* through exactly the paths without ".." that lie strictly below the root. *)
THEOREM PathsAlwaysExact == AlgSpec => []PathsExact
<1>1. PathInv => PathsExact
  BY PathInputs, PathInvExact
<1> QED BY <1>1, PathInvInit, PathInvNext, PTL DEF AlgSpec

-----------------------------------------------------------------------------
(* The tail of a log. *)

(* One byte of str::lines. *)
SplitStep(r, c) ==
  IF c = Newline THEN [ended |-> Append(r.ended, r.open), open |-> <<>>]
  ELSE [ended |-> r.ended, open |-> Append(r.open, c)]

Splitting(S) == [ended : Seq(Seq(S)), open : Seq(S)]

LEMMA SplitStepIs ==
  ASSUME NEW S, NEW r \in Splitting(S), NEW c \in S
  PROVE  /\ SplitStep(r, c) \in Splitting(S)
         /\ c = Newline => SplitStep(r, c).ended = Append(r.ended, r.open)
                               /\ SplitStep(r, c).open = <<>>
         /\ c # Newline => SplitStep(r, c).ended = r.ended
                               /\ SplitStep(r, c).open = Append(r.open, c)
<1>1. r.ended \in Seq(Seq(S)) /\ r.open \in Seq(S)
  BY DEF Splitting
<1> DEFINE e == r.ended
           o == r.open
<1> HIDE DEF e, o
<1>2. e \in Seq(Seq(S)) /\ o \in Seq(S)
  BY <1>1 DEF e, o
<1>3. Append(e, o) \in Seq(Seq(S)) /\ <<>> \in Seq(S) /\ Append(o, c) \in Seq(S)
  <2>1. Append(e, o) \in Seq(Seq(S))
    BY <1>2, AppendProperties
  <2>2. Append(o, c) \in Seq(S)
    BY <1>2, AppendProperties
  <2> QED BY <2>1, <2>2, EmptySeq
<1>4. SplitStep(r, c) = IF c = Newline THEN [ended |-> Append(e, o), open |-> <<>>]
                        ELSE [ended |-> e, open |-> Append(o, c)]
  BY DEF SplitStep, e, o
<1>5. SplitStep(r, c) \in Splitting(S)
  BY <1>2, <1>3, <1>4 DEF Splitting
<1> QED BY <1>4, <1>5 DEF e, o

LEMMA SplitRec ==
  ASSUME NEW S, NEW s \in Seq(S)
  PROVE  LET k == Split(s)
         IN  /\ k[0] = [ended |-> <<>>, open |-> <<>>]
             /\ \A i \in 1..Len(s) : k[i] = SplitStep(k[i - 1], s[i])
             /\ \A i \in 0..Len(s) : k[i] \in Splitting(S)
<1> DEFINE n == Len(s)
           V == Splitting(S)
           z == [ended |-> <<>>, open |-> <<>>]
           After(b, i) == SplitStep(b, s[i])
           F == [x \in V \X (1..n) |-> After(x[1], x[2])]
           Is(g) == g = [i \in 0..n |-> IF i = 0 THEN z ELSE After(g[i - 1], i)]
           k == Split(s)
<1>1. n \in Nat /\ z \in V
  <2>1. <<>> \in Seq(Seq(S)) /\ <<>> \in Seq(S)
    BY EmptySeq
  <2> QED BY <2>1, LenProperties DEF Splitting
<1>2. \A v \in V, i \in 1..n : F[<<v, i>>] = After(v, i) /\ After(v, i) \in V
  <2> TAKE v \in V, i \in 1..n
  <2>1. s[i] \in S
    BY ElementOfSeq
  <2>2. After(v, i) \in V
    BY <2>1, SplitStepIs
  <2>3. F[<<v, i>>] = After(v, i)
    <3> HIDE DEF V, n, After
    <3> QED OBVIOUS
  <2> QED BY <2>2, <2>3
<1>3. \E g : Is(g)
  <2>1. Stays(F, V, n)
    BY <1>2 DEF Stays
  <2> HIDE DEF n, V, F, After, z
  <2>2. PICK g : Runs(g, F, V, z, n)
    BY <1>1, <2>1, LoopRuns
  <2>3. \A i \in 0..n : g[i] = IF i = 0 THEN z ELSE After(g[i - 1], i)
    <3>1. \A i \in 0..n : i = 0 \/ (i \in 1..n /\ i - 1 \in 0..n)
      BY <1>1
    <3> QED BY <2>2, <1>2, <3>1 DEF Runs
  <2>4. Is(g)
    BY <2>2, <2>3 DEF Runs
  <2> QED BY <2>4
<1>4. k = CHOOSE g : Is(g)
  BY DEF Split, SplitStep
<1> HIDE DEF Is
<1>5. Is(k)
  BY <1>3, <1>4
<1>6. 0 \in 0..n /\ \A i \in 1..n : i \in 0..n /\ i # 0
  BY <1>1
<1>7. k[0] = z /\ \A i \in 1..n : k[i] = After(k[i - 1], i)
  <2> HIDE DEF After, n, k, z
  <2> QED BY <1>5, <1>6 DEF Is
<1>8. \A i \in 0..n : k[i] \in V
  <2> DEFINE T == {i \in 0..n : k[i] \in V}
  <2> HIDE DEF After, n, k, z, V
  <2>1. 0 \in T
    BY <1>1, <1>6, <1>7
  <2>2. ASSUME NEW i \in 1..n, i - 1 \in T PROVE i \in T
    <3>1. k[i] = After(k[i - 1], i) /\ k[i - 1] \in V
      BY <1>7, <2>2
    <3>2. After(k[i - 1], i) \in V
      BY <1>2, <3>1
    <3> QED BY <1>6, <3>1, <3>2
  <2> HIDE DEF T
  <2>3. 0..n \subseteq T
    BY <1>1, <2>1, <2>2, Climb
  <2> QED BY <2>3 DEF T
<1> QED BY <1>7, <1>8

(* A newline ends a line, and nothing else does. *)
LEMMA NewlinesIs ==
  ASSUME NEW S, NEW s \in Seq(S)
  PROVE  Newlines(s) = Len(Split(s)[Len(s)].ended)
<1> DEFINE n == Len(s)
           k == Split(s)
           N(i) == {j \in 1..i : s[j] = Newline}
           T == {i \in 0..n : IsFiniteSet(N(i)) /\ Cardinality(N(i)) = Len(k[i].ended)}
<1>1. /\ k[0] = [ended |-> <<>>, open |-> <<>>]
      /\ \A i \in 1..n : k[i] = SplitStep(k[i - 1], s[i])
      /\ \A i \in 0..n : k[i] \in Splitting(S)
  BY SplitRec
<1>2. n \in Nat /\ DOMAIN s = 1..n /\ \A i \in 1..n : s[i] \in S
  BY LenProperties, ElementOfSeq
<1> HIDE DEF n, k
<1>3. 0 \in T
  <2>1. N(0) = {} /\ 0 \in 0..n
    BY <1>2
  <2>2. k[0].ended = <<>>
    BY <1>1
  <2>3. Len(k[0].ended) = 0
    BY <2>2, EmptySeq
  <2> HIDE DEF N
  <2> QED BY <2>1, <2>3, FS_EmptySet
<1>4. ASSUME NEW i \in 1..n, i - 1 \in T PROVE i \in T
  <2>1. i \in 0..n /\ i - 1 \in 0..n /\ i \notin 1..i - 1 /\ i \in 1..i
        /\ \A j : j \in 1..i <=> j = i \/ j \in 1..i - 1
    BY <1>2
  <2> DEFINE r == k[i - 1]
             c == s[i]
  <2>2. r \in Splitting(S) /\ c \in S /\ k[i] = SplitStep(r, c)
    BY <1>1, <1>2, <2>1
  <2>3. r.ended \in Seq(Seq(S)) /\ r.open \in Seq(S)
    BY <2>2 DEF Splitting
  <2>4. IsFiniteSet(N(i - 1)) /\ Cardinality(N(i - 1)) = Len(r.ended)
    BY <1>4
  <2>5. CASE c = Newline
    <3>1. N(i) = N(i - 1) \cup {i} /\ i \notin N(i - 1)
      BY <2>1, <2>5
    <3>2. k[i].ended = Append(r.ended, r.open)
      BY <2>2, <2>5, SplitStepIs
    <3>3. Len(k[i].ended) = Len(r.ended) + 1
      BY <2>3, <3>2, AppendProperties
    <3> HIDE DEF N, r
    <3>4. IsFiniteSet(N(i)) /\ Cardinality(N(i)) = Cardinality(N(i - 1)) + 1
      <4> DEFINE A == N(i - 1)
      <4>1. IsFiniteSet(A) /\ i \notin A /\ N(i) = A \cup {i}
        BY <2>4, <3>1
      <4> HIDE DEF A
      <4>2. IsFiniteSet(A \cup {i})
        BY <4>1, FS_AddElement
      <4>3. Cardinality(A \cup {i}) = IF i \in A THEN Cardinality(A) ELSE Cardinality(A) + 1
        BY <4>1, FS_AddElement
      <4> QED BY <4>1, <4>2, <4>3 DEF A
    <3> QED BY <2>1, <2>4, <3>3, <3>4
  <2>6. CASE c # Newline
    <3>1. N(i) = N(i - 1)
      BY <2>1, <2>6
    <3>2. k[i].ended = r.ended
      BY <2>2, <2>6, SplitStepIs
    <3> HIDE DEF N, r
    <3> QED BY <2>1, <2>4, <3>1, <3>2
  <2> QED BY <2>5, <2>6
<1>5. 0..n \subseteq T
  <2> HIDE DEF T
  <2> QED BY <1>2, <1>3, <1>4, Climb
<1>6. n \in 0..n
  BY <1>2
<1>7. Newlines(s) = Cardinality(N(n))
  BY <1>2 DEF Newlines
<1> QED BY <1>5, <1>6, <1>7 DEF n, k

(* What str::lines makes of the end of a text is what it makes of the whole *)
(* text, but for the line the cut went through.                            *)
LEMMA SplitEnd ==
  ASSUME NEW S, NEW a \in Seq(S), NEW b \in Seq(S)
  PROVE  LET full == Split(a \o b)[Len(a \o b)]
             end == Split(b)[Len(b)]
         IN  \E d \in Nat :
               /\ Len(full.ended) = d + Len(end.ended)
               /\ \A j \in 2..Len(end.ended) : full.ended[d + j] = end.ended[j]
               /\ Len(end.ended) > 0 => full.open = end.open
<1> DEFINE m == Len(a)
           n == Len(b)
           t == a \o b
           f == Split(t)
           g == Split(b)
           d == Len(f[m].ended)
           T == {i \in 0..n : /\ Len(f[m + i].ended) = d + Len(g[i].ended)
                              /\ \A j \in 2..Len(g[i].ended) : f[m + i].ended[d + j] = g[i].ended[j]
                              /\ Len(g[i].ended) > 0 => f[m + i].open = g[i].open}
<1>1. /\ t \in Seq(S) /\ m \in Nat /\ n \in Nat /\ Len(t) = m + n
      /\ \A i \in 1..n : t[m + i] = b[i]
  BY ConcatIs
<1>2. \A i \in 1..n : b[i] \in S
  BY ElementOfSeq
<1> HIDE DEF t, m
<1>3. /\ \A i \in 1..m + n : f[i] = SplitStep(f[i - 1], t[i])
      /\ \A i \in 0..m + n : f[i] \in Splitting(S)
  <2>1. t \in Seq(S) /\ Len(t) = m + n
    BY <1>1
  <2>2. /\ \A i \in 1..Len(t) : f[i] = SplitStep(f[i - 1], t[i])
        /\ \A i \in 0..Len(t) : f[i] \in Splitting(S)
    BY <2>1, SplitRec
  <2> QED BY <2>1, <2>2
<1>4. /\ g[0] = [ended |-> <<>>, open |-> <<>>]
      /\ \A i \in 1..n : g[i] = SplitStep(g[i - 1], b[i])
      /\ \A i \in 0..n : g[i] \in Splitting(S)
  BY SplitRec
<1> HIDE DEF n, f, g
<1>5. d \in Nat
  <2>1. m \in 0..m + n
    BY <1>1
  <2>2. f[m].ended \in Seq(Seq(S))
    BY <1>3, <2>1 DEF Splitting
  <2> QED BY <2>2, LenProperties
<1>6. 0 \in T
  <2>1. g[0].ended = <<>>
    BY <1>4
  <2>2. Len(g[0].ended) = 0 /\ m + 0 = m /\ 0 \in 0..n
    BY <1>1, <2>1, EmptySeq
  <2> HIDE DEF d
  <2>3. Len(f[m + 0].ended) = d
    BY <2>2 DEF d
  <2> DEFINE l == Len(g[0].ended)
  <2>4. l = 0
    BY <2>2
  <2> HIDE DEF l
  <2>5. d = d + l /\ ~(l > 0) /\ 2..l = {}
    BY <1>5, <2>4
  <2> QED BY <2>2, <2>3, <2>5 DEF l
<1>7. ASSUME NEW i \in 1..n, i - 1 \in T PROVE i \in T
  <2> DEFINE h == m + i
             c == b[i]
             u == f[h - 1]
             v == g[i - 1]
             x == u.ended
             y == v.ended
  <2>1. i \in 0..n /\ i - 1 \in 0..n /\ h \in 1..m + n /\ h - 1 = m + (i - 1) /\ h - 1 \in 0..m + n
    BY <1>1
  <2>2. c \in S /\ t[h] = c
    BY <1>1, <1>2
  <2>3. u \in Splitting(S) /\ v \in Splitting(S)
    BY <1>3, <1>4, <2>1
  <2>4. f[h] = SplitStep(u, c) /\ g[i] = SplitStep(v, c)
    BY <1>3, <1>4, <2>1, <2>2
  <2>5. /\ Len(x) = d + Len(y)
        /\ \A j \in 2..Len(y) : x[d + j] = y[j]
        /\ Len(y) > 0 => u.open = v.open
    BY <1>7, <2>1
  <2>6. x \in Seq(Seq(S)) /\ y \in Seq(Seq(S)) /\ u.open \in Seq(S) /\ v.open \in Seq(S)
    BY <2>3 DEF Splitting
  <2>7. Len(x) \in Nat /\ Len(y) \in Nat
    BY <2>6, LenProperties
  <2> HIDE DEF h, c, u, v, d
  <2>8. CASE c = Newline
    <3> DEFINE p == Append(x, u.open)
               q == Append(y, v.open)
    <3>1. f[h].ended = p /\ g[i].ended = q /\ f[h].open = <<>> /\ g[i].open = <<>>
      BY <2>2, <2>3, <2>4, <2>8, SplitStepIs
    <3> DEFINE o == u.open
               w == v.open
    <3>2. o \in Seq(S) /\ w \in Seq(S)
      BY <2>6
    <3> HIDE DEF x, y, o, w
    <3>3. Len(p) = Len(x) + 1 /\ (\A j \in 1..Len(x) : p[j] = x[j]) /\ p[Len(x) + 1] = o
      <4>1. Len(p) = Len(x) + 1
        BY <2>6, <3>2, AppendProperties DEF o
      <4>2. \A j \in 1..Len(x) : p[j] = x[j]
        BY <2>6, <3>2, AppendProperties DEF o
      <4>3. p[Len(x) + 1] = o
        BY <2>6, <3>2, AppendProperties DEF o
      <4> QED BY <4>1, <4>2, <4>3
    <3>4. Len(q) = Len(y) + 1 /\ (\A j \in 1..Len(y) : q[j] = y[j]) /\ q[Len(y) + 1] = w
      <4>1. Len(q) = Len(y) + 1
        BY <2>6, <3>2, AppendProperties DEF w
      <4>2. \A j \in 1..Len(y) : q[j] = y[j]
        BY <2>6, <3>2, AppendProperties DEF w
      <4>3. q[Len(y) + 1] = w
        BY <2>6, <3>2, AppendProperties DEF w
      <4> QED BY <4>1, <4>2, <4>3
    <3>5. Len(y) > 0 => o = w
      BY <2>5 DEF o, w, x, y
    <3>6. Len(x) = d + Len(y) /\ \A j \in 2..Len(y) : x[d + j] = y[j]
      BY <2>5
    <3> HIDE DEF p, q
    <3>7. ASSUME NEW j \in 2..Len(q) PROVE p[d + j] = q[j]
      <4>1. CASE j <= Len(y)
        <5>1. j \in 2..Len(y) /\ j \in 1..Len(y) /\ d + j \in 1..Len(x)
          BY <1>5, <2>7, <3>4, <3>6, <4>1
        <5> QED BY <3>3, <3>4, <3>6, <5>1
      <4>2. CASE ~(j <= Len(y))
        <5>1. j = Len(y) + 1 /\ d + j = Len(x) + 1 /\ Len(y) > 0
          BY <1>5, <2>7, <3>4, <3>6, <4>2
        <5> QED BY <3>3, <3>4, <3>5, <5>1
      <4> QED BY <4>1, <4>2
    <3>8. Len(p) = d + Len(q)
      BY <1>5, <2>7, <3>3, <3>4, <3>6
    <3> QED BY <2>1, <3>1, <3>7, <3>8 DEF h
  <2>9. CASE c # Newline
    <3>1. f[h].ended = x /\ g[i].ended = y
          /\ f[h].open = Append(u.open, c) /\ g[i].open = Append(v.open, c)
      BY <2>2, <2>3, <2>4, <2>9, SplitStepIs
    <3> HIDE DEF x, y
    <3> QED BY <2>1, <2>5, <3>1 DEF h
  <2> QED BY <2>8, <2>9
<1>8. 0..n \subseteq T
  <2> HIDE DEF T
  <2> QED BY <1>1, <1>6, <1>7, Climb
<1>9. n \in T
  <2>1. n \in 0..n
    BY <1>1
  <2> HIDE DEF T
  <2> QED BY <1>8, <2>1
<1>10. /\ Len(f[m + n].ended) = d + Len(g[n].ended)
       /\ \A j \in 2..Len(g[n].ended) : f[m + n].ended[d + j] = g[n].ended[j]
       /\ Len(g[n].ended) > 0 => f[m + n].open = g[n].open
  BY <1>9
<1>11. f[m + n] = Split(a \o b)[Len(a \o b)] /\ g[n] = Split(b)[Len(b)]
  BY <1>1 DEF f, g, n, t
<1> HIDE DEF d
<1> QED BY <1>5, <1>10, <1>11

LEMMA MaxIs == ASSUME NEW a \in Int PROVE Max({0, a}) = IF a > 0 THEN a ELSE 0
<1> DEFINE z == IF a > 0 THEN a ELSE 0
<1>1. z \in {0, a} /\ \A y \in {0, a} : z >= y
  OBVIOUS
<1>2. \A x \in {0, a} : (\A y \in {0, a} : x >= y) => x = z
  OBVIOUS
<1> QED BY <1>1, <1>2 DEF Max

LEMMA MinIs ==
  ASSUME NEW a \in Int, NEW b \in Int
  PROVE  Min({a, b}) = IF a <= b THEN a ELSE b
<1> DEFINE z == IF a <= b THEN a ELSE b
<1>1. z \in {a, b} /\ \A y \in {a, b} : z <= y
  OBVIOUS
<1>2. \A x \in {a, b} : (\A y \in {a, b} : x <= y) => x = z
  OBVIOUS
<1> QED BY <1>1, <1>2 DEF Min

LEMMA LastOfIs ==
  ASSUME NEW S, NEW s \in Seq(S), NEW n \in Nat
  PROVE  LET from == IF Len(s) > n THEN Len(s) - n ELSE 0
         IN  /\ from \in 0..Len(s) /\ Len(s) \in Nat
             /\ LastOf(s, n) = SubSeq(s, from + 1, Len(s))
<1>1. Len(s) \in Nat
  BY LenProperties
<1> DEFINE l == Len(s)
<1> HIDE DEF l
<1>2. l \in Nat /\ l - n \in Int
  BY <1>1 DEF l
<1>3. Max({0, l - n}) = IF l - n > 0 THEN l - n ELSE 0
  BY <1>2, MaxIs
<1>4. Max({0, l - n}) = IF l > n THEN l - n ELSE 0
  BY <1>2, <1>3
<1>5. (IF l > n THEN l - n ELSE 0) \in 0..l
  BY <1>2
<1> QED BY <1>2, <1>4, <1>5 DEF LastOf, l

(* The end of a sequence from a position. *)
End(s, p) == SubSeq(s, p + 1, Len(s))

LEMMA EndIs ==
  ASSUME NEW S, NEW s \in Seq(S), NEW p \in 0..Len(s)
  PROVE  /\ End(s, p) \in Seq(S) /\ Len(s) \in Nat /\ Len(End(s, p)) = Len(s) - p
         /\ \A i \in 1..Len(s) - p : End(s, p)[i] = s[p + i]
<1>1. Len(s) \in Nat
  BY LenProperties
<1>2. p + 1 \in 1..Len(s) + 1 /\ Len(s) \in (p + 1) - 1..Len(s)
      /\ Len(s) - (p + 1) + 1 = Len(s) - p
      /\ \A i \in 1..Len(s) - p : (p + 1) + i - 1 = p + i
  BY <1>1
<1>3. /\ SubSeq(s, p + 1, Len(s)) \in Seq(S)
      /\ Len(SubSeq(s, p + 1, Len(s))) = Len(s) - (p + 1) + 1
      /\ \A i \in 1..Len(s) - (p + 1) + 1 : SubSeq(s, p + 1, Len(s))[i] = s[(p + 1) + i - 1]
  BY <1>2, SubSeqIs
<1> QED BY <1>1, <1>2, <1>3 DEF End

(* What is read before what was read. *)
Grows(s, q, p) == SubSeq(s, q + 1, p) \o End(s, p) = End(s, q)

LEMMA EndGrows ==
  ASSUME NEW S, NEW s \in Seq(S), NEW q \in 0..Len(s), NEW p \in 0..Len(s), q <= p
  PROVE  /\ SubSeq(s, q + 1, p) \in Seq(S)
         /\ Len(SubSeq(s, q + 1, p)) = p - q
         /\ Grows(s, q, p)
<1> DEFINE c == SubSeq(s, q + 1, p)
           e == End(s, p)
           f == End(s, q)
           t == c \o e
           n == Len(s)
<1>1. n \in Nat /\ p \in 0..n /\ q \in 0..n
  BY LenProperties
<1>2. c \in Seq(S) /\ Len(c) = p - q /\ \A i \in 1..p - q : c[i] = s[q + i]
  <2>1. q + 1 \in 1..Len(s) + 1 /\ p \in (q + 1) - 1..Len(s) /\ p - (q + 1) + 1 = p - q
        /\ \A i \in 1..p - q : (q + 1) + i - 1 = q + i
    BY <1>1
  <2>2. /\ c \in Seq(S) /\ Len(c) = p - (q + 1) + 1
        /\ \A i \in 1..p - (q + 1) + 1 : c[i] = s[(q + 1) + i - 1]
    BY <2>1, SubSeqIs
  <2> HIDE DEF c
  <2> QED BY <2>1, <2>2
<1>3. e \in Seq(S) /\ Len(e) = n - p /\ \A i \in 1..n - p : e[i] = s[p + i]
  BY EndIs
<1>4. f \in Seq(S) /\ Len(f) = n - q /\ \A i \in 1..n - q : f[i] = s[q + i]
  BY EndIs
<1> HIDE DEF c, e, f, n
<1>5. t \in Seq(S) /\ Len(t) = Len(c) + Len(e) /\ (\A i \in 1..Len(c) : t[i] = c[i])
      /\ \A i \in 1..Len(e) : t[Len(c) + i] = e[i]
  <2>1. c \in Seq(S) /\ e \in Seq(S)
    BY <1>2, <1>3
  <2> QED BY <2>1, ConcatIs
<1> HIDE DEF t
<1>6. Len(t) = Len(f)
  BY <1>1, <1>2, <1>3, <1>4, <1>5
<1>7. ASSUME NEW i \in 1..Len(t) PROVE t[i] = f[i]
  <2>1. i \in 1..n - q
    BY <1>4, <1>6
  <2>2. CASE i <= p - q
    <3>1. i \in 1..p - q
      BY <1>1, <2>1, <2>2
    <3> QED BY <1>2, <1>4, <1>5, <2>1, <3>1
  <2>3. CASE ~(i <= p - q)
    <3>1. i - (p - q) \in 1..n - p /\ (p - q) + (i - (p - q)) = i /\ p + (i - (p - q)) = q + i
      BY <1>1, <2>1, <2>3
    <3>2. t[i] = e[i - (p - q)]
      BY <1>2, <1>3, <1>5, <3>1
    <3>3. e[i - (p - q)] = s[q + i]
      BY <1>3, <3>1
    <3> QED BY <1>4, <2>1, <3>2, <3>3
  <2> QED BY <2>2, <2>3
<1>8. t = f
  BY <1>4, <1>5, <1>6, <1>7, SeqEqual
<1> QED BY <1>2, <1>8 DEF c, e, f, t, Grows

-----------------------------------------------------------------------------

(* The positions the backward read can stand at: what it has read fits the *)
(* bound and is a whole number of chunks, unless it is everything.         *)
MayRead(l, p) == l - p <= MaxRead /\ (p = 0 \/ \E q \in Nat : l - p = q * Chunk)
Places(l) == {p \in 0..l : MayRead(l, p)}
Positions(file) == {[pos |-> p, buf |-> End(file, p)] : p \in Places(Len(file))}

LEMMA ChunksFit ==
  ASSUME ReadBounds, NEW q \in Nat, q * Chunk < MaxRead
  PROVE  q * Chunk + Chunk <= MaxRead /\ q * Chunk + Chunk = (q + 1) * Chunk
<1>1. Chunk \in Nat \ {0} /\ MaxRead \in Nat \ {0} /\ MaxRead % Chunk = 0
  BY DEF ReadBounds
<1> DEFINE r == MaxRead \div Chunk
<1>2. MaxRead = r * Chunk /\ r \in Nat
  BY <1>1
<1> HIDE DEF r
<1>3. q < r
  BY <1>1, <1>2
<1>4. q + 1 <= r
  BY <1>2, <1>3
<1>5. (q + 1) * Chunk <= r * Chunk /\ q * Chunk + Chunk = (q + 1) * Chunk
  BY <1>1, <1>2, <1>4
<1> QED BY <1>2, <1>5

(* A turn of the loop that reads. *)
LEMMA ReadChunkIs ==
  ASSUME ReadBounds, NEW S, NEW file \in Seq(S), NEW p \in Places(Len(file)), p > 0,
         Len(file) - p < MaxRead
  PROVE  \E q \in Places(Len(file)) :
           /\ q < p
           /\ ReadChunk(file, [pos |-> p, buf |-> End(file, p)])
                = [pos |-> q, buf |-> End(file, q)]
<1> DEFINE l == Len(file)
           r == [pos |-> p, buf |-> End(file, p)]
           q == IF Chunk <= p THEN p - Chunk ELSE 0
           chunk == SubSeq(file, q + 1, p)
           buf == End(file, p)
<1>1. Chunk \in Nat \ {0} /\ MaxRead \in Nat \ {0} /\ l \in Nat
  BY LenProperties DEF ReadBounds
<1>2. p \in 0..l /\ p # 0 /\ \E k \in Nat : l - p = k * Chunk
  BY DEF Places, MayRead
<1>3. PICK k \in Nat : l - p = k * Chunk
  BY <1>2
<1> HIDE DEF l
<1>4. k * Chunk < MaxRead
  BY <1>3 DEF l
<1>5. (l - p) + Chunk <= MaxRead /\ (l - p) + Chunk = (k + 1) * Chunk
  BY <1>3, <1>4, ChunksFit
<1>6. q \in 0..l /\ q < p /\ q <= p /\ p - q <= Chunk
  BY <1>1, <1>2
<1>7. q \in Places(l)
  <2>1. l - q <= MaxRead
    BY <1>1, <1>2, <1>5, <1>6
  <2>2. CASE Chunk <= p
    <3>1. l - q = (l - p) + Chunk
      BY <1>1, <1>2, <2>2
    <3>2. l - q = (k + 1) * Chunk /\ k + 1 \in Nat
      BY <1>5, <3>1
    <3> HIDE DEF q
    <3> QED BY <1>6, <2>1, <3>2 DEF Places, MayRead
  <2>3. CASE ~(Chunk <= p)
    <3>1. q = 0
      BY <2>3
    <3> QED BY <1>6, <2>1, <3>1 DEF Places, MayRead
  <2> QED BY <2>2, <2>3
<1>8. p - Min({Chunk, p}) = q
  <2>1. Min({Chunk, p}) = IF Chunk <= p THEN Chunk ELSE p
    BY <1>1, <1>2, MinIs
  <2> QED BY <1>1, <1>2, <2>1
<1>9. chunk \in Seq(S) /\ Len(chunk) = p - q /\ chunk \o buf = End(file, q)
  <2> HIDE DEF q
  <2>1. q \in 0..Len(file) /\ p \in 0..Len(file) /\ q <= p
    BY <1>2, <1>6 DEF l
  <2>2. Grows(file, q, p)
    BY <2>1, EndGrows
  <2>3. chunk \in Seq(S)
    BY <2>1, EndGrows
  <2>4. Len(chunk) = p - q
    BY <2>1, EndGrows
  <2> QED BY <2>2, <2>3, <2>4 DEF Grows
<1>10. Len(buf) = l - p
  <2>1. p \in 0..Len(file)
    BY <1>2 DEF l
  <2> QED BY <2>1, EndIs DEF l
<1>11. SubSeq(chunk, 1, Min({Len(chunk), MaxRead - Len(buf)})) = chunk
  <2> HIDE DEF q, chunk, buf
  <2>1. Len(chunk) \in Int /\ MaxRead - Len(buf) \in Int /\ Len(chunk) <= MaxRead - Len(buf)
    BY <1>1, <1>2, <1>5, <1>6, <1>9, <1>10
  <2>2. Min({Len(chunk), MaxRead - Len(buf)}) = Len(chunk)
    BY <2>1, MinIs
  <2>3. SubSeq(chunk, 1, Len(chunk)) = chunk
    BY <1>9, SubSeqFull
  <2> QED BY <2>2, <2>3
<1>12. ReadChunk(file, r) = [pos |-> q, buf |-> chunk \o buf]
  <2>1. r.pos = p /\ r.buf = buf
    OBVIOUS
  <2>2. ReadChunk(file, r)
          = [pos |-> p - Min({Chunk, p}),
             buf |-> SubSeq(SubSeq(file, (p - Min({Chunk, p})) + 1, p), 1,
                            Min({Len(SubSeq(file, (p - Min({Chunk, p})) + 1, p)),
                                     MaxRead - Len(buf)})) \o buf]
    <3> HIDE DEF buf, r
    <3> QED BY <2>1 DEF ReadChunk
  <2> HIDE DEF q, r, buf
  <2> QED BY <1>8, <1>11, <2>2
<1> HIDE DEF q, chunk, buf
<1> QED BY <1>6, <1>7, <1>9, <1>12 DEF l

LEMMA ReadBackRec ==
  ASSUME ReadBounds, NEW S, NEW file \in Seq(S), NEW lines
  PROVE  LET k == ReadBack(file, lines)
         IN  /\ k[0] = [pos |-> Len(file), buf |-> <<>>]
             /\ \A i \in 1..Len(file) :
                  k[i] = IF WantsMore(k[i - 1].pos, k[i - 1].buf, lines)
                         THEN ReadChunk(file, k[i - 1]) ELSE k[i - 1]
             /\ \A i \in 0..Len(file) : k[i] \in Positions(file)
<1> DEFINE n == Len(file)
           V == Positions(file)
           z == [pos |-> Len(file), buf |-> <<>>]
           After(b, i) == IF WantsMore(b.pos, b.buf, lines) THEN ReadChunk(file, b) ELSE b
           F == [x \in V \X (1..n) |-> After(x[1], x[2])]
           Is(g) == g = [i \in 0..n |-> IF i = 0 THEN z ELSE After(g[i - 1], i)]
           k == ReadBack(file, lines)
<1>1. n \in Nat /\ z \in V
  <2>1. n \in Nat /\ Chunk \in Nat /\ MaxRead \in Nat
    BY LenProperties DEF ReadBounds
  <2>2. n \in 0..n /\ n - n <= MaxRead /\ n - n = 0 * Chunk
    BY <2>1
  <2>3. n \in Places(n)
    <3> HIDE DEF n
    <3> QED BY <2>2 DEF Places, MayRead
  <2>4. End(file, n) = <<>>
    <3>1. End(file, n) \in Seq(S) /\ Len(End(file, n)) = n - n
      BY <2>2, EndIs
    <3>2. n - n = 0
      BY <2>1
    <3> QED BY <3>1, <3>2, EmptySeq
  <2> QED BY <2>1, <2>3, <2>4 DEF Positions
<1>2. \A v \in V, i \in 1..n : F[<<v, i>>] = After(v, i) /\ After(v, i) \in V
  <2> TAKE v \in V, i \in 1..n
  <2>1. F[<<v, i>>] = After(v, i)
    <3> HIDE DEF V, n, After
    <3> QED OBVIOUS
  <2>2. PICK p \in Places(n) : v = [pos |-> p, buf |-> End(file, p)]
    BY DEF Positions
  <2>3. v.pos = p /\ v.buf = End(file, p)
    BY <2>2
  <2>4. CASE WantsMore(v.pos, v.buf, lines)
    <3>1. p > 0 /\ Len(End(file, p)) < MaxRead
      BY <2>3, <2>4 DEF WantsMore
    <3>2. p \in 0..Len(file)
      BY DEF Places
    <3>3. Len(file) - p < MaxRead
      BY <3>1, <3>2, EndIs
    <3>4. \E q \in Places(Len(file)) : /\ q < p
                                       /\ ReadChunk(file, [pos |-> p, buf |-> End(file, p)])
                                            = [pos |-> q, buf |-> End(file, q)]
      BY <3>1, <3>3, ReadChunkIs
    <3>5. ReadChunk(file, v) \in V
      BY <2>2, <3>4 DEF Positions
    <3> QED BY <2>1, <2>4, <3>5
  <2>5. CASE ~WantsMore(v.pos, v.buf, lines)
    BY <2>1, <2>5
  <2> QED BY <2>4, <2>5
<1>3. \E g : Is(g)
  <2>1. Stays(F, V, n)
    BY <1>2 DEF Stays
  <2> HIDE DEF n, V, F, After, z
  <2>2. PICK g : Runs(g, F, V, z, n)
    BY <1>1, <2>1, LoopRuns
  <2>3. \A i \in 0..n : g[i] = IF i = 0 THEN z ELSE After(g[i - 1], i)
    <3>1. \A i \in 0..n : i = 0 \/ (i \in 1..n /\ i - 1 \in 0..n)
      BY <1>1
    <3> QED BY <2>2, <1>2, <3>1 DEF Runs
  <2>4. Is(g)
    BY <2>2, <2>3 DEF Runs
  <2> QED BY <2>4
<1>4. k = CHOOSE g : Is(g)
  BY DEF ReadBack
<1> HIDE DEF Is
<1>5. Is(k)
  BY <1>3, <1>4
<1>6. 0 \in 0..n /\ \A i \in 1..n : i \in 0..n /\ i # 0
  BY <1>1
<1>7. k[0] = z /\ \A i \in 1..n : k[i] = After(k[i - 1], i)
  <2> HIDE DEF After, n, k, z
  <2> QED BY <1>5, <1>6 DEF Is
<1>8. \A i \in 0..n : k[i] \in V
  <2> DEFINE T == {i \in 0..n : k[i] \in V}
  <2> HIDE DEF After, n, k, z, V
  <2>1. 0 \in T
    BY <1>1, <1>6, <1>7
  <2>2. ASSUME NEW i \in 1..n, i - 1 \in T PROVE i \in T
    <3>1. k[i] = After(k[i - 1], i) /\ k[i - 1] \in V
      BY <1>7, <2>2
    <3>2. After(k[i - 1], i) \in V
      BY <1>2, <3>1
    <3> QED BY <1>6, <3>1, <3>2
  <2> HIDE DEF T
  <2>3. 0..n \subseteq T
    BY <1>1, <2>1, <2>2, Climb
  <2> QED BY <2>3 DEF T
<1> QED BY <1>7, <1>8

(* The loop comes to an end, at one of its three conditions. *)
LEMMA ReadBackEnds ==
  ASSUME ReadBounds, NEW S, NEW file \in Seq(S), NEW lines
  PROVE  \E p \in Places(Len(file)) :
           /\ ReadBack(file, lines)[Len(file)] = [pos |-> p, buf |-> End(file, p)]
           /\ ~WantsMore(p, End(file, p), lines)
<1> DEFINE n == Len(file)
           k == ReadBack(file, lines)
           T == {i \in 0..n : k[i].pos <= n - i
                              \/ ~WantsMore(k[i].pos, k[i].buf, lines)}
<1>1. /\ k[0] = [pos |-> n, buf |-> <<>>]
      /\ \A i \in 1..n :
           k[i] = IF WantsMore(k[i - 1].pos, k[i - 1].buf, lines)
                  THEN ReadChunk(file, k[i - 1]) ELSE k[i - 1]
      /\ \A i \in 0..n : k[i] \in Positions(file)
  BY ReadBackRec
<1>2. n \in Nat
  BY LenProperties
<1> HIDE DEF k
<1>3. 0 \in T
  <2>1. k[0].pos = n /\ 0 \in 0..n /\ n <= n - 0
    BY <1>1, <1>2
  <2> QED BY <2>1
<1>4. ASSUME NEW i \in 1..n, i - 1 \in T PROVE i \in T
  <2>1. i \in 0..n /\ i - 1 \in 0..n
    BY <1>2
  <2>2. PICK p \in Places(n) : k[i - 1] = [pos |-> p, buf |-> End(file, p)]
    BY <1>1, <2>1 DEF Positions
  <2>3. k[i - 1].pos = p /\ k[i - 1].buf = End(file, p)
    BY <2>2
  <2>4. CASE WantsMore(p, End(file, p), lines)
    <3>1. p > 0 /\ Len(End(file, p)) < MaxRead
      BY <2>4 DEF WantsMore
    <3>2. p \in 0..n
      BY DEF Places
    <3>3. Len(file) - p < MaxRead
      BY <3>1, <3>2, EndIs
    <3>4. PICK q \in Places(Len(file)) : /\ q < p
                                       /\ ReadChunk(file, [pos |-> p, buf |-> End(file, p)])
                                            = [pos |-> q, buf |-> End(file, q)]
      BY <3>1, <3>3, ReadChunkIs
    <3>5. k[i] = [pos |-> q, buf |-> End(file, q)]
      BY <1>1, <2>2, <2>3, <2>4, <3>4
    <3>6. k[i].pos = q /\ q \in 0..n
      BY <3>5 DEF Places
    <3>7. p <= n - (i - 1)
      BY <1>4, <2>3, <2>4
    <3> HIDE DEF n
    <3>8. q <= n - i
      BY <1>2, <3>2, <3>4, <3>6, <3>7
    <3> QED BY <2>1, <3>6, <3>8
  <2>5. CASE ~WantsMore(p, End(file, p), lines)
    <3>1. k[i] = k[i - 1]
      BY <1>1, <2>3, <2>5
    <3> QED BY <2>1, <2>3, <2>5, <3>1
  <2> QED BY <2>4, <2>5
<1>5. 0..n \subseteq T
  <2> HIDE DEF T, n
  <2> QED BY <1>2, <1>3, <1>4, Climb
<1>6. n \in T /\ n \in 0..n
  <2>1. n \in 0..n
    BY <1>2
  <2> HIDE DEF T
  <2> QED BY <1>5, <2>1
<1>7. PICK p \in Places(n) : k[n] = [pos |-> p, buf |-> End(file, p)]
  BY <1>1, <1>6 DEF Positions
<1>8. k[n].pos = p /\ k[n].buf = End(file, p) /\ p \in 0..n
  BY <1>7 DEF Places
<1>9. ~WantsMore(p, End(file, p), lines)
  <2>1. CASE p <= n - n
    <3>1. ~(p > 0)
      <4> HIDE DEF n
      <4> QED BY <1>2, <1>8, <2>1
    <3> QED BY <3>1 DEF WantsMore
  <2>2. CASE ~(p <= n - n)
    BY <1>6, <1>8, <2>2
  <2> QED BY <2>1, <2>2
<1> QED BY <1>7, <1>9 DEF k

LEMMA LinesIs ==
  ASSUME NEW S, NEW s \in Seq(S)
  PROVE  LET r == Split(s)[Len(s)]
         IN  /\ r.ended \in Seq(Seq(S)) /\ r.open \in Seq(S) /\ Len(r.ended) \in Nat
             /\ Lines(s) = (IF r.open = <<>> THEN r.ended ELSE Append(r.ended, r.open))
             /\ Lines(s) \in Seq(Seq(S))
<1> DEFINE r == Split(s)[Len(s)]
           e == r.ended
           o == r.open
<1>1. r \in Splitting(S)
  <2>1. Len(s) \in Nat
    BY LenProperties
  <2>2. Len(s) \in 0..Len(s)
    BY <2>1
  <2> QED BY <2>2, SplitRec
<1>2. e \in Seq(Seq(S)) /\ o \in Seq(S)
  BY <1>1 DEF Splitting
<1>3. Lines(s) = IF o = <<>> THEN e ELSE Append(e, o)
  BY DEF Lines
<1> HIDE DEF r, e, o
<1>4. Append(e, o) \in Seq(Seq(S)) /\ Len(e) \in Nat
  <2>1. Append(e, o) \in Seq(Seq(S))
    BY <1>2, AppendProperties
  <2> QED BY <1>2, <2>1, LenProperties
<1>5. Lines(s) \in Seq(Seq(S))
  BY <1>2, <1>3, <1>4
<1> QED BY <1>2, <1>3, <1>4, <1>5 DEF r, e, o

(* The last n lines of a text are those of an end of it with more newlines. *)
LEMMA LinesEnd ==
  ASSUME NEW S, NEW a \in Seq(S), NEW b \in Seq(S), NEW n \in Nat, Newlines(b) > n
  PROVE  LastOf(Lines(a \o b), n) = LastOf(Lines(b), n)
<1> DEFINE t == a \o b
           W == Split(t)[Len(t)]
           E == Split(b)[Len(b)]
           X == Lines(t)
           Y == Lines(b)
           we == W.ended
           wo == W.open
           ee == E.ended
           eo == E.open
<1>1. t \in Seq(S)
  BY ConcatProperties
<1>2. \E d \in Nat :
        /\ Len(we) = d + Len(ee)
        /\ \A j \in 2..Len(ee) : we[d + j] = ee[j]
        /\ Len(ee) > 0 => wo = eo
  BY SplitEnd
<1>3. PICK d \in Nat : /\ Len(we) = d + Len(ee)
                       /\ \A j \in 2..Len(ee) : we[d + j] = ee[j]
                       /\ Len(ee) > 0 => wo = eo
  BY <1>2
<1>4. Len(ee) = Newlines(b)
  BY NewlinesIs
<1>5. /\ ee \in Seq(Seq(S)) /\ eo \in Seq(S) /\ Len(ee) \in Nat
      /\ Y = (IF eo = <<>> THEN ee ELSE Append(ee, eo)) /\ Y \in Seq(Seq(S))
  BY LinesIs
<1> HIDE DEF t
<1>6. /\ we \in Seq(Seq(S)) /\ wo \in Seq(S) /\ Len(we) \in Nat
      /\ X = (IF wo = <<>> THEN we ELSE Append(we, wo)) /\ X \in Seq(Seq(S))
  BY <1>1, LinesIs
<1> HIDE DEF W, E, X, Y, we, wo, ee, eo
<1>7. Len(ee) > n /\ wo = eo
  BY <1>3, <1>4, <1>5
<1>8. /\ Len(X) = d + Len(Y) /\ Len(Y) \in Nat /\ Len(Y) > n
      /\ \A j \in 2..Len(Y) : X[d + j] = Y[j]
  <2>1. CASE eo = <<>>
    <3>1. X = we /\ Y = ee
      BY <1>5, <1>6, <1>7, <2>1
    <3> QED BY <1>3, <1>5, <1>7, <3>1
  <2>2. CASE eo # <<>>
    <3>1. X = Append(we, wo) /\ Y = Append(ee, eo)
      BY <1>5, <1>6, <1>7, <2>2
    <3>2. Len(X) = Len(we) + 1
      BY <1>6, <3>1, AppendProperties
    <3>3. \A j \in 1..Len(we) : X[j] = we[j]
      BY <1>6, <3>1, AppendProperties
    <3>4. X[Len(we) + 1] = wo
      BY <1>6, <3>1, AppendProperties
    <3>5. Len(Y) = Len(ee) + 1
      BY <1>5, <3>1, AppendProperties
    <3>6. \A j \in 1..Len(ee) : Y[j] = ee[j]
      BY <1>5, <3>1, AppendProperties
    <3>7. Y[Len(ee) + 1] = eo
      BY <1>5, <3>1, AppendProperties
    <3>8. ASSUME NEW j \in 2..Len(Y) PROVE X[d + j] = Y[j]
      <4>1. CASE j <= Len(ee)
        <5>1. j \in 2..Len(ee) /\ j \in 1..Len(ee) /\ d + j \in 1..Len(we)
          BY <1>3, <1>5, <3>5, <4>1
        <5> QED BY <1>3, <3>3, <3>6, <5>1
      <4>2. CASE ~(j <= Len(ee))
        <5>1. j = Len(ee) + 1
          BY <1>5, <3>5, <4>2
        <5>2. Len(we) = d + Len(ee)
          BY <1>3
        <5>3. d + j = Len(we) + 1
          BY <1>5, <5>1, <5>2
        <5> QED BY <1>7, <3>4, <3>7, <5>1, <5>3
      <4> QED BY <4>1, <4>2
    <3>9. Len(X) = d + Len(Y) /\ Len(Y) \in Nat /\ Len(Y) > n
      BY <1>3, <1>5, <1>7, <3>2, <3>5
    <3> QED BY <3>8, <3>9
  <2> QED BY <2>1, <2>2
<1> DEFINE x == Len(X) - n
           y == Len(Y) - n
<1>9. /\ x \in 0..Len(X) /\ y \in 0..Len(Y) /\ x = d + y /\ y >= 1 /\ Len(X) > n
      /\ Len(X) - x = n /\ Len(Y) - y = n
  BY <1>8
<1>10. LastOf(X, n) = End(X, x)
  BY <1>6, <1>9, LastOfIs DEF End
<1>11. LastOf(Y, n) = End(Y, y)
  BY <1>5, <1>8, LastOfIs DEF End
<1> HIDE DEF x, y
<1> DEFINE u == End(X, x)
           v == End(Y, y)
<1>12. u \in Seq(Seq(S)) /\ Len(u) = n /\ \A i \in 1..n : u[i] = X[x + i]
  <2>1. u \in Seq(Seq(S)) /\ Len(u) = Len(X) - x /\ \A i \in 1..Len(X) - x : u[i] = X[x + i]
    BY <1>6, <1>9, EndIs
  <2> HIDE DEF u
  <2> QED BY <1>9, <2>1
<1>13. v \in Seq(Seq(S)) /\ Len(v) = n /\ \A i \in 1..n : v[i] = Y[y + i]
  <2>1. v \in Seq(Seq(S)) /\ Len(v) = Len(Y) - y /\ \A i \in 1..Len(Y) - y : v[i] = Y[y + i]
    BY <1>5, <1>9, EndIs
  <2> HIDE DEF v
  <2> QED BY <1>9, <2>1
<1> HIDE DEF u, v
<1>14. ASSUME NEW i \in 1..n PROVE u[i] = v[i]
  <2>1. y + i \in 2..Len(Y) /\ x + i = d + (y + i)
    BY <1>8, <1>9
  <2>2. X[d + (y + i)] = Y[y + i]
    BY <1>8, <2>1
  <2> QED BY <1>12, <1>13, <2>1, <2>2
<1>15. u = v
  BY <1>12, <1>13, <1>14, SeqEqual
<1> QED BY <1>10, <1>11, <1>15 DEF u, v, X, Y, t

(* read_local_log_tail returns the last lines of the log, or of as much of it *)
(* as the bound allows.                                                       *)
LEMMA TailIs ==
  ASSUME ReadBounds, NEW S, NEW file \in Seq(S), NEW n \in Nat, file # NoLog
  PROVE  ReadLocalLogTail(file, n)
           = LastOf(Lines(LastOf(file, MaxRead)), n)
<1> DEFINE l == Len(file)
           g == IF l > MaxRead THEN l - MaxRead ELSE 0
           G == LastOf(file, MaxRead)
<1>1. MaxRead \in Nat /\ l \in Nat
  BY LenProperties DEF ReadBounds
<1>2. g \in 0..l /\ G = End(file, g)
  BY <1>1, LastOfIs DEF End
<1> HIDE DEF G
<1>3. G \in Seq(S)
  <2> HIDE DEF g
  <2> QED BY <1>2, EndIs
<1>4. CASE n = 0
  <2> DEFINE Y == Lines(G)
  <2>1. Y \in Seq(Seq(S))
    BY <1>3, LinesIs
  <2> HIDE DEF Y
  <2>2. Len(Y) \in Nat
    BY <2>1, LenProperties
  <2>3. (IF Len(Y) > n THEN Len(Y) - n ELSE 0) = Len(Y)
        /\ Len(Y) \in 0..Len(Y) /\ Len(Y) - Len(Y) = 0
    BY <1>4, <2>2
  <2>4. LastOf(Y, n) = SubSeq(Y, (IF Len(Y) > n THEN Len(Y) - n ELSE 0) + 1, Len(Y))
    BY <2>1, LastOfIs
  <2>5. LastOf(Y, n) = End(Y, Len(Y))
    BY <2>3, <2>4 DEF End
  <2>6. End(Y, Len(Y)) \in Seq(Seq(S)) /\ Len(End(Y, Len(Y))) = 0
    BY <2>1, <2>3, EndIs
  <2>7. LastOf(Y, n) = <<>>
    BY <2>5, <2>6, EmptySeq
  <2>8. ReadLocalLogTail(file, n) = <<>>
    BY <1>4 DEF ReadLocalLogTail
  <2> QED BY <2>7, <2>8 DEF Y, G
<1>5. CASE n # 0
  <2>1. PICK p \in Places(Len(file)) :
           /\ ReadBack(file, n)[Len(file)] = [pos |-> p, buf |-> End(file, p)]
           /\ ~WantsMore(p, End(file, p), n)
    BY ReadBackEnds
  <2> DEFINE b == End(file, p)
  <2>2. ReadBack(file, n)[Len(file)].buf = b
    BY <2>1
  <2>3. ReadLocalLogTail(file, n) = LastOf(Lines(b), n)
    BY <1>5, <2>2 DEF ReadLocalLogTail
  <2>4. p \in 0..l /\ l - p <= MaxRead
    BY DEF Places, MayRead
  <2>5. b \in Seq(S) /\ Len(b) = l - p
    BY <2>4, EndIs
  <2>6. Newlines(b) \in Nat
    <3> HIDE DEF b
    <3>1. Newlines(b) = Len(Split(b)[Len(b)].ended)
      BY <2>5, NewlinesIs
    <3>2. Len(Split(b)[Len(b)].ended) \in Nat
      BY <2>5, LinesIs
    <3> QED BY <3>1, <3>2
  <2>7. ~(p > 0) \/ Newlines(b) > n \/ ~(Len(b) < MaxRead)
    <3> HIDE DEF b
    <3>1. ~(p > 0 /\ Newlines(b) <= n /\ Len(b) < MaxRead)
      BY <2>1 DEF WantsMore, b
    <3> QED BY <2>6, <3>1
  <2>8. g <= p
    BY <1>1, <2>4
  <2>9. CASE g = p
    BY <1>2, <2>3, <2>9 DEF G
  <2>10. CASE g # p
    <3> DEFINE a == SubSeq(file, g + 1, p)
    <3>1. p > 0 /\ Len(b) < MaxRead
      <4> HIDE DEF b, l
      <4> QED BY <1>1, <2>4, <2>5, <2>10
    <3>2. Newlines(b) > n
      BY <2>7, <3>1
    <3>3. a \in Seq(S) /\ Grows(file, g, p)
      <4> HIDE DEF g
      <4> QED BY <1>2, <2>4, <2>8, EndGrows
    <3>4. G = a \o b
      BY <1>2, <3>3 DEF Grows
    <3> HIDE DEF a, b
    <3>5. LastOf(Lines(a \o b), n) = LastOf(Lines(b), n)
      BY <2>5, <3>2, <3>3, LinesEnd
    <3> QED BY <2>3, <3>4, <3>5 DEF G
  <2> QED BY <2>9, <2>10
<1> QED BY <1>4, <1>5

(* What a run of the log task has computed. *)
TailInv ==
  task = "tail" =>
    /\ \E f \in Logs, n \in TailSizes : input = <<f, n>>
    /\ output = NoOutput \/ output = ReadLocalLogTail(input[1], input[2])

LEMMA TailInvInit == AlgInit => TailInv
BY DEF AlgInit, TailInv

LEMMA TailInvNext == TailInv /\ [AlgNext]_algVars => TailInv'
<1> SUFFICES ASSUME TailInv, [AlgNext]_algVars PROVE TailInv'
  OBVIOUS
<1>1. CASE LogTail
  BY <1>1 DEF TailInv, LogTail, Compute
<1>2. CASE UNCHANGED algVars
  BY <1>2 DEF TailInv, algVars
<1>3. ASSUME NEW t, t # "tail", task = t, task' = task PROVE TailInv'
  BY <1>3 DEF TailInv
<1>4. CASE Parse
  <2>1. task = "parse" /\ task' = task
    BY <1>4 DEF Parse, Compute
  <2> QED BY <1>3, <2>1
<1>5. CASE Update
  <2>1. task = "update" /\ task' = task
    BY <1>5 DEF Update, Compute
  <2> QED BY <1>3, <2>1
<1>6. CASE Send
  <2>1. task = "send" /\ task' = task
    BY <1>6 DEF Send, Carry, Compute
  <2> QED BY <1>3, <2>1
<1>7. CASE Fetch
  <2>1. task = "fetch" /\ task' = task
    BY <1>7 DEF Fetch, Carry, Compute
  <2> QED BY <1>3, <2>1
<1>8. CASE Extract
  <2>1. task = "extract" /\ task' = task
    BY <1>8 DEF Extract, Compute
  <2> QED BY <1>3, <2>1
<1>9. CASE Normalize
  <2>1. task = "reserve" /\ task' = task
    BY <1>9 DEF Normalize, Compute
  <2> QED BY <1>3, <2>1
<1>10. CASE Join
  <2>1. task = "join" /\ task' = task
    BY <1>10 DEF Join, Compute
  <2> QED BY <1>3, <2>1
<1> QED BY <1>1, <1>2, <1>4, <1>5, <1>6, <1>7, <1>8, <1>9, <1>10 DEF AlgNext

LEMMA TailInvExact ==
  ASSUME ReadBounds, LogInputs, TailInv
  PROVE  TailExact
<1> SUFFICES ASSUME Computed("tail") PROVE TailExact
  BY DEF TailExact
<1>1. PICK f \in Logs, n \in TailSizes : input = <<f, n>>
  BY DEF TailInv, Computed
<1>2. input[1] = f /\ input[2] = n /\ output = ReadLocalLogTail(f, n)
  BY <1>1 DEF TailInv, Computed
<1> DEFINE Bytes == {"x", Newline}
<1>3. n \in Nat /\ (f = NoLog \/ f \in Seq(Bytes))
  BY DEF LogInputs
<1> HIDE DEF Bytes
<1>4. CASE f = NoLog
  BY <1>2, <1>4 DEF TailExact, ReadLocalLogTail
<1>5. CASE f # NoLog
  <2>1. output = LastOf(Lines(LastOf(f, MaxRead)), n)
    BY <1>2, <1>3, <1>5, TailIs
  <2> QED BY <1>2, <1>5, <2>1 DEF TailExact
<1> QED BY <1>4, <1>5

(* read_local_log_tail, for every log, chunk size and bound: reading         *)
(* backwards chunk by chunk returns the last lines of the log, whole, or of  *)
(* as much of it as the bound allows, and never drops or cuts a line at the  *)
(* edge of a chunk.                                                          *)
THEOREM TailAlwaysExact == AlgSpec => []TailExact
<1>1. TailInv => TailExact
  BY ReadBounds, LogInputs, TailInvExact
<1> QED BY <1>1, TailInvInit, TailInvNext, PTL DEF AlgSpec

-----------------------------------------------------------------------------
(* Archives: what the tar reader makes of a stream, and what it makes of   *)
(* what the tar writer sent.                                               *)

LEMMA BlockIs ==
  ASSUME TarConstants
  PROVE  Block \in Nat /\ Block > 0 /\ \A n \in Nat : Padding(n) \in Nat
<1>1. Block \in Nat /\ Block > 0
  BY DEF TarConstants
<1>2. ASSUME NEW n \in Nat PROVE Padding(n) \in Nat
  <2>1. n % Block \in 0..Block - 1
    BY <1>1
  <2>2. Block - (n % Block) \in Nat
    BY <1>1, <2>1
  <2> QED BY <1>1, <2>2 DEF Padding
<1> QED BY <1>1, <1>2

(* Path::components yields only parts that show. *)
LEMMA ComponentsShown ==
  ASSUME NEW path \in Seq(STRING)
  PROVE  /\ Components(path) \in Seq(STRING)
         /\ \A x : Has(Components(path), x) => Shown(x)
<1> DEFINE n == Len(path)
           k == Scanned(path)
           T == {i \in 0..n : \A x : Has(k[i], x) => Shown(x)}
<1>1. /\ k[0] = <<>>
      /\ \A i \in 1..n : k[i] = IF path[i] \in {"", "."} THEN k[i - 1]
                                ELSE Append(k[i - 1], path[i])
      /\ \A i \in 0..n : k[i] \in Seq(STRING)
  BY ScannedRec
<1>2. n \in Nat /\ \A i \in 1..n : path[i] \in STRING
  BY LenProperties, ElementOfSeq
<1> HIDE DEF n, k
<1>3. 0 \in T
  <2>1. \A x : ~Has(<<>>, x)
    <3>1. Len(<<>>) = 0
      BY EmptySeq
    <3> QED BY <3>1 DEF Has
  <2>2. 0 \in 0..n
    BY <1>2
  <2> QED BY <1>1, <2>1, <2>2
<1>4. ASSUME NEW i \in 1..n, i - 1 \in T PROVE i \in T
  <2>1. i \in 0..n /\ i - 1 \in 0..n
    BY <1>2
  <2>2. \A x : Has(k[i - 1], x) => Shown(x)
    BY <1>4
  <2>3. CASE path[i] \in {"", "."}
    BY <1>1, <2>1, <2>2, <2>3
  <2>4. CASE path[i] \notin {"", "."}
    <3>1. k[i] = Append(k[i - 1], path[i]) /\ Shown(path[i])
      BY <1>1, <2>4 DEF Shown
    <3>2. k[i - 1] \in Seq(STRING) /\ path[i] \in STRING
      BY <1>1, <1>2, <2>1
    <3>3. \A x : Has(Append(k[i - 1], path[i]), x) => Has(k[i - 1], x) \/ path[i] = x
      BY <3>2, HasAppend
    <3>4. \A x : Has(k[i], x) => Shown(x)
      BY <2>2, <3>1, <3>3
    <3> QED BY <2>1, <3>4
  <2> QED BY <2>3, <2>4
<1>5. 0..n \subseteq T
  <2> HIDE DEF T
  <2> QED BY <1>2, <1>3, <1>4, Climb
<1>6. n \in 0..n
  BY <1>2
<1>7. k[n] = Components(path)
  BY DEF Components, k, n
<1> QED BY <1>1, <1>5, <1>6, <1>7

(* Dropping every leading "./" leaves something. *)
Dots(path, n) ==
  /\ \A i \in 1..n : path[i] = "."
  /\ n = Len(path) - 1 \/ path[n + 1] # "."

LEMMA WithoutDotsIs ==
  ASSUME NEW path \in Seq(STRING), path # <<>>
  PROVE  \E n \in 0..Len(path) - 1 :
           Dots(path, n) /\ WithoutDots(path) = SubSeq(path, n + 1, Len(path))
<1> DEFINE T == {n \in 0..Len(path) - 1 : n = Len(path) - 1 \/ path[n + 1] # "."}
           D == CHOOSE n \in 0..Len(path) - 1 : Dots(path, n)
<1>1. Len(path) \in Nat /\ Len(path) > 0
  BY LenProperties, EmptySeq
<1>2. T # {} /\ T \subseteq Nat
  <2>1. Len(path) - 1 \in T
    BY <1>1
  <2>2. ASSUME NEW m \in T PROVE m \in Nat
    BY <1>1
  <2> HIDE DEF T
  <2> QED BY <2>1, <2>2
<1>3. PICK n \in T : \A m \in T : n <= m
  <2> HIDE DEF T
  <2> QED BY <1>2, Least
<1>4. Dots(path, n)
  <2>1. ASSUME NEW i \in 1..n PROVE path[i] = "."
    <3>1. i - 1 \in 0..Len(path) - 1 /\ ~(n <= i - 1) /\ (i - 1) + 1 = i
      BY <1>1, <1>3
    <3>2. i - 1 \notin T
      BY <1>3, <3>1
    <3> QED BY <3>1, <3>2
  <2> QED BY <1>3, <2>1 DEF Dots
<1>5. D \in 0..Len(path) - 1 /\ Dots(path, D)
  BY <1>3, <1>4
<1>6. WithoutDots(path) = SubSeq(path, D + 1, Len(path))
  BY DEF WithoutDots, Dots
<1> HIDE DEF D
<1> QED BY <1>5, <1>6

(* What sanitize_tar_path lets through is not empty and has plain names. *)
Names(p) == p \in Seq(STRING) /\ \A x : Has(p, x) => Plain(x)

LEMMA SanitizeIs ==
  ASSUME NEW path \in Seq(STRING), path # <<>>
  PROVE  LET r == SanitizeTarPath(path)
         IN  /\ r.err \in {"empty", "refused", "none"}
             /\ r.err = "none" => Names(r.path) /\ r.path # <<>>
<1> DEFINE b == WithoutDots(path)
           c == Components(b)
           r == SanitizeTarPath(path)
<1>1. PICK n \in 0..Len(path) - 1 : b = SubSeq(path, n + 1, Len(path))
  BY WithoutDotsIs
<1>2. b \in Seq(STRING)
  <2>1. Len(path) \in Nat
    BY LenProperties
  <2>2. n + 1 \in 1..Len(path) + 1 /\ Len(path) \in (n + 1) - 1..Len(path)
    BY <2>1
  <2> QED BY <1>1, <2>2, SubSeqIs
<1> HIDE DEF b
<1>3. c \in Seq(STRING) /\ (\A x : Has(c, x) => Shown(x)) /\ (Has(c, "..") <=> Has(b, ".."))
  BY <1>2, ComponentsShown, ComponentsHas
<1>4. r.path = c /\ r.err = IF b = <<"">> THEN "empty"
                ELSE IF Absolute(b) \/ ".." \in ToSet(b) \/ c = <<>> THEN "refused"
                ELSE "none"
  BY DEF SanitizeTarPath, b
<1> HIDE DEF c, r
<1>5. ASSUME r.err = "none" PROVE Names(c) /\ c # <<>>
  <2>1. ".." \notin ToSet(b) /\ c # <<>>
    BY <1>4, <1>5
  <2>2. ~Has(c, "..")
    BY <1>2, <1>3, <2>1, HasIs
  <2>3. ASSUME NEW x, Has(c, x) PROVE Plain(x)
    BY <1>3, <2>2, <2>3 DEF Shown, Plain
  <2> QED BY <1>3, <2>1, <2>3 DEF Names
<1>6. r.err \in {"empty", "refused", "none"}
  BY <1>4
<1> QED BY <1>4, <1>5, <1>6 DEF r

(* What is below the extraction root: files and directories under plain     *)
(* names, each inside directories.                                          *)
Nodes == [kind : {"dir", "file"}, data : Seq(Units)]
Inside(p, f) ==
  \A n \in 1..Len(p) - 1 : SubSeq(p, 1, n) \in DOMAIN f /\ f[SubSeq(p, 1, n)].kind = "dir"
Under(f) == \A p \in DOMAIN f : Names(p) /\ p # <<>> /\ Inside(p, f)
FileSystems ==
  {f \in UNION {[D -> Nodes] : D \in SUBSET Seq(STRING)} : Under(f)}

LEMMA FileSystemsIs ==
  ASSUME NEW f
  PROVE  f \in FileSystems <=> /\ f = [p \in DOMAIN f |-> f[p]]
                               /\ \A p \in DOMAIN f : f[p] \in Nodes
                               /\ Under(f)
<1>1. ASSUME f \in FileSystems
      PROVE  f = [p \in DOMAIN f |-> f[p]] /\ (\A p \in DOMAIN f : f[p] \in Nodes) /\ Under(f)
  <2>1. Under(f) /\ \E D \in SUBSET Seq(STRING) : f \in [D -> Nodes]
    BY <1>1 DEF FileSystems
  <2> QED BY <2>1
<1>2. ASSUME f = [p \in DOMAIN f |-> f[p]], \A p \in DOMAIN f : f[p] \in Nodes, Under(f)
      PROVE  f \in FileSystems
  <2>1. \A p \in DOMAIN f : p \in Seq(STRING)
    BY <1>2 DEF Under, Names
  <2>2. DOMAIN f \in SUBSET Seq(STRING)
    BY <2>1
  <2>3. f \in [DOMAIN f -> Nodes]
    BY <1>2
  <2> QED BY <1>2, <2>2, <2>3 DEF FileSystems
<1> QED BY <1>1, <1>2

(* The beginnings of a path. *)
LEMMA BeginningIs ==
  ASSUME NEW p, Names(p), NEW i \in 0..Len(p)
  PROVE  /\ Names(SubSeq(p, 1, i)) /\ Len(SubSeq(p, 1, i)) = i
         /\ \A n \in 0..i : SubSeq(SubSeq(p, 1, i), 1, n) = SubSeq(p, 1, n)
<1> DEFINE q == SubSeq(p, 1, i)
<1>1. p \in Seq(STRING) /\ Len(p) \in Nat
  BY LenProperties DEF Names
<1>2. i \in 1 - 1..Len(p) /\ 1 \in 1..Len(p) + 1 /\ i - 1 + 1 = i
  BY <1>1
<1>3. q \in Seq(STRING) /\ Len(q) = i /\ \A j \in 1..i : q[j] = p[1 + j - 1]
  BY <1>1, <1>2, SubSeqIs
<1>4. \A j \in 1..i : q[j] = p[j] /\ j \in 1..Len(p)
  BY <1>1, <1>3
<1> HIDE DEF q
<1>5. Names(q)
  <2>1. ASSUME NEW x, Has(q, x) PROVE Has(p, x)
    BY <1>3, <1>4, <2>1 DEF Has
  <2> QED BY <1>3, <2>1 DEF Names
<1>6. ASSUME NEW n \in 0..i PROVE SubSeq(q, 1, n) = SubSeq(p, 1, n)
  <2>1. /\ n \in 1 - 1..Len(p) /\ n \in 1 - 1..Len(q) /\ 1 \in 1..Len(p) + 1
        /\ 1 \in 1..Len(q) + 1 /\ n - 1 + 1 = n /\ \A j \in 1..n : 1 + j - 1 = j /\ j \in 1..i
    BY <1>1, <1>3
  <2>2. /\ SubSeq(q, 1, n) \in Seq(STRING) /\ Len(SubSeq(q, 1, n)) = n
        /\ \A j \in 1..n : SubSeq(q, 1, n)[j] = q[1 + j - 1]
    BY <1>3, <2>1, SubSeqIs
  <2>3. /\ SubSeq(p, 1, n) \in Seq(STRING) /\ Len(SubSeq(p, 1, n)) = n
        /\ \A j \in 1..n : SubSeq(p, 1, n)[j] = p[1 + j - 1]
    BY <1>1, <2>1, SubSeqIs
  <2>4. \A j \in 1..n : SubSeq(q, 1, n)[j] = SubSeq(p, 1, n)[j]
    BY <1>4, <2>1, <2>2, <2>3
  <2> QED BY <2>2, <2>3, <2>4, SeqEqual
<1> QED BY <1>3, <1>5, <1>6 DEF q

(* create_dir_all keeps everything below the root. *)
Leading(p) == {SubSeq(p, 1, i) : i \in 1..Len(p)}
DirNode == [kind |-> "dir", data |-> <<>>]

LEMMA CreateDirAllIs ==
  ASSUME NEW f \in FileSystems, NEW p, Names(p)
  PROVE  LET c == CreateDirAll(f, p)
         IN  /\ c.ok = \A d \in Leading(p) \cap DOMAIN f : f[d].kind = "dir"
             /\ c.ok => c.fs = [d \in Leading(p) \cup DOMAIN f |->
                                 IF d \in Leading(p) THEN DirNode ELSE f[d]]
             /\ ~c.ok => c.fs = f
             /\ c.fs \in FileSystems
<1> DEFINE c == CreateDirAll(f, p)
           M == Leading(p)
           g == [d \in M \cup DOMAIN f |-> IF d \in M THEN DirNode ELSE f[d]]
           ok == \A d \in M \cap DOMAIN f : f[d].kind = "dir"
<1>1. c.ok = ok /\ c.fs = IF ~ok THEN f ELSE g
  BY DEF CreateDirAll, Leading, DirNode
<1>2. (\A q \in DOMAIN f : f[q] \in Nodes) /\ Under(f)
  BY FileSystemsIs
<1>3. p \in Seq(STRING) /\ Len(p) \in Nat
  BY LenProperties DEF Names
<1>4. ASSUME ok PROVE g \in FileSystems
  <2>1. DOMAIN g = M \cup DOMAIN f /\ g = [q \in DOMAIN g |-> g[q]]
    OBVIOUS
  <2>2. DirNode \in Nodes
    <3>1. <<>> \in Seq(Units)
      BY EmptySeq
    <3> QED BY <3>1 DEF Nodes, DirNode
  <2>3. \A q \in DOMAIN g : g[q] \in Nodes
    BY <1>2, <2>1, <2>2
  <2>4. \A q \in DOMAIN g : (q \in M => g[q] = DirNode) /\ (q \notin M => g[q] = f[q])
    BY <2>1
  <2>5. \A q \in DOMAIN f : f[q].kind = "dir" => q \in DOMAIN g /\ g[q].kind = "dir"
    BY <2>1, <2>4 DEF DirNode
  <2> HIDE DEF g
  <2>6. ASSUME NEW q \in DOMAIN g PROVE Names(q) /\ q # <<>> /\ Inside(q, g)
    <3>1. CASE q \in M
      <4>1. PICK i \in 1..Len(p) : q = SubSeq(p, 1, i)
        BY <3>1 DEF Leading
      <4>2. i \in 0..Len(p)
        BY <1>3
      <4>3. /\ Names(q) /\ Len(q) = i
            /\ \A n \in 0..i : SubSeq(q, 1, n) = SubSeq(p, 1, n)
        BY <4>1, <4>2, BeginningIs
      <4>4. q # <<>>
        BY <4>3, EmptySeq
      <4>5. ASSUME NEW n \in 1..Len(q) - 1
            PROVE  SubSeq(q, 1, n) \in DOMAIN g /\ g[SubSeq(q, 1, n)].kind = "dir"
        <5>1. n \in 0..i /\ n \in 1..Len(p)
          BY <1>3, <4>3
        <5>2. SubSeq(q, 1, n) \in M
          BY <4>3, <5>1 DEF Leading
        <5> QED BY <2>1, <2>4, <5>2 DEF DirNode
      <4> QED BY <4>3, <4>4, <4>5 DEF Inside
    <3>2. CASE q \notin M
      <4>1. q \in DOMAIN f
        BY <2>1, <3>2
      <4>2. Names(q) /\ q # <<>> /\ Inside(q, f)
        BY <1>2, <4>1 DEF Under
      <4> QED BY <2>5, <4>2 DEF Inside
    <3> QED BY <3>1, <3>2
  <2>7. Under(g)
    BY <2>6 DEF Under
  <2> QED BY <2>1, <2>3, <2>7, FileSystemsIs
<1>5. c.fs \in FileSystems
  <2> HIDE DEF c, g, ok
  <2> QED BY <1>1, <1>4
<1> QED BY <1>1, <1>5

(* The directories above a path are its beginnings but itself. *)
LEMMA ParentIs ==
  ASSUME NEW p, Names(p), p # <<>>
  PROVE  /\ Names(Front(p)) /\ Leading(Front(p)) = {SubSeq(p, 1, n) : n \in 1..Len(p) - 1}
         /\ p \notin Leading(Front(p))
<1> DEFINE q == Front(p)
<1>1. p \in Seq(STRING) /\ Len(p) \in Nat /\ Len(p) > 0
  BY LenProperties, EmptySeq DEF Names
<1>2. Len(p) - 1 \in 0..Len(p)
  BY <1>1
<1>3. q = SubSeq(p, 1, Len(p) - 1)
  BY DEF Front
<1> HIDE DEF q
<1>4. /\ Names(q) /\ Len(q) = Len(p) - 1
      /\ \A n \in 0..Len(p) - 1 : SubSeq(q, 1, n) = SubSeq(p, 1, n)
  BY <1>2, <1>3, BeginningIs
<1>5. \A n \in 1..Len(p) - 1 : n \in 0..Len(p) - 1 /\ n \in 0..Len(p) /\ n # Len(p)
  BY <1>1
<1>6. Leading(q) = {SubSeq(p, 1, n) : n \in 1..Len(p) - 1}
  BY <1>4, <1>5 DEF Leading
<1>7. \A n \in 1..Len(p) - 1 : SubSeq(p, 1, n) # p
  <2> SUFFICES ASSUME NEW n \in 1..Len(p) - 1 PROVE Len(SubSeq(p, 1, n)) # Len(p)
    OBVIOUS
  <2> QED BY <1>5, BeginningIs
<1> QED BY <1>4, <1>6, <1>7 DEF q

(* So does the creation of a file, in directories that are made for it. *)
FileNode(d) == [kind |-> "file", data |-> d]

LEMMA CreateFileIs ==
  ASSUME NEW f \in FileSystems, NEW p, Names(p), p # <<>>, NEW d \in Seq(Units)
  PROVE  LET c == CreateFile(f, p, d)
             up == CreateDirAll(f, Front(p))
         IN  /\ c.ok = (up.ok /\ ~(p \in DOMAIN f /\ f[p].kind = "dir"))
             /\ c.ok => c.fs = [q \in {p} \cup DOMAIN up.fs |->
                                 IF q = p THEN FileNode(d) ELSE up.fs[q]]
             /\ c.fs \in FileSystems
<1> DEFINE c == CreateFile(f, p, d)
           a == Front(p)
           up == CreateDirAll(f, a)
           u == up.fs
           ok == up.ok /\ ~(p \in DOMAIN f /\ f[p].kind = "dir")
           g == [q \in {p} \cup DOMAIN u |-> IF q = p THEN FileNode(d) ELSE u[q]]
<1>1. c.ok = ok /\ c.fs = IF ~ok THEN u ELSE g
  BY DEF CreateFile, FileNode
<1>2. /\ Names(a) /\ Leading(a) = {SubSeq(p, 1, n) : n \in 1..Len(p) - 1}
      /\ p \notin Leading(a)
  BY ParentIs
<1> HIDE DEF a
<1>3. /\ up.ok => u = [q \in Leading(a) \cup DOMAIN f |->
                         IF q \in Leading(a) THEN DirNode ELSE f[q]]
      /\ u \in FileSystems
  BY <1>2, CreateDirAllIs
<1> HIDE DEF up
<1>4. (\A q \in DOMAIN u : u[q] \in Nodes) /\ Under(u)
  BY <1>3, FileSystemsIs
<1>5. ASSUME ok PROVE g \in FileSystems
  <2>1. DOMAIN g = {p} \cup DOMAIN u /\ g = [q \in DOMAIN g |-> g[q]]
    OBVIOUS
  <2>2. FileNode(d) \in Nodes
    BY DEF Nodes, FileNode
  <2>3. \A q \in DOMAIN g : g[q] \in Nodes
    BY <1>4, <2>1, <2>2
  <2>4. \A q \in DOMAIN u : q # p => q \in DOMAIN g /\ g[q] = u[q]
    BY <2>1
  <2>5. p \in DOMAIN u => u[p].kind # "dir"
    BY <1>2, <1>3, <1>5
  <2>6. \A q \in DOMAIN u : u[q].kind = "dir" => q \in DOMAIN g /\ g[q].kind = "dir"
    BY <2>4, <2>5
  <2>7. \A q \in Leading(a) : q \in DOMAIN u /\ u[q].kind = "dir"
    BY <1>3, <1>5 DEF DirNode
  <2> HIDE DEF g, u, ok
  <2>8. ASSUME NEW q \in DOMAIN g PROVE Names(q) /\ q # <<>> /\ Inside(q, g)
    <3>1. CASE q = p
      <4>1. \A n \in 1..Len(p) - 1 : SubSeq(p, 1, n) \in Leading(a)
        BY <1>2
      <4>2. Inside(p, g)
        BY <2>6, <2>7, <4>1 DEF Inside
      <4> QED BY <3>1, <4>2
    <3>2. CASE q # p
      <4>1. q \in DOMAIN u
        BY <2>1, <3>2
      <4>2. Names(q) /\ q # <<>> /\ Inside(q, u)
        BY <1>4, <4>1 DEF Under
      <4> QED BY <2>6, <4>2 DEF Inside
    <3> QED BY <3>1, <3>2
  <2>9. Under(g)
    BY <2>8 DEF Under
  <2> QED BY <2>1, <2>3, <2>9, FileSystemsIs
<1>6. c.fs \in FileSystems
  <2> HIDE DEF c, g, ok, u
  <2> QED BY <1>1, <1>3, <1>5
<1> QED BY <1>1, <1>6 DEF up, a

LEMMA UptoIs ==
  ASSUME NEW S, NEW s \in Seq(S), NEW n \in Nat
  PROVE  /\ Upto(s, n) = SubSeq(s, 1, IF n <= Len(s) THEN n ELSE Len(s))
         /\ Upto(s, n) \in Seq(S)
<1>1. Len(s) \in Nat
  BY LenProperties
<1> DEFINE l == IF n <= Len(s) THEN n ELSE Len(s)
<1>2. Min({n, Len(s)}) = l
  BY <1>1, MinIs
<1>3. 1 \in 1..Len(s) + 1 /\ l \in 1 - 1..Len(s)
  BY <1>1
<1> HIDE DEF l
<1>4. SubSeq(s, 1, l) \in Seq(S)
  BY <1>3, SubSeqIs
<1> QED BY <1>2, <1>4 DEF Upto, l

LEMMA DropIs ==
  ASSUME NEW S, NEW s \in Seq(S), NEW k \in Nat
  PROVE  SubSeq(s, k + 1, Len(s)) \in Seq(S)
<1>1. Len(s) \in Nat /\ \A i \in k + 1..Len(s) : s[i] \in S
  <2>1. Len(s) \in Nat
    BY LenProperties
  <2> QED BY <2>1, ElementOfSeq
<1>2. k + 1 \in Int /\ Len(s) \in Int
  BY <1>1
<1> QED BY <1>1, <1>2, SubSeqProperties

(* A header is a block of its own; the other blocks are bytes. *)
LEMMA NextBlockIs ==
  ASSUME TarConstants, NEW s \in Seq(Units)
  PROVE  LET b == NextBlock(s)
         IN  /\ b.rest \in Seq(Units)
             /\ b.kind = "header" => s # <<>> /\ s[1] \in HeaderUnits
             /\ s # <<>> /\ s[1].flag # "byte" => b.kind = "header" /\ b.rest = Tail(s)
<1> DEFINE b == NextBlock(s)
<1>1. Block \in Nat /\ Block > 0 /\ Len(s) \in Nat
  BY BlockIs, LenProperties
<1>2. CASE s # <<>> /\ s[1].flag # "byte"
  <2>1. Len(s) > 0
    BY <1>1, <1>2, EmptySeq
  <2>2. 1 \in 1..Len(s)
    BY <1>1, <2>1
  <2>3. s[1] \in Units
    BY <2>2, ElementOfSeq
  <2>4. s[1] \in HeaderUnits
    BY <1>2, <2>3 DEF Units, ByteUnits
  <2>5. Tail(s) \in Seq(Units)
    BY <1>2, HeadTailProperties
  <2>6. b.kind = "header" /\ b.rest = Tail(s)
    BY <1>2 DEF NextBlock
  <2> QED BY <1>2, <2>4, <2>5, <2>6
<1>3. CASE ~(s # <<>> /\ s[1].flag # "byte") /\ Len(s) < Block
  <2>1. b = [kind |-> "short", rest |-> s]
    BY <1>3 DEF NextBlock
  <2>2. b.kind = "short" /\ b.rest = s
    BY <2>1
  <2> QED BY <1>3, <2>2
<1>4. CASE ~(s # <<>> /\ s[1].flag # "byte") /\ ~(Len(s) < Block)
  <2>1. b.kind \in {"zero", "garbage"} /\ b.rest = SubSeq(s, Block + 1, Len(s))
    BY <1>4 DEF NextBlock
  <2>2. SubSeq(s, Block + 1, Len(s)) \in Seq(Units)
    BY <1>1, DropIs
  <2> QED BY <1>4, <2>1, <2>2
<1> QED BY <1>2, <1>3, <1>4

(* The path of an entry. *)
LEMMA EntryPathIs ==
  ASSUME NEW h \in HeaderUnits
  PROVE  EntryPath(h) \in Seq(STRING) /\ EntryPath(h) # <<>>
<1> DEFINE a == h.prefix
           b == h.name
<1>1. a \in Seq(STRING) /\ b \in Seq(STRING) /\ b # <<>>
  BY DEF HeaderUnits
<1> HIDE DEF a, b
<1>2. a \o b \in Seq(STRING) /\ Len(a \o b) = Len(a) + Len(b)
  BY <1>1, ConcatIs
<1>3. Len(a) \in Nat /\ Len(b) \in Nat /\ Len(b) # 0
  BY <1>1, LenProperties, EmptySeq
<1>4. a \o b # <<>>
  BY <1>2, <1>3, EmptySeq
<1> QED BY <1>1, <1>2, <1>4 DEF EntryPath, a, b

(* One turn of the loop of extract_tar_to_dir, way by way. *)
Ends(r, how) == [rest |-> NextBlock(r.rest).rest, fs |-> r.fs, done |-> how]
Rests(r, h, made) ==
  LET b == NextBlock(r.rest)
      body == h.size + Padding(h.size)
  IN  [rest |-> SubSeq(b.rest, body + 1, Len(b.rest)), fs |-> made.fs,
       done |-> IF made.ok /\ Len(b.rest) >= body THEN "no" ELSE "failed"]
Refuses(r) ==
  LET h == r.rest[1]
  IN  NextBlock(r.rest).kind # "header" \/ ~h.sum \/ h.size < 0
        \/ SanitizeTarPath(EntryPath(h)).err = "refused"

LEMMA ExtractEntryIs ==
  ASSUME NEW r
  PROVE  LET b == NextBlock(r.rest)
             h == r.rest[1]
             rel == SanitizeTarPath(EntryPath(h))
         IN  ExtractEntry(r) =
               IF b.kind = "zero"
               THEN Ends(r, IF NextBlock(b.rest).kind # "short" THEN "whole" ELSE "failed")
               ELSE IF Refuses(r) THEN Ends(r, "failed")
               ELSE IF rel.err = "empty" \/ h.flag \in {"x", "g"}
               THEN Rests(r, h, [ok |-> TRUE, fs |-> r.fs])
               ELSE IF h.flag = "5" /\ h.size = 0
               THEN Rests(r, h, CreateDirAll(r.fs, rel.path))
               ELSE IF h.flag = "0"
               THEN Rests(r, h, CreateFile(r.fs, rel.path, Upto(b.rest, h.size)))
               ELSE Ends(r, "failed")
BY DEF ExtractEntry, Ends, Rests, Refuses

Reading == [rest : Seq(Units), fs : FileSystems, done : {"no", "whole", "failed"}]

(* Whatever the stream, a turn leaves everything below the root. *)
LEMMA ExtractEntryStays ==
  ASSUME TarConstants, NEW r \in Reading
  PROVE  ExtractEntry(r) \in Reading
<1> DEFINE b == NextBlock(r.rest)
           h == r.rest[1]
           rel == SanitizeTarPath(EntryPath(h))
<1>1. r.rest \in Seq(Units) /\ r.fs \in FileSystems
  BY DEF Reading
<1>2. /\ b.rest \in Seq(Units)
      /\ b.kind = "header" => r.rest # <<>> /\ h \in HeaderUnits
  BY <1>1, NextBlockIs
<1>3. \A how \in {"no", "whole", "failed"} : Ends(r, how) \in Reading
  BY <1>1, <1>2 DEF Ends, Reading
<1>4. ASSUME NEW made, made.fs \in FileSystems, h.size \in Nat PROVE Rests(r, h, made) \in Reading
  <2> DEFINE body == h.size + Padding(h.size)
  <2>1. body \in Nat
    <3>1. Padding(h.size) \in Nat
      BY <1>4, BlockIs
    <3> QED BY <1>4, <3>1
  <2>2. SubSeq(b.rest, body + 1, Len(b.rest)) \in Seq(Units)
    BY <1>2, <2>1, DropIs
  <2>3. Rests(r, h, made) = [rest |-> SubSeq(b.rest, body + 1, Len(b.rest)), fs |-> made.fs,
                 done |-> IF made.ok /\ Len(b.rest) >= body THEN "no" ELSE "failed"]
    BY DEF Rests
  <2> HIDE DEF body, b, h
  <2> QED BY <1>4, <2>2, <2>3 DEF Reading
<1>5. ASSUME ~Refuses(r)
      PROVE  /\ h.size \in Nat
             /\ rel.err # "empty" => Names(rel.path) /\ rel.path # <<>>
  <2>1. b.kind = "header" /\ ~(h.size < 0) /\ rel.err # "refused"
    BY <1>5 DEF Refuses
  <2>2. h \in HeaderUnits
    BY <1>2, <2>1
  <2>3. h.size \in Int
    BY <2>2 DEF HeaderUnits
  <2>4. /\ rel.err \in {"empty", "refused", "none"}
        /\ rel.err = "none" => Names(rel.path) /\ rel.path # <<>>
    <3>1. EntryPath(h) \in Seq(STRING) /\ EntryPath(h) # <<>>
      BY <2>2, EntryPathIs
    <3> QED BY <3>1, SanitizeIs
  <2>5. h.size \in Nat
    <3> HIDE DEF h
    <3> QED BY <2>1, <2>3
  <2> HIDE DEF rel
  <2> QED BY <2>1, <2>4, <2>5
<1>6. ASSUME ~Refuses(r), rel.err # "empty"
      PROVE  /\ CreateDirAll(r.fs, rel.path).fs \in FileSystems
             /\ CreateFile(r.fs, rel.path, Upto(b.rest, h.size)).fs \in FileSystems
  <2>1. Names(rel.path) /\ rel.path # <<>> /\ h.size \in Nat
    BY <1>5, <1>6
  <2>2. Upto(b.rest, h.size) \in Seq(Units)
    BY <1>2, <2>1, UptoIs
  <2> HIDE DEF rel, b, h
  <2>3. CreateDirAll(r.fs, rel.path).fs \in FileSystems
    BY <1>1, <2>1, CreateDirAllIs
  <2>4. CreateFile(r.fs, rel.path, Upto(b.rest, h.size)).fs \in FileSystems
    BY <1>1, <2>1, <2>2, CreateFileIs
  <2> QED BY <2>3, <2>4
<1>7. ExtractEntry(r) =
        IF b.kind = "zero"
        THEN Ends(r, IF NextBlock(b.rest).kind # "short" THEN "whole" ELSE "failed")
        ELSE IF Refuses(r) THEN Ends(r, "failed")
        ELSE IF rel.err = "empty" \/ h.flag \in {"x", "g"}
        THEN Rests(r, h, [ok |-> TRUE, fs |-> r.fs])
        ELSE IF h.flag = "5" /\ h.size = 0
        THEN Rests(r, h, CreateDirAll(r.fs, rel.path))
        ELSE IF h.flag = "0"
        THEN Rests(r, h, CreateFile(r.fs, rel.path, Upto(b.rest, h.size)))
        ELSE Ends(r, "failed")
  BY ExtractEntryIs
<1>8. ~Refuses(r) => Rests(r, h, [ok |-> TRUE, fs |-> r.fs]) \in Reading
  <2>1. [ok |-> TRUE, fs |-> r.fs].fs \in FileSystems
    BY <1>1
  <2> QED BY <1>4, <1>5, <2>1
<1>9. ~Refuses(r) /\ rel.err # "empty" =>
        /\ Rests(r, h, CreateDirAll(r.fs, rel.path)) \in Reading
        /\ Rests(r, h, CreateFile(r.fs, rel.path, Upto(b.rest, h.size))) \in Reading
  <2> HIDE DEF rel, b, h
  <2> QED BY <1>4, <1>5, <1>6
<1> HIDE DEF b, h, rel
<1> QED BY <1>3, <1>7, <1>8, <1>9

(* The loop of extract_tar_to_dir, turn by turn. *)
LEMMA TurnsRec ==
  ASSUME TarConstants, NEW stream \in Seq(Units)
  PROVE  LET k == Turns(stream)
         IN  /\ k[0] = [rest |-> stream, fs |-> <<>>, done |-> "no"]
             /\ \A i \in 1..Len(stream) + 1 :
                  k[i] = IF k[i - 1].done = "no" THEN ExtractEntry(k[i - 1]) ELSE k[i - 1]
             /\ \A i \in 0..Len(stream) + 1 : k[i] \in Reading
<1> DEFINE n == Len(stream) + 1
           V == Reading
           z == [rest |-> stream, fs |-> <<>>, done |-> "no"]
           After(b) == IF b.done = "no" THEN ExtractEntry(b) ELSE b
           F == [x \in V \X (1..n) |-> After(x[1])]
           Is(g) == g = [i \in 0..n |-> IF i = 0 THEN z ELSE After(g[i - 1])]
           k == Turns(stream)
<1>1. n \in Nat /\ z \in V
  <2>1. Len(stream) \in Nat
    BY LenProperties
  <2>2. <<>> \in FileSystems
    <3>1. DOMAIN <<>> = {} /\ <<>> = [p \in {} |-> <<>>[p]]
      OBVIOUS
    <3>2. Under(<<>>)
      BY <3>1 DEF Under
    <3> QED BY <3>1, <3>2, FileSystemsIs
  <2> QED BY <2>1, <2>2 DEF Reading
<1>2. \A v \in V, i \in 1..n : F[<<v, i>>] = After(v) /\ After(v) \in V
  BY ExtractEntryStays
<1>3. \E g : Is(g)
  <2>1. Stays(F, V, n)
    BY <1>2 DEF Stays
  <2> HIDE DEF n, V, F, After, z
  <2>2. PICK g : Runs(g, F, V, z, n)
    BY <1>1, <2>1, LoopRuns
  <2>3. \A i \in 0..n : g[i] = IF i = 0 THEN z ELSE After(g[i - 1])
    <3>1. \A i \in 0..n : i = 0 \/ (i \in 1..n /\ i - 1 \in 0..n)
      BY <1>1
    <3> QED BY <2>2, <1>2, <3>1 DEF Runs
  <2>4. Is(g)
    BY <2>2, <2>3 DEF Runs
  <2> QED BY <2>4
<1>4. k = CHOOSE g : Is(g)
  BY DEF Turns
<1> HIDE DEF Is
<1>5. Is(k)
  BY <1>3, <1>4
<1>6. 0 \in 0..n /\ \A i \in 1..n : i \in 0..n /\ i # 0
  BY <1>1
<1>7. k[0] = z /\ \A i \in 1..n : k[i] = After(k[i - 1])
  <2> HIDE DEF After, n, k, z
  <2> QED BY <1>5, <1>6 DEF Is
<1>8. \A i \in 0..n : k[i] \in V
  <2> DEFINE T == {i \in 0..n : k[i] \in V}
  <2> HIDE DEF After, n, k, z, V
  <2>1. 0 \in T
    BY <1>1, <1>6, <1>7
  <2>2. ASSUME NEW i \in 1..n, i - 1 \in T PROVE i \in T
    <3>1. k[i] = After(k[i - 1]) /\ k[i - 1] \in V
      BY <1>7, <2>2
    <3>2. After(k[i - 1]) \in V
      BY <1>2, <3>1
    <3> QED BY <1>6, <3>1, <3>2
  <2> HIDE DEF T
  <2>3. 0..n \subseteq T
    BY <1>1, <2>1, <2>2, Climb
  <2> QED BY <2>3 DEF T
<1> QED BY <1>7, <1>8

(* Once the loop has ended nothing changes: what ended it is the result. *)
LEMMA TurnsStay ==
  ASSUME TarConstants, NEW stream \in Seq(Units), NEW j \in 0..Len(stream) + 1,
         Turns(stream)[j].done # "no"
  PROVE  Turns(stream)[Len(stream) + 1] = Turns(stream)[j]
<1> DEFINE n == Len(stream) + 1
           k == Turns(stream)
           T == {i \in 0..n : i >= j => k[i] = k[j]}
<1>1. n \in Nat
  BY LenProperties
<1>2. \A i \in 1..n : k[i] = IF k[i - 1].done = "no" THEN ExtractEntry(k[i - 1]) ELSE k[i - 1]
  BY TurnsRec
<1>3. j \in 0..n /\ k[j].done # "no"
  OBVIOUS
<1> HIDE DEF n, k
<1>4. 0 \in T
  BY <1>1, <1>3
<1>5. ASSUME NEW i \in 1..n, i - 1 \in T PROVE i \in T
  <2> SUFFICES ASSUME i >= j PROVE i \in 0..n /\ k[i] = k[j]
    BY <1>1
  <2>1. i \in 0..n
    BY <1>1
  <2>2. CASE i = j
    BY <2>1, <2>2
  <2>3. CASE i # j
    <3>1. i - 1 >= j
      BY <1>1, <1>3, <2>3
    <3>2. k[i - 1] = k[j]
      BY <1>5, <3>1
    <3> QED BY <1>2, <1>3, <2>1, <3>2
  <2> QED BY <2>2, <2>3
<1>6. 0..n \subseteq T
  <2> HIDE DEF T
  <2> QED BY <1>1, <1>4, <1>5, Climb
<1>7. n \in 0..n /\ n >= j
  BY <1>1, <1>3
<1>8. k[n] = k[j]
  BY <1>6, <1>7
<1> QED BY <1>8 DEF n, k

LEMMA ExtractBelow ==
  ASSUME TarConstants, NEW stream \in Seq(Units)
  PROVE  ExtractTarToDir(stream).fs \in FileSystems
<1>1. Len(stream) + 1 \in 0..Len(stream) + 1
  <2>1. Len(stream) \in Nat
    BY LenProperties
  <2> QED BY <2>1
<1>2. Turns(stream)[Len(stream) + 1] \in Reading
  BY <1>1, TurnsRec
<1>3. ExtractTarToDir(stream).fs = Turns(stream)[Len(stream) + 1].fs
  BY DEF ExtractTarToDir
<1> QED BY <1>2, <1>3 DEF Reading

-----------------------------------------------------------------------------
(* The paths of a tree have plain names, and the names have an order. *)
Ranked(p) == \A i \in 1..Len(p) : Rank(p[i]) \in Nat

LEMMA UptoNat == ASSUME NEW n, NEW k \in 1..n PROVE k \in Nat
OBVIOUS

LEMMA Between == ASSUME NEW a \in Nat, NEW b \in Nat, a <= b, b <= a PROVE a = b
OBVIOUS

LEMMA TreePathIs ==
  ASSUME TreeInputs, NEW p \in Seq(ToSet(NameOrder))
  PROVE  Names(p) /\ Ranked(p)
<1> DEFINE N == ToSet(NameOrder)
<1>1. NameOrder \in Seq(STRING) /\ N \cap {"", ".", ".."} = {}
  BY DEF TreeInputs, NotNames
<1>2. DOMAIN NameOrder = 1..Len(NameOrder) /\ Len(NameOrder) \in Nat
  BY <1>1, LenProperties
<1>3. ASSUME NEW c \in N PROVE c \in STRING /\ Plain(c) /\ Rank(c) \in Nat
  <2>1. PICK i \in DOMAIN NameOrder : NameOrder[i] = c
    BY DEF ToSet
  <2>2. c \in STRING
    <3>1. i \in 1..Len(NameOrder)
      BY <1>2
    <3>2. NameOrder[i] \in STRING
      BY <1>1, <3>1, ElementOfSeq
    <3> QED BY <2>1, <3>2
  <2>3. Plain(c)
    BY <1>1 DEF Plain
  <2>4. Rank(c) \in DOMAIN NameOrder
    BY <2>1 DEF Rank
  <2>5. Rank(c) \in Nat
    <3>1. Rank(c) \in 1..Len(NameOrder)
      BY <1>2, <2>4
    <3> QED BY <3>1, UptoNat
  <2> QED BY <2>2, <2>3, <2>5
<1> HIDE DEF N
<1>4. Len(p) \in Nat /\ DOMAIN p = 1..Len(p) /\ \A i \in 1..Len(p) : p[i] \in N
  BY LenProperties, ElementOfSeq DEF N
<1>5. p \in Seq(STRING)
  <2>1. p \in [1..Len(p) -> N]
    BY LenProperties DEF N
  <2>2. p \in [1..Len(p) -> STRING]
    BY <1>3, <2>1
  <2> QED BY <1>4, <2>2, SeqDef
<1>6. ASSUME NEW x, Has(p, x) PROVE Plain(x)
  BY <1>3, <1>4, <1>6 DEF Has
<1>7. Ranked(p)
  BY <1>3, <1>4 DEF Ranked
<1> QED BY <1>5, <1>6, <1>7 DEF Names

(* In which order the frames come to two paths. *)
Agree(p, q, n) == \A j \in 1..n : p[j] = q[j]
Ahead(p, q) ==
  \/ Len(p) < Len(q) /\ Agree(p, q, Len(p))
  \/ \E i \in 1..Len(p) : /\ i <= Len(q) /\ Rank(p[i]) < Rank(q[i])
                          /\ Agree(p, q, i - 1)

LEMMA VisitedIs ==
  ASSUME NEW p \in Seq(STRING), NEW q \in Seq(STRING)
  PROVE  Visited(p, q) <=> Ahead(p, q)
<1>1. /\ Len(p) \in Nat /\ Len(q) \in Nat
      /\ DOMAIN p = 1..Len(p) /\ DOMAIN q = 1..Len(q)
  BY LenProperties
<1>2. IsStrictPrefix(p, q) <=> Len(p) < Len(q) /\ Agree(p, q, Len(p))
  <2>1. IsPrefix(p, q) <=> Len(p) <= Len(q) /\ Agree(p, q, Len(p))
    BY PrefixIs DEF Agree
  <2>2. Len(p) = Len(q) /\ Agree(p, q, Len(p)) => p = q
    BY SeqEqual DEF Agree
  <2>3. \A m, n \in Nat : (m <= n <=> m < n \/ m = n) /\ ~(m < m)
    OBVIOUS
  <2>4. (Len(p) <= Len(q) <=> Len(p) < Len(q) \/ Len(p) = Len(q)) /\ ~(Len(p) < Len(p))
    BY <1>1, <2>3
  <2> QED BY <2>1, <2>2, <2>4 DEF IsStrictPrefix
<1>3. ASSUME NEW i \in 1..Len(p), i <= Len(q)
      PROVE  SubSeq(p, 1, i - 1) = SubSeq(q, 1, i - 1) <=> Agree(p, q, i - 1)
  <2>1. /\ 1 \in 1..Len(p) + 1 /\ 1 \in 1..Len(q) + 1 /\ i - 1 \in 1 - 1..Len(p)
        /\ i - 1 \in 1 - 1..Len(q) /\ (i - 1) - 1 + 1 = i - 1
        /\ \A j \in 1..i - 1 : 1 + j - 1 = j
    BY <1>1, <1>3
  <2> DEFINE a == SubSeq(p, 1, i - 1)
             b == SubSeq(q, 1, i - 1)
  <2>2. a \in Seq(STRING) /\ Len(a) = i - 1 /\ \A j \in 1..i - 1 : a[j] = p[j]
    BY <2>1, SubSeqIs
  <2>3. b \in Seq(STRING) /\ Len(b) = i - 1 /\ \A j \in 1..i - 1 : b[j] = q[j]
    BY <2>1, SubSeqIs
  <2> HIDE DEF a, b
  <2>4. ASSUME Agree(p, q, i - 1) PROVE a = b
    <3>1. \A j \in 1..i - 1 : a[j] = b[j]
      BY <2>2, <2>3, <2>4 DEF Agree
    <3> QED BY <2>2, <2>3, <3>1, SeqEqual
  <2>5. ASSUME a = b PROVE Agree(p, q, i - 1)
    BY <2>2, <2>3, <2>5 DEF Agree
  <2> QED BY <2>4, <2>5 DEF a, b
<1>4. \A i : i \in DOMAIN p \cap DOMAIN q <=> i \in 1..Len(p) /\ i <= Len(q)
  BY <1>1
<1>5. Visited(p, q) <=>
        \/ IsStrictPrefix(p, q)
        \/ \E i \in DOMAIN p \cap DOMAIN q :
             /\ Rank(p[i]) < Rank(q[i])
             /\ SubSeq(p, 1, i - 1) = SubSeq(q, 1, i - 1)
  BY DEF Visited
<1> QED BY <1>2, <1>3, <1>4, <1>5 DEF Ahead

LEMMA AheadOrders ==
  ASSUME NEW p \in Seq(STRING), NEW q \in Seq(STRING), NEW r \in Seq(STRING),
         Ranked(p), Ranked(q), Ranked(r)
  PROVE  ~Ahead(p, p) /\ (Ahead(p, q) /\ Ahead(q, r) => Ahead(p, r))
<1>1. Len(p) \in Nat /\ Len(q) \in Nat /\ Len(r) \in Nat
  BY LenProperties
<1>2. ~Ahead(p, p)
  BY <1>1 DEF Ahead, Ranked
<1>3. ASSUME NEW n \in Nat, NEW m \in Nat, n <= m, Agree(p, q, n), Agree(q, r, m)
      PROVE  Agree(p, r, n)
  <2>1. \A j \in 1..n : j \in 1..m
    BY <1>3
  <2> QED BY <1>3, <2>1 DEF Agree
<1>4. ASSUME NEW n \in Nat, NEW m \in Nat, m <= n, Agree(p, q, n), Agree(q, r, m)
      PROVE  Agree(p, r, m)
  <2>1. \A j \in 1..m : j \in 1..n
    BY <1>4
  <2> QED BY <1>4, <2>1 DEF Agree
<1>5. CASE Len(p) < Len(q) /\ Agree(p, q, Len(p))
  <2>1. ASSUME Len(q) < Len(r), Agree(q, r, Len(q)) PROVE Ahead(p, r)
    <3>1. Len(p) < Len(r) /\ Len(p) <= Len(q)
      BY <1>1, <1>5, <2>1
    <3>2. Agree(p, r, Len(p))
      BY <1>1, <1>3, <1>5, <2>1, <3>1
    <3> QED BY <3>1, <3>2 DEF Ahead
  <2>2. ASSUME NEW i \in 1..Len(q), i <= Len(r), Rank(q[i]) < Rank(r[i]), Agree(q, r, i - 1)
        PROVE  Ahead(p, r)
    <3>1. i - 1 \in Nat
      BY <1>1
    <3>2. CASE i <= Len(p)
      <4>1. i \in 1..Len(p) /\ p[i] = q[i] /\ i - 1 <= Len(p)
        BY <1>1, <1>5, <3>2 DEF Agree
      <4>2. Agree(p, r, i - 1)
        BY <1>1, <1>4, <1>5, <2>2, <3>1, <4>1
      <4>3. Rank(p[i]) < Rank(r[i])
        BY <2>2, <4>1
      <4> QED BY <2>2, <4>1, <4>2, <4>3 DEF Ahead
    <3>3. CASE ~(i <= Len(p))
      <4>1. Len(p) <= i - 1 /\ Len(p) < Len(r)
        BY <1>1, <2>2, <3>3
      <4>2. Agree(p, r, Len(p))
        BY <1>1, <1>3, <1>5, <2>2, <3>1, <4>1
      <4> QED BY <4>1, <4>2 DEF Ahead
    <3> QED BY <3>2, <3>3
  <2>3. ASSUME Ahead(q, r) PROVE Ahead(p, r)
    <3>1. CASE Len(q) < Len(r) /\ Agree(q, r, Len(q))
      BY <2>1, <3>1
    <3>2. CASE \E i \in 1..Len(q) : /\ i <= Len(r) /\ Rank(q[i]) < Rank(r[i])
                                    /\ Agree(q, r, i - 1)
      BY <2>2, <3>2
    <3> QED BY <2>3, <3>1, <3>2 DEF Ahead
  <2> QED BY <1>2, <2>3
<1>6. ASSUME NEW k \in 1..Len(p), k <= Len(q), Rank(p[k]) < Rank(q[k]), Agree(p, q, k - 1),
             Ahead(q, r)
      PROVE  Ahead(p, r)
  <2>1. k - 1 \in Nat
    BY <1>1
  <2>2. CASE Len(q) < Len(r) /\ Agree(q, r, Len(q))
    <3>1. k <= Len(r) /\ k - 1 <= Len(q) /\ k \in 1..Len(q)
      BY <1>1, <1>6, <2>2
    <3>2. q[k] = r[k]
      BY <2>2, <3>1 DEF Agree
    <3>3. Agree(p, r, k - 1)
      BY <1>1, <1>3, <1>6, <2>1, <2>2, <3>1
    <3>4. Rank(p[k]) < Rank(r[k])
      BY <1>6, <3>2
    <3> QED BY <3>1, <3>3, <3>4 DEF Ahead
  <2>3. ASSUME NEW i \in 1..Len(q), i <= Len(r), Rank(q[i]) < Rank(r[i]), Agree(q, r, i - 1)
        PROVE  Ahead(p, r)
    <3>1. i - 1 \in Nat /\ k \in 1..Len(q)
      BY <1>1, <1>6
    <3>2. CASE i < k
      <4>1. i \in 1..k - 1 /\ i \in 1..Len(p) /\ i - 1 <= k - 1
        BY <1>1, <3>2
      <4>2. p[i] = q[i]
        BY <1>6, <4>1 DEF Agree
      <4>3. Agree(p, r, i - 1)
        BY <1>4, <1>6, <2>1, <2>3, <3>1, <4>1
      <4>4. Rank(p[i]) < Rank(r[i])
        BY <2>3, <4>2
      <4> QED BY <2>3, <4>1, <4>3, <4>4 DEF Ahead
    <3>3. CASE i = k
      <4>1. /\ Rank(p[k]) \in Nat /\ Rank(q[k]) \in Nat
            /\ Rank(r[k]) \in Nat /\ k <= Len(r)
        BY <1>1, <2>3, <3>1, <3>3 DEF Ranked
      <4>2. Rank(p[k]) < Rank(r[k])
        BY <1>6, <2>3, <3>3, <4>1
      <4>3. Agree(p, r, k - 1)
        BY <1>3, <1>6, <2>1, <2>3, <3>3
      <4> QED BY <4>1, <4>2, <4>3 DEF Ahead
    <3>4. CASE k < i
      <4>1. k \in 1..i - 1 /\ k <= Len(r) /\ k - 1 <= i - 1
        BY <1>1, <2>3, <3>4
      <4>2. q[k] = r[k]
        BY <2>3, <4>1 DEF Agree
      <4>3. Agree(p, r, k - 1)
        BY <1>3, <1>6, <2>1, <2>3, <3>1, <4>1
      <4>4. Rank(p[k]) < Rank(r[k])
        BY <1>6, <4>2
      <4> QED BY <4>1, <4>3, <4>4 DEF Ahead
    <3> QED BY <1>1, <3>2, <3>3, <3>4
  <2> QED BY <1>6, <2>2, <2>3 DEF Ahead
<1> QED BY <1>2, <1>5, <1>6 DEF Ahead

(* Of the paths that are left one comes first. *)
LEMMA ForemostIs ==
  ASSUME TreeInputs, NEW L, IsFiniteSet(L), L # {},
         \A p \in L : p \in Seq(ToSet(NameOrder))
  PROVE  Foremost(L) \in L
<1> DEFINE B(p) == {q \in L : Visited(q, p)}
           T == {Cardinality(B(p)) : p \in L}
<1>1. \A p \in L : p \in Seq(STRING) /\ Ranked(p)
  BY TreePathIs DEF Names
<1>2. \A p \in L : B(p) \in SUBSET L /\ IsFiniteSet(B(p)) /\ Cardinality(B(p)) \in Nat
  <2>1. \A p \in L : B(p) \in SUBSET L
    OBVIOUS
  <2> HIDE DEF B
  <2> QED BY <2>1, FS_Subset, FS_CardinalityType
<1> HIDE DEF B
<1>3. T \subseteq Nat /\ T # {}
  BY <1>2
<1>4. PICK c \in T : \A m \in T : c <= m
  <2> HIDE DEF T
  <2> QED BY <1>3, Least
<1>5. PICK p \in L : c = Cardinality(B(p))
  BY <1>4
<1>6. ASSUME NEW q \in L, Visited(q, p) PROVE FALSE
  <2>1. Ahead(q, p)
    BY <1>1, <1>6, VisitedIs
  <2>2. B(q) \subseteq B(p)
    <3> SUFFICES ASSUME NEW o \in L, Visited(o, q) PROVE Visited(o, p)
      BY DEF B
    <3>1. Ahead(o, q)
      BY <1>1, VisitedIs
    <3>2. Ahead(o, p)
      BY <1>1, <2>1, <3>1, AheadOrders
    <3> QED BY <1>1, <3>2, VisitedIs
  <2>3. q \in B(p) /\ q \notin B(q)
    <3>1. ~Visited(q, q)
      BY <1>1, VisitedIs, AheadOrders
    <3> QED BY <1>6, <3>1 DEF B
  <2>4. Cardinality(B(q)) <= Cardinality(B(p)) /\ Cardinality(B(q)) # Cardinality(B(p))
    <3>1. B(q) \in SUBSET B(p) /\ B(q) # B(p) /\ IsFiniteSet(B(p))
      BY <1>2, <2>2, <2>3
    <3> QED BY <3>1, FS_Subset
  <2>5. Cardinality(B(p)) <= Cardinality(B(q))
    BY <1>4, <1>5
  <2>6. Cardinality(B(p)) \in Nat /\ Cardinality(B(q)) \in Nat
    BY <1>2
  <2> QED BY <2>4, <2>5, <2>6, Between
<1>7. \E x \in L : \A q \in L : ~Visited(q, x)
  BY <1>6
<1> QED BY <1>7 DEF Foremost

(* What the digits of the size field can hold. *)
LEMMA OctalsIs ==
  ASSUME TarConstants
  PROVE  Octals \in Nat /\ Octals > 0
<1> DEFINE n == SizeDigits
           V == Nat \ {0}
           z == 1
           After(b) == 8 * b
           F == [x \in V \X (1..n) |-> After(x[1])]
           Is(g) == g = [i \in 0..n |-> IF i = 0 THEN z ELSE After(g[i - 1])]
           k == CHOOSE g : Is(g)
<1>1. n \in Nat /\ z \in V
  BY DEF TarConstants
<1>2. \A v \in V, i \in 1..n : F[<<v, i>>] = After(v) /\ After(v) \in V
  OBVIOUS
<1>3. \E g : Is(g)
  <2>1. Stays(F, V, n)
    BY <1>2 DEF Stays
  <2> HIDE DEF n, V, F, After, z
  <2>2. PICK g : Runs(g, F, V, z, n)
    BY <1>1, <2>1, LoopRuns
  <2>3. \A i \in 0..n : g[i] = IF i = 0 THEN z ELSE After(g[i - 1])
    <3>1. \A i \in 0..n : i = 0 \/ (i \in 1..n /\ i - 1 \in 0..n)
      BY <1>1
    <3> QED BY <2>2, <1>2, <3>1 DEF Runs
  <2>4. Is(g)
    BY <2>2, <2>3 DEF Runs
  <2> QED BY <2>4
<1>4. Octals = k[n]
  BY DEF Octals
<1> HIDE DEF Is
<1>5. Is(k)
  BY <1>3
<1> HIDE DEF k
<1>6. 0 \in 0..n /\ \A i \in 1..n : i \in 0..n /\ i # 0
  BY <1>1
<1>7. k[0] = z /\ \A i \in 1..n : k[i] = After(k[i - 1])
  <2> HIDE DEF After, n, z
  <2> QED BY <1>5, <1>6 DEF Is
<1>8. \A i \in 0..n : k[i] \in V
  <2> DEFINE T == {i \in 0..n : k[i] \in V}
  <2> HIDE DEF After, n, z, V
  <2>1. 0 \in T
    BY <1>1, <1>6, <1>7
  <2>2. ASSUME NEW i \in 1..n, i - 1 \in T PROVE i \in T
    <3>1. k[i] = After(k[i - 1]) /\ k[i - 1] \in V
      BY <1>7, <2>2
    <3>2. After(k[i - 1]) \in V
      BY <1>2, <3>1
    <3> QED BY <1>6, <3>1, <3>2
  <2> HIDE DEF T
  <2>3. 0..n \subseteq T
    BY <1>1, <2>1, <2>2, Climb
  <2> QED BY <2>3 DEF T
<1>9. n \in 0..n
  BY <1>1
<1>10. k[n] \in V
  BY <1>8, <1>9
<1> QED BY <1>4, <1>10

(* The spellings of a path in a header: of a directory it ends with a      *)
(* slash, and another tar puts "./" in front.                              *)
BlankUnit(c) == c = ""
Spelled(q, p) == q = p \/ q = Append(p, "")

LEMMA TwoIs ==
  ASSUME NEW a, NEW b
  PROVE  Len(<<a, b>>) = 2 /\ <<a, b>>[1] = a /\ <<a, b>>[2] = b
OBVIOUS

LEMMA LiteralIs ==
  ASSUME StreamInputs
  PROVE  "" \in STRING /\ "." \in STRING /\ TopEntry \in HeaderUnits
<1> DEFINE h == TopEntry
           w == h.name
<1>1. h \in Units
  BY DEF StreamInputs
<1>2. h.name = <<".", "">> /\ h.flag = "5"
  BY DEF TopEntry
<1> HIDE DEF h
<1>3. h \in HeaderUnits
  BY <1>1, <1>2 DEF Units, ByteUnits
<1>4. w \in Seq(STRING)
  BY <1>3 DEF HeaderUnits
<1> HIDE DEF w
<1>5. Len(w) = 2 /\ w[1] = "." /\ w[2] = ""
  <2> DEFINE x == "."
             y == ""
  <2>1. w = <<x, y>>
    BY <1>2 DEF w
  <2> HIDE DEF x, y
  <2>2. Len(<<x, y>>) = 2 /\ <<x, y>>[1] = x /\ <<x, y>>[2] = y
    BY TwoIs
  <2>3. Len(w) = 2 /\ w[1] = x /\ w[2] = y
    BY <2>1, <2>2
  <2> QED BY <2>3, Zenon DEF x, y
<1>6. w[1] \in STRING /\ w[2] \in STRING
  <2>1. Len(w) = 2
    BY <1>5
  <2>2. 1 \in 1..Len(w) /\ 2 \in 1..Len(w)
    BY <2>1
  <2> QED BY <1>4, <2>2, ElementOfSeq
<1> QED BY <1>3, <1>5, <1>6, Zenon DEF h

LEMMA SpelledIs ==
  ASSUME StreamInputs, NEW p, Names(p), p # <<>>, NEW q, Spelled(q, p)
  PROVE  /\ q \in Seq(STRING) /\ Len(p) \in Nat /\ Len(p) > 0
         /\ Len(q) = Len(p) \/ (Len(q) = Len(p) + 1 /\ BlankUnit(q[Len(p) + 1]))
         /\ \A i \in 1..Len(p) : q[i] = p[i] /\ Plain(p[i])
<1>1. p \in Seq(STRING) /\ Len(p) \in Nat /\ Len(p) > 0
  BY LenProperties, EmptySeq DEF Names
<1>2. \A i \in 1..Len(p) : Plain(p[i])
  BY DEF Names, Has
<1>3. CASE q = p
  BY <1>1, <1>2, <1>3
<1>4. CASE q = Append(p, "")
  <2> DEFINE x == ""
  <2>1. x \in STRING /\ BlankUnit(x)
    BY LiteralIs DEF BlankUnit
  <2> HIDE DEF x
  <2>2. Append(p, x) \in Seq(STRING)
    BY <1>1, <2>1, AppendProperties
  <2>3. Len(Append(p, x)) = Len(p) + 1
    BY <1>1, <2>1, AppendProperties
  <2>4. \A i \in 1..Len(p) : Append(p, x)[i] = p[i]
    BY <1>1, <2>1, AppendProperties
  <2>5. Append(p, x)[Len(p) + 1] = x
    BY <1>1, <2>1, AppendProperties
  <2>6. q = Append(p, x)
    BY <1>4 DEF x
  <2> QED BY <1>1, <1>2, <2>1, <2>2, <2>3, <2>4, <2>5, <2>6
<1> QED BY <1>3, <1>4 DEF Spelled

LEMMA ComponentsSpelled ==
  ASSUME StreamInputs, NEW p, Names(p), p # <<>>, NEW q, Spelled(q, p)
  PROVE  Components(q) = p
<1> DEFINE n == Len(q)
           l == Len(p)
           k == Scanned(q)
           T == {i \in 0..l : k[i] = SubSeq(p, 1, i)}
<1>1. /\ q \in Seq(STRING) /\ l \in Nat /\ l > 0
      /\ n = l \/ (n = l + 1 /\ BlankUnit(q[l + 1]))
      /\ \A i \in 1..l : q[i] = p[i] /\ Plain(p[i])
  BY SpelledIs
<1>2. /\ k[0] = <<>>
      /\ \A i \in 1..n : k[i] = IF q[i] \in {"", "."} THEN k[i - 1] ELSE Append(k[i - 1], q[i])
  BY <1>1, ScannedRec
<1>3. p \in Seq(STRING)
  BY DEF Names
<1>4. k[n] = Components(q)
  BY DEF Components
<1> HIDE DEF n, k
<1>5. 0 \in T
  <2>1. SubSeq(p, 1, 0) = <<>>
    BY SubSeqEmpty
  <2>2. 0 \in 0..l
    BY <1>1
  <2>3. k[0] = SubSeq(p, 1, 0)
    BY <1>2, <2>1
  <2> QED BY <2>2, <2>3
<1>6. ASSUME NEW i \in 1..l, i - 1 \in T PROVE i \in T
  <2>1. i \in 1..n /\ i \in 0..l /\ 1 \in 1..Len(p) /\ i \in 1..Len(p)
    BY <1>1
  <2>2. k[i - 1] = SubSeq(p, 1, i - 1)
    BY <1>6
  <2>3. q[i] = p[i] /\ q[i] \notin {"", "."}
    BY <1>1 DEF Plain
  <2>4. k[i] = Append(SubSeq(p, 1, i - 1), p[i])
    BY <1>2, <2>1, <2>2, <2>3
  <2>5. SubSeq(p, 1, i) = Append(SubSeq(p, 1, i - 1), p[i])
    <3>1. SubSeq(p, 1, i) = SubSeq(p, 1, i - 1) \o <<p[i]>>
      BY <1>3, <2>1, SubSeqRecursiveSecond
    <3>2. i - 1 \in 1 - 1..Len(p) /\ 1 \in 1..Len(p) + 1
      BY <1>1
    <3>3. SubSeq(p, 1, i - 1) \in Seq(STRING)
      BY <1>3, <3>2, SubSeqIs
    <3>4. p[i] \in STRING
      BY <1>3, <2>1, ElementOfSeq
    <3> QED BY <3>1, <3>3, <3>4, AppendIsConcat
  <2> QED BY <2>1, <2>4, <2>5
<1>7. l \in 0..l /\ 0..l \subseteq T
  <2>1. l \in 0..l
    BY <1>1
  <2>2. 0..l \subseteq T
    <3> HIDE DEF T, l
    <3> QED BY <1>1, <1>5, <1>6, Climb
  <2> QED BY <2>1, <2>2
<1>8. k[l] = p
  <2>1. k[l] = SubSeq(p, 1, l)
    BY <1>7
  <2>2. SubSeq(p, 1, l) = p
    BY <1>3, SubSeqFull
  <2> QED BY <2>1, <2>2
<1>9. CASE n = l
  BY <1>4, <1>8, <1>9
<1>10. CASE n = l + 1 /\ BlankUnit(q[l + 1])
  <2>0. n \in 1..n /\ n - 1 = l
    BY <1>1, <1>10
  <2>1. q[n] \in {"", "."}
    BY <1>10 DEF BlankUnit
  <2>2. k[n] = k[l]
    BY <1>2, <2>0, <2>1
  <2> QED BY <1>4, <1>8, <2>2
<1> QED BY <1>1, <1>9, <1>10

IsDot(c) == c = "."
Led(w, q) == w = q \/ w = <<".">> \o q

LEMMA DottedPath ==
  ASSUME StreamInputs, NEW q \in Seq(STRING)
  PROVE  LET w == <<".">> \o q
         IN  /\ w \in Seq(STRING) /\ Len(q) \in Nat /\ Len(w) = Len(q) + 1 /\ IsDot(w[1])
             /\ \A i \in 1..Len(q) : w[i + 1] = q[i]
<1> DEFINE x == "."
<1>1. x \in STRING /\ IsDot(x)
  BY LiteralIs DEF IsDot
<1> HIDE DEF x
<1>2. <<x>> \in Seq(STRING) /\ Len(<<x>>) = 1 /\ <<x>>[1] = x
  BY <1>1, OneIs
<1> DEFINE a == <<x>>
<1> HIDE DEF a
<1>3. /\ a \o q \in Seq(STRING) /\ Len(q) \in Nat /\ Len(a \o q) = Len(a) + Len(q)
      /\ \A i \in 1..Len(a) : (a \o q)[i] = a[i]
      /\ \A i \in 1..Len(q) : (a \o q)[Len(a) + i] = q[i]
  BY <1>2, ConcatIs DEF a
<1>4. Len(a) = 1 /\ a[1] = x
  BY <1>2 DEF a
<1>5. Len(a \o q) = Len(q) + 1 /\ (a \o q)[1] = x
  BY <1>3, <1>4
<1>6. \A i \in 1..Len(q) : (a \o q)[i + 1] = q[i]
  BY <1>3, <1>4
<1> QED BY <1>1, <1>3, <1>5, <1>6 DEF a, x

LEMMA SanitizeSpelled ==
  ASSUME StreamInputs, NEW p, Names(p), p # <<>>, NEW q, Spelled(q, p), NEW w, Led(w, q)
  PROVE  LET r == SanitizeTarPath(w)
         IN  r.err = "none" /\ r.path = p
<1>1. /\ q \in Seq(STRING) /\ Len(p) \in Nat /\ Len(p) > 0
      /\ Len(q) = Len(p) \/ (Len(q) = Len(p) + 1 /\ BlankUnit(q[Len(p) + 1]))
      /\ \A i \in 1..Len(p) : q[i] = p[i] /\ Plain(p[i])
  BY SpelledIs
<1>2. Len(q) \in Nat /\ Len(q) > 0
  BY <1>1
<1>3. Plain(q[1]) /\ ~IsDot(q[1])
  <2>1. 1 \in 1..Len(p)
    BY <1>1
  <2>2. Plain(q[1])
    BY <1>1, <2>1
  <2> QED BY <2>2 DEF Plain, IsDot
<1>4. WithoutDots(w) = q
  <2>1. CASE w = q
    <3>1. q # <<>>
      BY <1>2, EmptySeq
    <3>2. PICK n \in 0..Len(q) - 1 : Dots(q, n) /\ WithoutDots(q) = SubSeq(q, n + 1, Len(q))
      BY <1>1, <3>1, WithoutDotsIs
    <3>3. \A i \in 1..n : IsDot(q[i])
      BY <3>2 DEF Dots, IsDot
    <3>4. n = 0
      <4> SUFFICES ASSUME n # 0 PROVE FALSE
        OBVIOUS
      <4>1. 1 \in 1..n
        BY <1>2
      <4> QED BY <1>3, <3>3, <4>1
    <3>5. SubSeq(q, n + 1, Len(q)) = q
      <4>1. n + 1 = 1
        BY <3>4
      <4> QED BY <1>1, <4>1, SubSeqFull
    <3> QED BY <2>1, <3>2, <3>5
  <2>2. CASE w = <<".">> \o q
    <3>1. /\ w \in Seq(STRING) /\ Len(w) = Len(q) + 1 /\ IsDot(w[1])
          /\ \A i \in 1..Len(q) : w[i + 1] = q[i]
      BY <1>1, <2>2, DottedPath
    <3>2. w # <<>>
      BY <1>2, <3>1, EmptySeq
    <3>3. PICK n \in 0..Len(w) - 1 : Dots(w, n) /\ WithoutDots(w) = SubSeq(w, n + 1, Len(w))
      BY <3>1, <3>2, WithoutDotsIs
    <3>4. (\A i \in 1..n : IsDot(w[i])) /\ (n = Len(w) - 1 \/ ~IsDot(w[n + 1]))
      BY <3>3 DEF Dots, IsDot
    <3>5. ~IsDot(w[2])
      <4>1. 1 \in 1..Len(q) /\ 1 + 1 = 2
        BY <1>2
      <4>2. w[1 + 1] = q[1]
        BY <3>1, <4>1
      <4> QED BY <1>3, <4>1, <4>2
    <3>6. n = 1
      <4>1. n # 0
        <5> SUFFICES ASSUME n = 0 PROVE FALSE
          OBVIOUS
        <5>1. n # Len(w) - 1 /\ n + 1 = 1
          BY <1>2, <3>1
        <5> QED BY <3>1, <3>4, <5>1
      <4>2. ~(n >= 2)
        <5> SUFFICES ASSUME n >= 2 PROVE FALSE
          OBVIOUS
        <5>1. 2 \in 1..n
          BY <1>2, <3>1
        <5> QED BY <3>4, <3>5, <5>1
      <4> QED BY <1>2, <3>1, <4>1, <4>2
    <3>7. SubSeq(w, n + 1, Len(w)) = q
      <4>1. End(w, 1) = SubSeq(w, n + 1, Len(w))
        BY <3>6 DEF End
      <4>2. 1 \in 0..Len(w)
        BY <1>2, <3>1
      <4>3. /\ End(w, 1) \in Seq(STRING) /\ Len(End(w, 1)) = Len(w) - 1
            /\ \A i \in 1..Len(w) - 1 : End(w, 1)[i] = w[1 + i]
        <5>1. w \in Seq(STRING)
          BY <3>1
        <5> HIDE <3>1
        <5> QED BY <4>2, <5>1, EndIs
      <4>4. Len(w) - 1 = Len(q) /\ \A i \in 1..Len(q) : 1 + i = i + 1
        BY <1>2, <3>1
      <4>5. \A i \in 1..Len(q) : End(w, 1)[i] = q[i]
        BY <3>1, <4>3, <4>4
      <4>6. End(w, 1) = q
        BY <1>1, <4>3, <4>4, <4>5, SeqEqual
      <4> QED BY <4>1, <4>6
    <3> QED BY <3>3, <3>7
  <2> QED BY <2>1, <2>2 DEF Led
<1>5. Components(q) = p
  BY ComponentsSpelled
<1>6. q # <<"">> /\ ~Absolute(q) /\ ".." \notin ToSet(q)
  <2>1. q[1] # ""
    BY <1>3 DEF Plain
  <2>2. q # <<"">>
    <3> DEFINE x == ""
    <3>1. q[1] # x
      BY <2>1
    <3> HIDE DEF x
    <3>2. <<x>>[1] = x
      OBVIOUS
    <3>3. q # <<x>>
      BY <3>1, <3>2
    <3> QED BY <3>3 DEF x
  <2>3. ~Absolute(q)
    BY <2>1 DEF Absolute
  <2>4. ~Has(q, "..")
    <3> SUFFICES ASSUME NEW j \in 1..Len(q) PROVE q[j] # ".."
      BY DEF Has
    <3>1. CASE j \in 1..Len(p)
      <4>1. Plain(q[j])
        BY <1>1, <3>1
      <4> QED BY <4>1 DEF Plain
    <3>2. CASE j \notin 1..Len(p)
      <4>1. j = Len(p) + 1 /\ BlankUnit(q[Len(p) + 1])
        BY <1>1, <1>2, <3>2
      <4>2. BlankUnit(q[j])
        BY <4>1
      <4> QED BY <4>2 DEF BlankUnit
    <3> QED BY <3>1, <3>2
  <2> QED BY <1>1, <2>2, <2>3, <2>4, HasIs
<1>7. SanitizeTarPath(w) = [path |-> p, err |-> "none"]
  BY <1>4, <1>5, <1>6 DEF SanitizeTarPath
<1> QED BY <1>7

(* Beginnings and ends of a concatenation. *)
LEMMA TakeConcat ==
  ASSUME NEW S, NEW a \in Seq(S), NEW b \in Seq(S), NEW n \in 0..Len(a)
  PROVE  SubSeq(a \o b, 1, n) = SubSeq(a, 1, n)
<1> DEFINE c == a \o b
<1>1. /\ c \in Seq(S) /\ Len(c) = Len(a) + Len(b) /\ Len(a) \in Nat /\ Len(b) \in Nat
      /\ \A i \in 1..Len(a) : c[i] = a[i]
  BY ConcatIs
<1> HIDE DEF c
<1>2. /\ 1 \in 1..Len(a) + 1 /\ n \in 1 - 1..Len(a) /\ 1 \in 1..Len(c) + 1 /\ n \in 1 - 1..Len(c)
      /\ n - 1 + 1 = n /\ \A i \in 1..n : 1 + i - 1 = i /\ i \in 1..Len(a)
  BY <1>1
<1>3. /\ SubSeq(c, 1, n) \in Seq(S) /\ Len(SubSeq(c, 1, n)) = n
      /\ \A i \in 1..n : SubSeq(c, 1, n)[i] = c[i]
  BY <1>1, <1>2, SubSeqIs
<1>4. /\ SubSeq(a, 1, n) \in Seq(S) /\ Len(SubSeq(a, 1, n)) = n
      /\ \A i \in 1..n : SubSeq(a, 1, n)[i] = a[i]
  BY <1>2, SubSeqIs
<1>5. \A i \in 1..n : SubSeq(c, 1, n)[i] = SubSeq(a, 1, n)[i]
  BY <1>1, <1>2, <1>3, <1>4
<1>6. SubSeq(c, 1, n) = SubSeq(a, 1, n)
  BY <1>3, <1>4, <1>5, SeqEqual
<1> QED BY <1>6 DEF c

LEMMA DropConcat ==
  ASSUME NEW S, NEW a \in Seq(S), NEW b \in Seq(S)
  PROVE  SubSeq(a \o b, Len(a) + 1, Len(a \o b)) = b
<1> DEFINE c == a \o b
<1>1. /\ c \in Seq(S) /\ Len(c) = Len(a) + Len(b) /\ Len(a) \in Nat /\ Len(b) \in Nat
      /\ \A i \in 1..Len(b) : c[Len(a) + i] = b[i]
  BY ConcatIs
<1> HIDE DEF c
<1>2. Len(a) \in 0..Len(c) /\ Len(c) - Len(a) = Len(b)
  BY <1>1
<1>3. /\ End(c, Len(a)) \in Seq(S) /\ Len(End(c, Len(a))) = Len(c) - Len(a)
      /\ \A i \in 1..Len(c) - Len(a) : End(c, Len(a))[i] = c[Len(a) + i]
  BY <1>1, <1>2, EndIs
<1>4. \A i \in 1..Len(b) : End(c, Len(a))[i] = b[i]
  BY <1>1, <1>2, <1>3
<1>5. End(c, Len(a)) = b
  BY <1>2, <1>3, <1>4, SeqEqual
<1> QED BY <1>5 DEF End, c

LEMMA TakeMore ==
  ASSUME NEW S, NEW a \in Seq(S), NEW b \in Seq(S), NEW n \in Len(a)..Len(a) + Len(b)
  PROVE  SubSeq(a \o b, 1, n) = a \o SubSeq(b, 1, n - Len(a))
<1> DEFINE c == a \o b
           l == SubSeq(c, 1, n)
           d == SubSeq(b, 1, n - Len(a))
           e == a \o d
<1>1. /\ c \in Seq(S) /\ Len(c) = Len(a) + Len(b) /\ Len(a) \in Nat /\ Len(b) \in Nat
      /\ \A i \in 1..Len(a) : c[i] = a[i]
      /\ \A i \in 1..Len(b) : c[Len(a) + i] = b[i]
  BY ConcatIs
<1> HIDE DEF c
<1>2. /\ 1 \in 1..Len(c) + 1 /\ n \in 1 - 1..Len(c) /\ n - 1 + 1 = n
      /\ 1 \in 1..Len(b) + 1 /\ n - Len(a) \in 1 - 1..Len(b) /\ (n - Len(a)) - 1 + 1 = n - Len(a)
      /\ n \in Nat /\ n - Len(a) \in Nat /\ Len(a) + (n - Len(a)) = n
  BY <1>1
<1>3. \A i \in 1..n : 1 + i - 1 = i
  OBVIOUS
<1>4. l \in Seq(S) /\ Len(l) = n /\ \A i \in 1..n : l[i] = c[i]
  BY <1>1, <1>2, <1>3, SubSeqIs
<1>5. /\ d \in Seq(S) /\ Len(d) = n - Len(a)
      /\ \A i \in 1..n - Len(a) : d[i] = b[1 + i - 1]
  BY <1>2, SubSeqIs
<1>6. \A i \in 1..n - Len(a) : 1 + i - 1 = i /\ i \in 1..Len(b)
  BY <1>1, <1>2
<1> HIDE DEF l, d
<1>7. /\ e \in Seq(S) /\ Len(e) = Len(a) + Len(d)
      /\ \A i \in 1..Len(a) : e[i] = a[i]
      /\ \A i \in 1..Len(d) : e[Len(a) + i] = d[i]
  BY <1>5, ConcatIs
<1> HIDE DEF e
<1>8. ASSUME NEW i \in 1..n PROVE l[i] = e[i]
  <2>1. CASE i \in 1..Len(a)
    BY <1>1, <1>4, <1>7, <2>1
  <2>2. CASE i \notin 1..Len(a)
    <3> DEFINE j == i - Len(a)
    <3>1. j \in 1..n - Len(a) /\ Len(a) + j = i
      BY <1>1, <1>2, <2>2
    <3> HIDE DEF j
    <3>2. e[Len(a) + j] = d[j]
      BY <1>5, <1>7, <3>1
    <3>3. d[j] = b[j] /\ j \in 1..Len(b)
      BY <1>5, <1>6, <3>1
    <3>4. c[Len(a) + j] = b[j]
      BY <1>1, <3>3
    <3> QED BY <1>4, <3>1, <3>2, <3>3, <3>4
  <2> QED BY <2>1, <2>2
<1>9. l = e
  <2>1. Len(e) = n
    BY <1>2, <1>5, <1>7
  <2> QED BY <1>4, <1>7, <1>8, <2>1, SeqEqual
<1> QED BY <1>9 DEF l, e, d, c

LEMMA HeadOfConcat ==
  ASSUME NEW S, NEW x \in S, NEW d \in Seq(S)
  PROVE  LET c == <<x>> \o d
         IN  /\ c \in Seq(S) /\ Len(d) \in Nat /\ Len(c) = Len(d) + 1 /\ c # <<>>
             /\ c[1] = x /\ Tail(c) = d
<1> DEFINE a == <<x>>
           c == a \o d
<1>1. a \in Seq(S) /\ Len(a) = 1 /\ a[1] = x
  BY OneIs
<1> HIDE DEF a
<1>2. /\ c \in Seq(S) /\ Len(c) = Len(a) + Len(d) /\ Len(d) \in Nat
      /\ \A i \in 1..Len(a) : c[i] = a[i]
      /\ \A i \in 1..Len(d) : c[Len(a) + i] = d[i]
  BY <1>1, ConcatIs
<1> HIDE DEF c
<1>3. Len(c) = Len(d) + 1 /\ c[1] = x
  BY <1>1, <1>2
<1>4. c # <<>>
  BY <1>2, <1>3, EmptySeq
<1>5. /\ Tail(c) \in Seq(S) /\ Len(Tail(c)) = Len(c) - 1
      /\ \A i \in 1..Len(Tail(c)) : Tail(c)[i] = c[i + 1]
  BY <1>2, <1>4, HeadTailProperties
<1>6. Len(Tail(c)) = Len(d) /\ \A i \in 1..Len(d) : i + 1 = Len(a) + i
  BY <1>1, <1>2, <1>3, <1>5
<1>7. \A i \in 1..Len(d) : Tail(c)[i] = d[i]
  BY <1>2, <1>5, <1>6
<1>8. Tail(c) = d
  BY <1>5, <1>6, <1>7, SeqEqual
<1> QED BY <1>2, <1>3, <1>4, <1>8 DEF c, a

-----------------------------------------------------------------------------
(* What the writer puts into the stream. *)

(* The two fields of a header together are the path. *)
Halved(h, q) == h.prefix \o h.name = q

LEMMA SplitIs ==
  ASSUME NEW q \in Seq(STRING), q # <<>>
  PROVE  LET f == SplitUstarPath(q)
         IN  /\ f.ok \in BOOLEAN /\ f.prefix \in Seq(STRING) /\ f.name \in Seq(STRING)
             /\ f.name # <<>> /\ Halved(f, q)
<1> DEFINE f == SplitUstarPath(q)
<1>1. CASE PathLen(q) <= NameMax
  <2>1. f = [ok |-> TRUE, prefix |-> <<>>, name |-> q]
    BY <1>1 DEF SplitUstarPath
  <2>2. f.ok = TRUE /\ f.prefix = <<>> /\ f.name = q
    BY <2>1
  <2>3. <<>> \in Seq(STRING) /\ <<>> \o q = q
    BY EmptySeq, ConcatEmptySeq
  <2> HIDE DEF f
  <2>4. Halved(f, q)
    BY <2>2, <2>3 DEF Halved
  <2>5. f.ok \in BOOLEAN
    BY <2>2
  <2>6. f.prefix \in Seq(STRING) /\ f.name \in Seq(STRING) /\ f.name # <<>>
    BY <2>2, <2>3
  <2> QED BY <2>4, <2>5, <2>6 DEF f
<1>2. CASE ~(PathLen(q) <= NameMax)
  <2> DEFINE a == Front(q)
             x == Last(q)
  <2>1. f.ok \in BOOLEAN /\ f.prefix = a /\ f.name = <<x>>
    BY <1>2 DEF SplitUstarPath
  <2>2. x = q[Len(q)]
    BY DEF Last
  <2>3. a \in Seq(STRING) /\ q = Append(a, x) /\ x \in STRING
    BY <2>2, FrontIs
  <2> HIDE DEF f, a, x
  <2>4. a \o <<x>> = q
    BY <2>3, AppendIsConcat
  <2>5. <<x>> \in Seq(STRING) /\ Len(<<x>>) = 1
    BY <2>3, OneIs
  <2>6. <<x>> # <<>>
    BY <2>5, EmptySeq
  <2>7. Halved(f, q)
    BY <2>1, <2>4 DEF Halved
  <2>8. f.prefix \in Seq(STRING) /\ f.name \in Seq(STRING) /\ f.name # <<>>
    BY <2>1, <2>3, <2>5, <2>6
  <2> QED BY <2>1, <2>7, <2>8 DEF f
<1> QED BY <1>1, <1>2

(* A header the writer makes for a path. *)
Titles(h, q, size, flag) ==
  /\ h \in HeaderUnits /\ h.ustar /\ h.sum
  /\ h.size = size /\ h.flag = flag /\ Halved(h, q)

LEMMA WriteHeaderIs ==
  ASSUME TarConstants, NEW q \in Seq(STRING), q # <<>>,
         NEW size \in Nat, size < Octals, NEW flag \in {"0", "5"}
  PROVE  LET e == WriteHeader(q, size, flag)
         IN  /\ e.ok \in BOOLEAN
             /\ ~e.ok => e.out = <<>>
             /\ e.ok => \E h : Titles(h, q, size, flag) /\ e.out = <<h>>
<1> DEFINE f == SplitUstarPath(q)
           e == WriteHeader(q, size, flag)
           h == [name |-> f.name, prefix |-> f.prefix, ustar |-> TRUE,
                 size |-> WriteOctal(size), flag |-> flag, sum |-> TRUE]
<1>1. /\ f.ok \in BOOLEAN /\ f.prefix \in Seq(STRING) /\ f.name \in Seq(STRING)
      /\ f.name # <<>> /\ Halved(f, q)
  BY SplitIs
<1>2. WriteOctal(size) = size
  <2>1. Octals \in Nat /\ Octals > 0
    BY OctalsIs
  <2>2. size % Octals = size
    BY <2>1
  <2> QED BY <2>2 DEF WriteOctal
<1>3. e.ok = f.ok /\ e.out = IF ~f.ok THEN <<>> ELSE <<h>>
  BY DEF WriteHeader
<1> HIDE DEF f, e
<1>4. Titles(h, q, size, flag)
  <2>1. /\ h.name = f.name /\ h.prefix = f.prefix /\ h.ustar = TRUE /\ h.size = size
        /\ h.flag = flag /\ h.sum = TRUE
    BY <1>2
  <2>2. h \in [name : Seq(STRING), prefix : Seq(STRING), ustar : BOOLEAN, size : Int,
               flag : {"0", "5", "x", "g", "L"}, sum : BOOLEAN]
    BY <1>1, <1>2
  <2> HIDE DEF h
  <2>3. h \in HeaderUnits
    BY <1>1, <2>1, <2>2 DEF HeaderUnits
  <2>4. Halved(h, q)
    BY <1>1, <2>1 DEF Halved
  <2> QED BY <2>1, <2>3, <2>4 DEF Titles
<1> HIDE DEF h
<1> QED BY <1>1, <1>3, <1>4 DEF e

(* The tar of the remote host puts "./" in front. *)
Wrap(dot, u) == IF dot THEN Dotted(u) ELSE u

LEMMA DottedIs ==
  ASSUME StreamInputs, NEW h \in HeaderUnits, h.ustar
  PROVE  LET d == Dotted(h)
         IN  /\ d \in HeaderUnits /\ d.size = h.size /\ d.flag = h.flag /\ d.sum = h.sum
             /\ EntryPath(d) = <<".">> \o EntryPath(h)
<1> DEFINE d == Dotted(h)
           a == <<".">>
           x == h.prefix
           y == h.name
<1>1. /\ h \in [name : Seq(STRING), prefix : Seq(STRING), ustar : BOOLEAN, size : Int,
                flag : {"0", "5", "x", "g", "L"}, sum : BOOLEAN]
      /\ y # <<>> /\ x \in Seq(STRING) /\ y \in Seq(STRING)
  BY DEF HeaderUnits
<1>2. h.flag # "byte"
  BY <1>1
<1>3. a \in Seq(STRING)
  <2> DEFINE c == "."
  <2>1. c \in STRING
    BY LiteralIs
  <2> HIDE DEF c
  <2>2. <<c>> \in Seq(STRING)
    BY <2>1, OneIs
  <2> QED BY <2>2 DEF c
<1>4. EntryPath(h) = x \o y
  BY DEF EntryPath
<1> HIDE DEF a
<1>5. /\ a \o x \in Seq(STRING) /\ a \o y \in Seq(STRING) /\ Len(a \o y) = Len(a) + Len(y)
      /\ Len(a) \in Nat /\ Len(y) \in Nat
  BY <1>1, <1>3, ConcatIs
<1>6. a \o y # <<>>
  <2>1. Len(y) # 0
    BY <1>1, EmptySeq
  <2>2. Len(a \o y) # 0
    BY <1>5, <2>1
  <2> QED BY <2>2, EmptySeq
<1>7. CASE x = <<>>
  <2>1. d = [h EXCEPT !.name = a \o y]
    BY <1>2, <1>7 DEF Dotted, a
  <2>2. /\ d.name = a \o y /\ d.prefix = x /\ d.ustar = h.ustar /\ d.size = h.size
        /\ d.flag = h.flag /\ d.sum = h.sum
        /\ d \in [name : Seq(STRING), prefix : Seq(STRING), ustar : BOOLEAN, size : Int,
                  flag : {"0", "5", "x", "g", "L"}, sum : BOOLEAN]
    BY <1>1, <1>5, <2>1
  <2> HIDE DEF d
  <2>3. d \in HeaderUnits
    BY <1>6, <2>2 DEF HeaderUnits
  <2>4. EntryPath(d) = x \o (a \o y)
    BY <2>2 DEF EntryPath
  <2>5. x \o (a \o y) = a \o y /\ x \o y = y
    BY <1>1, <1>5, <1>7, ConcatEmptySeq
  <2> QED BY <1>4, <2>2, <2>3, <2>4, <2>5 DEF a, d
<1>8. CASE x # <<>>
  <2>1. d = [h EXCEPT !.prefix = a \o x]
    BY <1>2, <1>8 DEF Dotted, a
  <2>2. /\ d.name = y /\ d.prefix = a \o x /\ d.ustar = h.ustar /\ d.size = h.size
        /\ d.flag = h.flag /\ d.sum = h.sum
        /\ d \in [name : Seq(STRING), prefix : Seq(STRING), ustar : BOOLEAN, size : Int,
                  flag : {"0", "5", "x", "g", "L"}, sum : BOOLEAN]
    BY <1>1, <1>5, <2>1
  <2> HIDE DEF d
  <2>3. d \in HeaderUnits
    BY <1>1, <2>2 DEF HeaderUnits
  <2>4. EntryPath(d) = (a \o x) \o y
    BY <2>2 DEF EntryPath
  <2>5. (a \o x) \o y = a \o (x \o y)
    BY <1>1, <1>3, ConcatAssociative
  <2> QED BY <1>4, <2>2, <2>3, <2>4, <2>5 DEF a, d
<1> QED BY <1>7, <1>8

(* So a header that arrives names the path it was written for. *)
Arrives(g, p, size, flag) ==
  /\ g \in HeaderUnits /\ g.sum /\ g.size = size /\ g.flag = flag
  /\ SanitizeTarPath(EntryPath(g)).err = "none"
  /\ SanitizeTarPath(EntryPath(g)).path = p

LEMMA HeaderArrives ==
  ASSUME StreamInputs, NEW p, Names(p), p # <<>>, NEW q, Spelled(q, p),
         NEW h, NEW size, NEW flag, Titles(h, q, size, flag), NEW dot \in BOOLEAN
  PROVE  Arrives(Wrap(dot, h), p, size, flag)
<1>1. /\ h \in HeaderUnits /\ h.ustar /\ h.sum /\ h.size = size /\ h.flag = flag
      /\ h.prefix \o h.name = q
  BY DEF Titles, Halved
<1>2. EntryPath(h) = q
  BY <1>1 DEF EntryPath
<1>3. CASE dot
  <2> DEFINE d == Dotted(h)
  <2>1. /\ d \in HeaderUnits /\ d.size = h.size /\ d.flag = h.flag /\ d.sum = h.sum
        /\ EntryPath(d) = <<".">> \o q
    BY <1>1, <1>2, DottedIs
  <2>2. Led(EntryPath(d), q)
    BY <2>1 DEF Led
  <2>3. /\ SanitizeTarPath(EntryPath(d)).err = "none"
        /\ SanitizeTarPath(EntryPath(d)).path = p
    BY <2>2, SanitizeSpelled
  <2>4. Wrap(dot, h) = d
    BY <1>3 DEF Wrap
  <2> HIDE DEF d
  <2> QED BY <1>1, <2>1, <2>3, <2>4 DEF Arrives
<1>4. CASE ~dot
  <2>1. Led(EntryPath(h), q)
    BY <1>2 DEF Led
  <2>2. /\ SanitizeTarPath(EntryPath(h)).err = "none"
        /\ SanitizeTarPath(EntryPath(h)).path = p
    BY <2>1, SanitizeSpelled
  <2>3. Wrap(dot, h) = h
    BY <1>4 DEF Wrap
  <2> QED BY <1>1, <2>2, <2>3 DEF Arrives
<1> QED BY <1>3, <1>4

LEMMA Positive == ASSUME NEW m \in Nat, m > 0, NEW n, n = m \/ n = m + 1 PROVE n # 0
OBVIOUS

LEMMA SameUpto == ASSUME NEW m \in Nat, NEW n \in Nat, 1..m = 1..n PROVE m = n
<1>1. CASE m < n
  <2>1. n \in 1..n /\ n \notin 1..m
    BY <1>1
  <2> QED BY <2>1
<1>2. CASE n < m
  <2>1. m \in 1..m /\ m \notin 1..n
    BY <1>2
  <2> QED BY <2>1
<1> QED BY <1>1, <1>2

LEMMA ZerosIs ==
  ASSUME NEW n \in Nat
  PROVE  /\ Zeros(n) \in Seq(ByteUnits) /\ Len(Zeros(n)) = n
         /\ \A i \in 1..n : Zeros(n)[i] = Byte(0)
<1> DEFINE z == Zeros(n)
           b == Byte(0)
<1>1. z = [i \in 1..n |-> b]
  BY DEF Zeros
<1>2. b \in ByteUnits
  BY DEF Byte, ByteUnits
<1> HIDE DEF z, b
<1>3. z \in [1..n -> ByteUnits] /\ \A i \in 1..n : z[i] = b
  BY <1>1, <1>2
<1>4. z \in Seq(ByteUnits)
  BY <1>3, SeqDef
<1>5. Len(z) \in Nat /\ DOMAIN z = 1..Len(z) /\ DOMAIN z = 1..n
  BY <1>3, <1>4, LenProperties
<1>6. Len(z) = n
  BY <1>5, SameUpto
<1> QED BY <1>3, <1>4, <1>6 DEF z, b

(* What one entry of a tree becomes. *)
Body(n) == n + Padding(n)
Filled(d, n, data) ==
  d \in Seq(ByteUnits) /\ Len(d) = Body(n) /\ SubSeq(d, 1, n) = Upto(data, n)
Lacking(d, n) == d \in Seq(ByteUnits) /\ Len(d) < Body(n)

LEMMA BodyIs ==
  ASSUME TarConstants, NEW n \in Nat
  PROVE  Body(n) \in Nat /\ Body(n) >= n /\ Body(0) = 0
<1>1. Block \in Nat /\ Block > 0 /\ Padding(n) \in Nat
  BY BlockIs
<1>2. Padding(0) = 0
  <2>1. 0 % Block = 0 /\ Block % Block = 0
    BY <1>1
  <2>2. (Block - (0 % Block)) % Block = 0
    BY <1>1, <2>1
  <2> QED BY <2>2 DEF Padding
<1> QED BY <1>1, <1>2 DEF Body

DirEntry(e, p) ==
  e.ok /\ \E h : Titles(h, Append(p, ""), 0, "5") /\ e.out = <<h>>
FileEntry(e, p, n, data) ==
  \E h, d : /\ Titles(h, p, n, "0") /\ e.out = <<h>> \o d
            /\ e.ok => Filled(d, n, data)
            /\ ~e.ok => Lacking(d, n)

LEMMA CopyIs ==
  ASSUME TarConstants, NEW data \in Seq(ByteUnits), NEW n \in Nat
  PROVE  LET c == Then(CopyExactLen(data, n), WritePadding(n))
         IN  /\ c.ok \in BOOLEAN
             /\ c.ok => Filled(c.out, n, data)
             /\ ~c.ok => Lacking(c.out, n)
<1> DEFINE a == Upto(data, n)
           z == Zeros(Padding(n))
           c == Then(CopyExactLen(data, n), WritePadding(n))
<1>1. Padding(n) \in Nat /\ Len(data) \in Nat
  BY BlockIs, LenProperties
<1>2. /\ c.ok \in BOOLEAN /\ (c.ok <=> Len(data) >= n)
      /\ c.out = IF Len(data) >= n THEN a \o z ELSE a
  <2> DEFINE x == CopyExactLen(data, n)
             y == WritePadding(n)
  <2>1. /\ Len(data) >= n => x.ok = TRUE
        /\ ~(Len(data) >= n) => x.ok = FALSE
        /\ x.out = a /\ y.ok = TRUE /\ y.out = z
    <3>1. x.out = a /\ y.ok = TRUE /\ y.out = z
      BY DEF CopyExactLen, WritePadding
    <3>2. ASSUME Len(data) >= n PROVE x.ok = TRUE
      <4>1. x.ok = (Len(data) >= n)
        BY DEF CopyExactLen
      <4> HIDE DEF x
      <4> QED BY <3>2, <4>1
    <3>3. ASSUME ~(Len(data) >= n) PROVE x.ok = FALSE
      <4>1. x.ok = (Len(data) >= n)
        BY DEF CopyExactLen
      <4> HIDE DEF x
      <4>2. (Len(data) >= n) = FALSE
        BY <3>3
      <4> QED BY <4>1, <4>2, Zenon
    <3> HIDE DEF x, y, a, z
    <3> QED BY <3>1, <3>2, <3>3
  <2> HIDE DEF x, y, a, z
  <2>2. c = IF x.ok THEN [ok |-> y.ok, out |-> x.out \o y.out] ELSE x
    BY DEF Then, x, y
  <2> HIDE DEF c
  <2>3. CASE Len(data) >= n
    <3>1. c = [ok |-> y.ok, out |-> x.out \o y.out]
      BY <2>1, <2>2, <2>3
    <3>2. c.ok = TRUE /\ c.out = a \o z
      BY <2>1, <3>1
    <3> QED BY <2>3, <3>2
  <2>4. CASE ~(Len(data) >= n)
    <3>1. c = x
      BY <2>1, <2>2, <2>4
    <3>2. c.ok = FALSE /\ c.out = a
      BY <2>1, <2>4, <3>1
    <3> QED BY <2>4, <3>2
  <2> QED BY <2>3, <2>4
<1>3. z \in Seq(ByteUnits) /\ Len(z) = Padding(n)
  BY <1>1, ZerosIs
<1>4. a = SubSeq(data, 1, IF n <= Len(data) THEN n ELSE Len(data)) /\ a \in Seq(ByteUnits)
  BY UptoIs
<1>5. Len(a) = IF n <= Len(data) THEN n ELSE Len(data)
  <2> DEFINE l == IF n <= Len(data) THEN n ELSE Len(data)
  <2>1. 1 \in 1..Len(data) + 1 /\ l \in 1 - 1..Len(data) /\ l - 1 + 1 = l
    BY <1>1
  <2> HIDE DEF l, a
  <2>2. Len(SubSeq(data, 1, l)) = l
    BY <2>1, SubSeqIs
  <2> QED BY <1>4, <2>2 DEF l
<1> HIDE DEF a, z, c
<1>6. CASE Len(data) >= n
  <2>1. Len(a) = n
    BY <1>1, <1>5, <1>6
  <2>2. a \o z \in Seq(ByteUnits) /\ Len(a \o z) = Len(a) + Len(z)
    <3>1. a \in Seq(ByteUnits) /\ z \in Seq(ByteUnits)
      BY <1>3, <1>4
    <3> QED BY <3>1, ConcatIs
  <2>3. Len(a \o z) = Body(n)
    BY <1>3, <2>1, <2>2 DEF Body
  <2>4. SubSeq(a \o z, 1, n) = a
    <3>1. n \in 0..Len(a)
      BY <2>1
    <3>2. SubSeq(a \o z, 1, n) = SubSeq(a, 1, n)
      BY <1>3, <1>4, <3>1, TakeConcat
    <3>3. SubSeq(a, 1, Len(a)) = a
      BY <1>4, SubSeqFull
    <3> QED BY <2>1, <3>2, <3>3
  <2>5. Filled(a \o z, n, data)
    BY <2>2, <2>3, <2>4 DEF Filled, a
  <2>6. c.ok /\ c.ok \in BOOLEAN /\ c.out = a \o z
    BY <1>2, <1>6
  <2> QED BY <2>5, <2>6 DEF c
<1>7. CASE ~(Len(data) >= n)
  <2>1. Len(a) < n
    BY <1>1, <1>5, <1>7
  <2>2. Len(a) < Body(n)
    <3>1. Body(n) \in Nat /\ Body(n) >= n /\ Len(a) \in Nat
      BY <1>4, BodyIs, LenProperties
    <3> QED BY <2>1, <3>1
  <2>3. Lacking(a, n)
    BY <1>4, <2>2 DEF Lacking
  <2>4. ~c.ok /\ c.ok \in BOOLEAN /\ c.out = a
    BY <1>2, <1>7
  <2> QED BY <2>3, <2>4 DEF c
<1> QED BY <1>6, <1>7

LEMMA TreeIs ==
  ASSUME TreeInputs, NEW t, IsTree(t), NEW p \in DOMAIN t
  PROVE  /\ Names(p) /\ p # <<>> /\ p \in Seq(ToSet(NameOrder))
         /\ t[p].size \in Nat /\ t[p].data \in Seq(ByteUnits)
         /\ t[p].kind = "dir" => t[p].data = <<>>
         /\ \A n \in 1..Len(p) - 1 :
              SubSeq(p, 1, n) \in DOMAIN t /\ t[SubSeq(p, 1, n)].kind = "dir"
<1>1. /\ p \in Seq(ToSet(NameOrder)) /\ p # <<>>
      /\ t[p].kind = "dir" => t[p].data = <<>>
      /\ \A n \in 1..Len(p) - 1 :
           SubSeq(p, 1, n) \in DOMAIN t /\ t[SubSeq(p, 1, n)].kind = "dir"
  BY DEF IsTree
<1>2. t[p] \in [kind : STRING, size : Nat, data : Seq(ByteUnits)]
  BY DEF IsTree
<1>3. t[p].size \in Nat /\ t[p].data \in Seq(ByteUnits)
  BY <1>2
<1>4. Names(p)
  BY <1>1, TreePathIs
<1> QED BY <1>1, <1>3, <1>4

LEMMA WriteEntryIs ==
  ASSUME TarConstants, StreamInputs, TreeInputs,
         NEW t, IsTree(t), Fits(t), NEW p \in DOMAIN t
  PROVE  LET e == WriteEntry(p, t[p])
         IN  /\ e.ok \in BOOLEAN
             /\ \/ ~e.ok /\ e.out = <<>>
                \/ t[p].kind = "dir" /\ DirEntry(e, p)
                \/ t[p].kind = "file" /\ FileEntry(e, p, t[p].size, t[p].data)
<1> DEFINE e == WriteEntry(p, t[p])
           n == t[p].size
           data == t[p].data
<1>1. Names(p) /\ p # <<>> /\ n \in Nat /\ data \in Seq(ByteUnits) /\ p \in Seq(STRING)
  BY TreeIs DEF Names
<1>2. CASE t[p].kind = "dir"
  <2> DEFINE q == Append(p, "")
  <2>1. Spelled(q, p)
    BY DEF Spelled
  <2>2. /\ q \in Seq(STRING) /\ Len(p) \in Nat
        /\ Len(q) = Len(p) \/ Len(q) = Len(p) + 1
        /\ Len(p) > 0
    BY <1>1, <2>1, SpelledIs
  <2> HIDE DEF q
  <2>3. q # <<>>
    <3>1. Len(q) # 0
      BY <2>2, Positive
    <3> QED BY <3>1, EmptySeq
  <2>4. 0 \in Nat /\ 0 < Octals /\ "5" \in {"0", "5"}
    BY OctalsIs
  <2> DEFINE w == WriteHeader(q, 0, "5")
  <2>5. /\ w.ok \in BOOLEAN /\ (~w.ok => w.out = <<>>)
        /\ w.ok => \E h : Titles(h, q, 0, "5") /\ w.out = <<h>>
    BY <2>2, <2>3, <2>4, WriteHeaderIs
  <2>6. e = w
    BY <1>2 DEF WriteEntry, q
  <2> HIDE DEF w, e
  <2> QED BY <1>2, <2>5, <2>6 DEF DirEntry, q, e
<1>3. CASE t[p].kind = "file"
  <2> DEFINE w == WriteHeader(p, n, "0")
             c == Then(CopyExactLen(data, n), WritePadding(n))
  <2>1. n < Octals /\ "0" \in {"0", "5"}
    BY <1>3 DEF Fits
  <2>2. e = Then(w, c)
    BY <1>3 DEF WriteEntry
  <2> HIDE DEF n, data
  <2>3. /\ w.ok \in BOOLEAN /\ (~w.ok => w.out = <<>>)
        /\ w.ok => \E h : Titles(h, p, n, "0") /\ w.out = <<h>>
    BY <1>1, <2>1, WriteHeaderIs
  <2>4. /\ c.ok \in BOOLEAN /\ (c.ok => Filled(c.out, n, data))
        /\ ~c.ok => Lacking(c.out, n)
    BY <1>1, CopyIs
  <2> HIDE DEF w, c, e
  <2>5. /\ w.ok => e.ok = c.ok /\ e.out = w.out \o c.out
        /\ ~w.ok => e = w
    BY <2>2 DEF Then
  <2>6. CASE w.ok
    <3>1. PICK h : Titles(h, p, n, "0") /\ w.out = <<h>>
      BY <2>3, <2>6
    <3>2. FileEntry(e, p, n, data)
      BY <2>4, <2>5, <2>6, <3>1 DEF FileEntry
    <3> QED BY <1>3, <2>4, <2>5, <2>6, <3>2 DEF e, n, data
  <2>7. CASE ~w.ok
    BY <2>3, <2>5, <2>7 DEF e
  <2> QED BY <2>6, <2>7
<1>4. CASE t[p].kind \notin {"dir", "file"}
  <2>1. e = [ok |-> FALSE, out |-> <<>>]
    BY <1>4 DEF WriteEntry
  <2> HIDE DEF e
  <2>2. e.ok = FALSE /\ e.out = <<>>
    BY <2>1
  <2> QED BY <2>2 DEF e
<1> QED BY <1>2, <1>3, <1>4

(* The part of a tree that is there when the entries of X have arrived. *)
Beneath(X) == UNION {Leading(p) : p \in X}
Node(t, q) == [kind |-> t[q].kind, data |-> Upto(t[q].data, t[q].size)]
Made(t, X) == [q \in Beneath(X) |-> Node(t, q)]
IsDir(f, d) == f[d].kind = "dir"
IsFile(f, d) == f[d].kind = "file"

LEMMA UptoLast == ASSUME NEW m \in Nat, m > 0 PROVE 1..m = (1..m - 1) \cup {m}
OBVIOUS

LEMMA UptoEmpty == ASSUME NEW n \in Nat PROVE Upto(<<>>, n) = <<>>
<1> DEFINE e == <<>>
<1>1. e \in Seq(Nat) /\ Len(e) = 0
  BY EmptySeq
<1> HIDE DEF e
<1>2. Upto(e, n) = SubSeq(e, 1, IF n <= Len(e) THEN n ELSE Len(e))
  BY <1>1, UptoIs
<1>3. (IF n <= Len(e) THEN n ELSE Len(e)) = Len(e)
  BY <1>1
<1>4. SubSeq(e, 1, Len(e)) = e
  BY <1>1, SubSeqFull
<1> QED BY <1>2, <1>3, <1>4 DEF e

LEMMA NamesLen ==
  ASSUME NEW p, Names(p), p # <<>>
  PROVE  p \in Seq(STRING) /\ Len(p) \in Nat /\ Len(p) > 0
<1>1. p \in Seq(STRING)
  BY DEF Names
<1> QED BY <1>1, LenProperties, EmptySeq

LEMMA LeadingParent ==
  ASSUME NEW p, Names(p), p # <<>>
  PROVE  Leading(p) = Leading(Front(p)) \cup {p} /\ p \notin Leading(Front(p))
<1>1. p \in Seq(STRING) /\ Len(p) \in Nat /\ Len(p) > 0
  BY NamesLen
<1>2. SubSeq(p, 1, Len(p)) = p
  BY <1>1, SubSeqFull
<1>3. 1..Len(p) = (1..Len(p) - 1) \cup {Len(p)}
  BY <1>1, UptoLast
<1>4. /\ Leading(Front(p)) = {SubSeq(p, 1, n) : n \in 1..Len(p) - 1}
      /\ p \notin Leading(Front(p))
  BY ParentIs
<1>5. Leading(p) = {SubSeq(p, 1, n) : n \in (1..Len(p) - 1) \cup {Len(p)}}
  BY <1>3 DEF Leading
<1>6. Leading(p) = {SubSeq(p, 1, n) : n \in 1..Len(p) - 1} \cup {SubSeq(p, 1, Len(p))}
  BY <1>5
<1> QED BY <1>2, <1>4, <1>6

LEMMA LeadingIs ==
  ASSUME TreeInputs, NEW t, IsTree(t), NEW p \in DOMAIN t
  PROVE  /\ Names(p) /\ p # <<>>
         /\ \A q \in Leading(Front(p)) : q \in DOMAIN t /\ IsDir(t, q)
         /\ \A q \in Leading(p) : q \in DOMAIN t
<1>1. Names(p) /\ p # <<>>
  BY TreeIs
<1>2. \A n \in 1..Len(p) - 1 :
        SubSeq(p, 1, n) \in DOMAIN t /\ t[SubSeq(p, 1, n)].kind = "dir"
  BY TreeIs
<1>3. Leading(Front(p)) = {SubSeq(p, 1, n) : n \in 1..Len(p) - 1}
  BY <1>1, ParentIs
<1>4. \A q \in Leading(Front(p)) : q \in DOMAIN t /\ IsDir(t, q)
  BY <1>2, <1>3 DEF IsDir
<1>5. Leading(p) = Leading(Front(p)) \cup {p}
  BY <1>1, LeadingParent
<1> QED BY <1>1, <1>4, <1>5

LEMMA NodeIs ==
  ASSUME TreeInputs, NEW t, IsTree(t), NEW q \in DOMAIN t
  PROVE  /\ IsDir(t, q) => Node(t, q) = DirNode
         /\ IsFile(t, q) => Node(t, q) = FileNode(Upto(t[q].data, t[q].size))
<1>2. t[q].size \in Nat /\ (t[q].kind = "dir" => t[q].data = <<>>)
  BY TreeIs
<1>3. ASSUME IsDir(t, q) PROVE Node(t, q) = DirNode
  <2> DEFINE n == t[q].size
  <2> HIDE DEF n
  <2>1. n \in Nat
    BY <1>2 DEF n
  <2>2. Upto(<<>>, n) = <<>>
    BY <2>1, UptoEmpty
  <2>3. Node(t, q) = [kind |-> "dir", data |-> Upto(<<>>, n)]
    BY <1>2, <1>3 DEF Node, n, IsDir
  <2> QED BY <2>2, <2>3 DEF DirNode
<1>4. IsFile(t, q) => Node(t, q) = FileNode(Upto(t[q].data, t[q].size))
  BY DEF Node, FileNode, IsFile
<1> QED BY <1>3, <1>4

LEMMA MadeIs ==
  ASSUME TreeInputs, NEW t, IsTree(t), NEW X, X \subseteq DOMAIN t, NEW p \in DOMAIN t
  PROVE  /\ DOMAIN Made(t, X) = Beneath(X)
         /\ \A q \in Beneath(X) : Made(t, X)[q] = Node(t, q) /\ q \in DOMAIN t
         /\ Made(t, X \cup {p}) = [q \in Beneath(X) \cup Leading(p) |-> Node(t, q)]
<1>1. \A q \in Beneath(X) : q \in DOMAIN t
  <2> SUFFICES ASSUME NEW a \in X, NEW q \in Leading(a) PROVE q \in DOMAIN t
    BY DEF Beneath
  <2>1. a \in DOMAIN t
    OBVIOUS
  <2> QED BY <2>1, LeadingIs
<1>2. Beneath(X \cup {p}) = Beneath(X) \cup Leading(p)
  BY DEF Beneath
<1> QED BY <1>1, <1>2 DEF Made

LEMMA DirsMade ==
  ASSUME NEW f \in FileSystems, NEW p, Names(p),
         \A d \in Leading(p) : d \in DOMAIN f => IsDir(f, d)
  PROVE  LET c == CreateDirAll(f, p)
         IN  c.ok /\ c.fs = [d \in Leading(p) \cup DOMAIN f |->
                               IF d \in Leading(p) THEN DirNode ELSE f[d]]
<1> DEFINE c == CreateDirAll(f, p)
           G == [d \in Leading(p) \cup DOMAIN f |-> IF d \in Leading(p) THEN DirNode ELSE f[d]]
           B == \A d \in Leading(p) \cap DOMAIN f : f[d].kind = "dir"
<1>1. c.ok = B /\ (c.ok => c.fs = G)
  BY CreateDirAllIs
<1>2. B
  BY DEF IsDir
<1> HIDE DEF c, G, B
<1>3. c.ok /\ c.fs = G
  BY <1>1, <1>2
<1> QED BY <1>3 DEF c, G

LEMMA FileMade ==
  ASSUME NEW f \in FileSystems, NEW p, Names(p), p # <<>>, NEW b \in Seq(Units),
         \A d \in Leading(Front(p)) : d \in DOMAIN f => IsDir(f, d),
         p \in DOMAIN f => ~IsDir(f, p)
  PROVE  LET c == CreateFile(f, p, b)
             M == Leading(Front(p))
         IN  c.ok /\ c.fs = [q \in {p} \cup (M \cup DOMAIN f) |->
                               IF q = p THEN FileNode(b) ELSE IF q \in M THEN DirNode ELSE f[q]]
<1> DEFINE c == CreateFile(f, p, b)
           a == Front(p)
           M == Leading(a)
           up == CreateDirAll(f, a)
           u == up.fs
           B == p \in DOMAIN f /\ f[p].kind = "dir"
<1>1. Names(a)
  BY ParentIs
<1>2. up.ok /\ u = [d \in M \cup DOMAIN f |-> IF d \in M THEN DirNode ELSE f[d]]
  BY <1>1, DirsMade
<1>3. /\ c.ok = (up.ok /\ ~B)
      /\ c.ok => c.fs = [q \in {p} \cup DOMAIN u |-> IF q = p THEN FileNode(b) ELSE u[q]]
  BY CreateFileIs
<1>4. ~B
  BY DEF IsDir
<1> HIDE DEF c, u, B, M
<1>5. c.ok
  <2> HIDE DEF up
  <2> QED BY <1>2, <1>3, <1>4
<1>6. c.fs = [q \in {p} \cup DOMAIN u |-> IF q = p THEN FileNode(b) ELSE u[q]]
  BY <1>3, <1>5
<1>7. /\ DOMAIN u = M \cup DOMAIN f
      /\ \A q \in M \cup DOMAIN f : u[q] = IF q \in M THEN DirNode ELSE f[q]
  BY <1>2
<1>8. c.fs = [q \in {p} \cup (M \cup DOMAIN f) |->
                IF q = p THEN FileNode(b) ELSE IF q \in M THEN DirNode ELSE f[q]]
  BY <1>6, <1>7
<1> QED BY <1>5, <1>8 DEF c, M

LEMMA KindOf ==
  ASSUME NEW f, NEW d
  PROVE  /\ f[d] = DirNode => IsDir(f, d)
         /\ \A b : f[d] = FileNode(b) => ~IsDir(f, d)
BY DEF IsDir, DirNode, FileNode

LEMMA MadeDir ==
  ASSUME TreeInputs, NEW t, IsTree(t), NEW X, X \subseteq DOMAIN t, NEW p \in DOMAIN t,
         IsDir(t, p), Made(t, X) \in FileSystems
  PROVE  LET c == CreateDirAll(Made(t, X), p)
         IN  c.ok /\ c.fs = Made(t, X \cup {p})
<1> DEFINE f == Made(t, X)
           c == CreateDirAll(f, p)
           g == Made(t, X \cup {p})
           M == Leading(p)
<1>1. Names(p) /\ p # <<>>
  BY LeadingIs
<1>2. \A q \in M : q \in DOMAIN t /\ IsDir(t, q)
  <2>1. \A q \in Leading(Front(p)) : q \in DOMAIN t /\ IsDir(t, q)
    BY LeadingIs
  <2>2. M = Leading(Front(p)) \cup {p}
    BY <1>1, LeadingParent
  <2> HIDE DEF M
  <2> QED BY <2>1, <2>2
<1>3. \A q \in M : Node(t, q) = DirNode
  BY <1>2, NodeIs
<1>4. /\ DOMAIN f = Beneath(X)
      /\ \A q \in Beneath(X) : f[q] = Node(t, q)
      /\ g = [q \in Beneath(X) \cup M |-> Node(t, q)]
  BY MadeIs
<1> HIDE DEF M, f, g
<1>5. \A d \in M : d \in DOMAIN f => IsDir(f, d)
  <2>1. \A d \in M : d \in DOMAIN f => f[d] = DirNode
    BY <1>3, <1>4
  <2> QED BY <2>1, KindOf
<1>6. c.ok /\ c.fs = [d \in M \cup DOMAIN f |-> IF d \in M THEN DirNode ELSE f[d]]
  BY <1>1, <1>5, DirsMade DEF M, f
<1>7. g = [d \in M \cup DOMAIN f |-> IF d \in M THEN DirNode ELSE f[d]]
  BY <1>3, <1>4
<1> HIDE DEF c
<1>8. c.ok /\ c.fs = g
  BY <1>6, <1>7
<1> QED BY <1>8 DEF c, f, g

LEMMA ToUnits == ASSUME NEW b \in Seq(ByteUnits) PROVE b \in Seq(Units)
<1>1. ByteUnits \subseteq Units
  BY DEF Units
<1>2. Len(b) \in Nat /\ b = [i \in 1..Len(b) |-> b[i]] /\ \A i \in 1..Len(b) : b[i] \in Units
  BY <1>1, LenProperties, ElementOfSeq
<1>3. b \in [1..Len(b) -> Units]
  BY <1>2
<1> QED BY <1>2, <1>3, SeqDef

LEMMA MadeFile ==
  ASSUME TreeInputs, NEW t, IsTree(t), NEW X, X \subseteq DOMAIN t, NEW p \in DOMAIN t,
         IsFile(t, p), Made(t, X) \in FileSystems
  PROVE  LET c == CreateFile(Made(t, X), p, Upto(t[p].data, t[p].size))
         IN  c.ok /\ c.fs = Made(t, X \cup {p})
<1> DEFINE f == Made(t, X)
           b == Upto(t[p].data, t[p].size)
           c == CreateFile(f, p, b)
           g == Made(t, X \cup {p})
           M == Leading(Front(p))
<1>1. Names(p) /\ p # <<>> /\ \A q \in M : q \in DOMAIN t /\ IsDir(t, q)
  BY LeadingIs
<1>2. Leading(p) = M \cup {p}
  BY <1>1, LeadingParent
<1>3. \A q \in M : Node(t, q) = DirNode
  BY <1>1, NodeIs
<1>4. /\ DOMAIN f = Beneath(X)
      /\ \A q \in Beneath(X) : f[q] = Node(t, q)
      /\ g = [q \in Beneath(X) \cup Leading(p) |-> Node(t, q)]
  BY MadeIs
<1>5. Node(t, p) = FileNode(b)
  BY NodeIs
<1>6. b \in Seq(Units)
  <2>1. t[p].size \in Nat /\ t[p].data \in Seq(ByteUnits)
    BY TreeIs
  <2>2. b \in Seq(ByteUnits)
    BY <2>1, UptoIs
  <2> HIDE DEF b
  <2> QED BY <2>2, ToUnits
<1> HIDE DEF M, f, g, b
<1>7. \A d \in M : d \in DOMAIN f => IsDir(f, d)
  <2>1. \A d \in M : d \in DOMAIN f => f[d] = DirNode
    BY <1>3, <1>4
  <2> QED BY <2>1, KindOf
<1>8. p \in DOMAIN f => ~IsDir(f, p)
  <2>1. p \in DOMAIN f => f[p] = FileNode(b)
    BY <1>4, <1>5
  <2> QED BY <2>1, KindOf
<1>9. c.ok /\ c.fs = [q \in {p} \cup (M \cup DOMAIN f) |->
                        IF q = p THEN FileNode(b) ELSE IF q \in M THEN DirNode ELSE f[q]]
  BY <1>1, <1>6, <1>7, <1>8, FileMade DEF M, f
<1>10. g = [q \in {p} \cup (M \cup DOMAIN f) |->
              IF q = p THEN FileNode(b) ELSE IF q \in M THEN DirNode ELSE f[q]]
  BY <1>2, <1>3, <1>4, <1>5
<1> HIDE DEF c
<1>11. c.ok /\ c.fs = g
  BY <1>9, <1>10
<1> QED BY <1>11 DEF c, f, g, b

(* Where the reader is when it has taken a whole number of entries. *)
Amid(rest, f) == [rest |-> rest, fs |-> f, done |-> "no"]
IsFlagged(u) == u.flag # "byte"
Joined(s, a, b) == s = a \o b
Leads(s, g, d, tail) == Joined(s, <<g>>, d \o tail)

(* A header and what it announces. *)
Entry(t, p, g, d) ==
  \/ IsDir(t, p) /\ Arrives(g, p, 0, "5") /\ d = <<>>
  \/ IsFile(t, p) /\ Arrives(g, p, t[p].size, "0") /\ Filled(d, t[p].size, t[p].data)

LEMMA NotNegative == ASSUME NEW n \in Nat PROVE ~(n < 0)
OBVIOUS

LEMMA Shorter ==
  ASSUME NEW n \in Nat, NEW k \in Nat, n <= k, NEW m \in Nat
  PROVE  n \in 0..k /\ n <= k + m
OBVIOUS

LEMMA LenConcat ==
  ASSUME NEW S, NEW a \in Seq(S), NEW b \in Seq(S)
  PROVE  /\ a \o b \in Seq(S) /\ Len(a \o b) = Len(a) + Len(b)
         /\ Len(a) \in Nat /\ Len(b) \in Nat
<1>1. a \o b \in Seq(S) /\ Len(a \o b) = Len(a) + Len(b)
  BY ConcatIs
<1>2. Len(a) \in Nat /\ Len(b) \in Nat
  BY LenProperties
<1> QED BY <1>1, <1>2

LEMMA HeaderIs ==
  ASSUME NEW g \in HeaderUnits
  PROVE  g \in Units /\ IsFlagged(g) /\ g.size \in Int
BY DEF HeaderUnits, Units, IsFlagged

LEMMA HeaderRead ==
  ASSUME TarConstants, NEW g \in HeaderUnits, NEW e \in Seq(Units), NEW s,
         Joined(s, <<g>>, e)
  PROVE  NextBlock(s).kind = "header" /\ NextBlock(s).rest = e /\ s[1] = g
<1>1. g \in Units /\ IsFlagged(g)
  BY HeaderIs
<1>2. s \in Seq(Units) /\ s # <<>> /\ s[1] = g /\ Tail(s) = e
  BY <1>1, HeadOfConcat DEF Joined
<1>3. s[1].flag # "byte"
  BY <1>1, <1>2 DEF IsFlagged
<1>4. NextBlock(s).kind = "header" /\ NextBlock(s).rest = Tail(s)
  BY <1>2, <1>3, NextBlockIs
<1> QED BY <1>2, <1>4

LEMMA RestsIs ==
  ASSUME TarConstants, NEW r, NEW g, g.size \in Nat, NEW d \in Seq(Units),
         NEW tail \in Seq(Units), Joined(NextBlock(r.rest).rest, d, tail),
         Len(d) = Body(g.size), NEW made, made.ok
  PROVE  Rests(r, g, made) = Amid(tail, made.fs)
<1> DEFINE e == d \o tail
           n == Body(g.size)
<1>1. Len(e) = Len(d) + Len(tail) /\ Len(d) \in Nat /\ Len(tail) \in Nat
  BY LenConcat
<1>2. SubSeq(e, Len(d) + 1, Len(e)) = tail
  BY DropConcat
<1>3. Rests(r, g, made) =
        [rest |-> SubSeq(e, n + 1, Len(e)), fs |-> made.fs,
         done |-> IF made.ok /\ Len(e) >= n THEN "no" ELSE "failed"]
  BY DEF Rests, Body, Joined
<1> HIDE DEF e, n
<1>4. n = Len(d)
  BY DEF n
<1>5. Len(e) >= n
  BY <1>1, <1>4
<1>6. SubSeq(e, n + 1, Len(e)) = tail
  BY <1>2, <1>4
<1> QED BY <1>3, <1>5, <1>6 DEF Amid

LEMMA EntryIs ==
  ASSUME TarConstants, TreeInputs, NEW t, IsTree(t), NEW p \in DOMAIN t,
         NEW g, NEW d, Entry(t, p, g, d)
  PROVE  /\ g \in HeaderUnits /\ g.sum /\ g.size \in Nat
         /\ d \in Seq(Units) /\ Len(d) = Body(g.size)
         /\ SanitizeTarPath(EntryPath(g)).err = "none"
         /\ SanitizeTarPath(EntryPath(g)).path = p
<1>1. CASE IsDir(t, p) /\ Arrives(g, p, 0, "5") /\ d = <<>>
  <2>1. d \in Seq(Units) /\ Len(d) = 0
    BY <1>1, EmptySeq
  <2>2. 0 \in Nat
    OBVIOUS
  <2>3. Body(0) = 0
    BY <2>2, BodyIs
  <2>4. g.size = 0
    BY <1>1 DEF Arrives
  <2>5. /\ g \in HeaderUnits /\ g.sum
        /\ SanitizeTarPath(EntryPath(g)).err = "none"
        /\ SanitizeTarPath(EntryPath(g)).path = p
    BY <1>1 DEF Arrives
  <2> QED BY <2>1, <2>2, <2>3, <2>4, <2>5
<1>2. CASE IsFile(t, p) /\ Arrives(g, p, t[p].size, "0") /\ Filled(d, t[p].size, t[p].data)
  <2>1. t[p].size \in Nat
    BY TreeIs
  <2>2. d \in Seq(ByteUnits) /\ Len(d) = Body(t[p].size)
    BY <1>2 DEF Filled
  <2>3. d \in Seq(Units)
    BY <2>2, ToUnits
  <2>4. /\ g \in HeaderUnits /\ g.sum /\ g.size = t[p].size
        /\ SanitizeTarPath(EntryPath(g)).err = "none"
        /\ SanitizeTarPath(EntryPath(g)).path = p
    BY <1>2 DEF Arrives
  <2> QED BY <2>1, <2>2, <2>3, <2>4
<1> QED BY <1>1, <1>2 DEF Entry

Before(r, t, X, g, d, tail) ==
  r \in Reading /\ r.fs = Made(t, X) /\ Leads(r.rest, g, d, tail)

LEMMA EntryRead ==
  ASSUME TarConstants, TreeInputs, NEW t, IsTree(t), NEW X, X \subseteq DOMAIN t,
         NEW p \in DOMAIN t, NEW g, NEW d, Entry(t, p, g, d), NEW tail \in Seq(Units),
         NEW r, Before(r, t, X, g, d, tail)
  PROVE  ExtractEntry(r) = Amid(tail, Made(t, X \cup {p}))
<1> DEFINE f == Made(t, X)
           e == d \o tail
           b == NextBlock(r.rest)
           rel == SanitizeTarPath(EntryPath(g))
<1>1. /\ g \in HeaderUnits /\ g.sum /\ g.size \in Nat
      /\ d \in Seq(Units) /\ Len(d) = Body(g.size)
      /\ rel.err = "none" /\ rel.path = p
  BY EntryIs
<1>2. e \in Seq(Units)
  BY <1>1, ConcatIs
<1>3. b.kind = "header" /\ b.rest = e /\ r.rest[1] = g
  <2>1. g \in HeaderUnits /\ Joined(r.rest, <<g>>, e)
    BY <1>1 DEF Leads, Before
  <2> HIDE DEF e, f, rel
  <2> QED BY <1>2, <2>1, HeaderRead
<1>4. f \in FileSystems /\ r.fs = f
  BY DEF Reading, Before
<1>5. ~(g.size < 0)
  <2>1. g.size \in Nat
    BY <1>1
  <2> HIDE DEF f, e, b, rel
  <2> QED BY <2>1, NotNegative
<1>6. ~Refuses(r)
  <2>1. b.kind # "header" <=> FALSE
    BY <1>3
  <2> HIDE DEF b, f, e, rel
  <2> QED BY <1>1, <1>3, <1>5, <2>1 DEF Refuses, rel, b
<1>7. ExtractEntry(r) =
        IF g.flag \in {"x", "g"} THEN Rests(r, g, [ok |-> TRUE, fs |-> r.fs])
        ELSE IF g.flag = "5" /\ g.size = 0 THEN Rests(r, g, CreateDirAll(f, p))
        ELSE IF g.flag = "0" THEN Rests(r, g, CreateFile(f, p, Upto(e, g.size)))
        ELSE Ends(r, "failed")
  BY <1>1, <1>3, <1>4, <1>6, ExtractEntryIs
<1>8. CASE IsDir(t, p) /\ Arrives(g, p, 0, "5") /\ d = <<>>
  <2> DEFINE c == CreateDirAll(f, p)
  <2>1. g.flag = "5" /\ g.size = 0
    BY <1>8 DEF Arrives
  <2>2. ExtractEntry(r) = Rests(r, g, c)
    BY <1>7, <2>1
  <2>3. c.ok /\ c.fs = Made(t, X \cup {p})
    BY <1>4, <1>8, MadeDir
  <2> HIDE DEF c, f, e, b, rel
  <2>4. Rests(r, g, c) = Amid(tail, c.fs)
    <3>1. Joined(NextBlock(r.rest).rest, d, tail)
      BY <1>3 DEF b, e, Joined
    <3>2. /\ g.size \in Nat /\ d \in Seq(Units) /\ Len(d) = Body(g.size) /\ c.ok
      BY <1>1, <2>3
    <3> QED BY <3>1, <3>2, RestsIs
  <2> QED BY <2>2, <2>3, <2>4
<1>9. CASE IsFile(t, p) /\ Arrives(g, p, t[p].size, "0") /\ Filled(d, t[p].size, t[p].data)
  <2> DEFINE n == t[p].size
             w == Upto(t[p].data, n)
             c == CreateFile(f, p, w)
  <2>1. g.flag = "0" /\ g.size = n
    BY <1>9 DEF Arrives
  <2>2. Upto(e, n) = w
    <3>1. n \in Nat /\ Len(d) = Body(n) /\ Len(d) \in Nat /\ Len(tail) \in Nat
      BY <1>1, <2>1, LenProperties
    <3>2. Body(n) >= n /\ Body(n) \in Nat
      BY <3>1, BodyIs
    <3>3. SubSeq(d, 1, n) = w
      BY <1>9 DEF Filled
    <3>4. Len(e) = Len(d) + Len(tail)
      <4>1. d \in Seq(Units)
        BY <1>1
      <4> HIDE DEF n, w, c, f, b, rel
      <4>2. Len(d \o tail) = Len(d) + Len(tail)
        BY <4>1, LenConcat
      <4> QED BY <4>2
    <3> HIDE DEF e, n, w, c, f, b, rel
    <3>5. n \in 0..Len(d) /\ (IF n <= Len(e) THEN n ELSE Len(e)) = n
      <4>1. n \in 0..Len(d) /\ n <= Len(d) + Len(tail)
        BY <3>1, <3>2, Shorter
      <4> QED BY <3>4, <4>1
    <3>6. Upto(e, n) = SubSeq(e, 1, n)
      BY <1>2, <3>1, <3>5, UptoIs
    <3>7. SubSeq(e, 1, n) = SubSeq(d, 1, n)
      BY <1>1, <3>5, TakeConcat DEF e
    <3> QED BY <3>3, <3>6, <3>7
  <2>3. ExtractEntry(r) = Rests(r, g, c)
    BY <1>7, <2>1, <2>2
  <2>4. c.ok /\ c.fs = Made(t, X \cup {p})
    BY <1>4, <1>9, MadeFile
  <2> HIDE DEF c, f, e, b, rel, w, n
  <2>5. Rests(r, g, c) = Amid(tail, c.fs)
    <3>1. Joined(NextBlock(r.rest).rest, d, tail)
      BY <1>3 DEF b, e, Joined
    <3>2. /\ g.size \in Nat /\ d \in Seq(Units) /\ Len(d) = Body(g.size) /\ c.ok
      BY <1>1, <2>4
    <3> QED BY <3>1, <3>2, RestsIs
  <2> QED BY <2>3, <2>4, <2>5
<1> QED BY <1>8, <1>9 DEF Entry

LEMMA HasSome == ASSUME NEW s, Len(s) = 2 PROVE s # <<>>
BY EmptySeq

LEMMA PairIs == ASSUME NEW S, NEW a \in S, NEW b \in S PROVE <<a, b>> \in Seq(S)
OBVIOUS

(* The entry a remote tar begins with is passed over. *)
LEMMA TopPath ==
  ASSUME StreamInputs
  PROVE  SanitizeTarPath(EntryPath(TopEntry)).err = "empty"
<1> DEFINE x == "."
           y == ""
           w == <<x, y>>
<1>1. EntryPath(TopEntry) = <<>> \o w
  BY DEF EntryPath, TopEntry
<1>2. x \in STRING /\ y \in STRING /\ IsDot(x) /\ BlankUnit(y)
  BY LiteralIs DEF IsDot, BlankUnit
<1> HIDE DEF x, y
<1>3. w \in Seq(STRING)
  BY <1>2, PairIs
<1>4. Len(w) = 2 /\ w[1] = x /\ w[2] = y
  BY TwoIs
<1> HIDE DEF w
<1>5. EntryPath(TopEntry) = w
  BY <1>1, <1>3, ConcatEmptySeq
<1>6. w # <<>>
  BY <1>4, HasSome
<1>7. PICK n \in 0..Len(w) - 1 : Dots(w, n) /\ WithoutDots(w) = SubSeq(w, n + 1, Len(w))
  BY <1>3, <1>6, WithoutDotsIs
<1>8. n = Len(w) - 1 \/ ~IsDot(w[n + 1])
  BY <1>7 DEF Dots, IsDot
<1>9. n = 1
  <2>1. Len(w) = 2
    BY <1>4
  <2>2. n = 0 \/ n = 1
    BY <2>1
  <2>3. n # 0
    <3> SUFFICES ASSUME n = 0 PROVE FALSE
      OBVIOUS
    <3>1. n # Len(w) - 1 /\ n + 1 = 1
      BY <2>1
    <3>2. ~IsDot(w[1])
      BY <1>8, <3>1
    <3> QED BY <1>2, <1>4, <3>2
  <2> QED BY <2>2, <2>3
<1>10. WithoutDots(w) = End(w, 1)
  BY <1>7, <1>9 DEF End
<1>11. End(w, 1) = <<y>>
  <2>1. 1 \in 0..Len(w) /\ Len(w) - 1 = 1 /\ 1 \in 1..1 /\ 1 + 1 = 2
    BY <1>4
  <2>2. /\ End(w, 1) \in Seq(STRING) /\ Len(End(w, 1)) = Len(w) - 1
        /\ \A i \in 1..Len(w) - 1 : End(w, 1)[i] = w[1 + i]
    BY <1>3, <2>1, EndIs
  <2>3. Len(End(w, 1)) = 1 /\ End(w, 1)[1] = y
    BY <1>4, <2>1, <2>2
  <2>4. <<y>> \in Seq(STRING) /\ Len(<<y>>) = 1 /\ <<y>>[1] = y
    BY <1>2, OneIs
  <2> DEFINE a == End(w, 1)
             b == <<y>>
  <2>5. a \in Seq(STRING) /\ b \in Seq(STRING) /\ Len(a) = 1 /\ Len(b) = 1 /\ a[1] = b[1]
    BY <2>2, <2>3, <2>4
  <2> HIDE DEF a, b
  <2>6. \A i \in 1..1 : a[i] = b[i]
    BY <2>5
  <2>7. a = b
    BY <2>5, <2>6, SeqEqual
  <2> QED BY <2>7 DEF a, b
<1>12. WithoutDots(w) = <<"">>
  BY <1>10, <1>11 DEF y
<1>13. SanitizeTarPath(w).err = "empty"
  BY <1>12 DEF SanitizeTarPath
<1> QED BY <1>5, <1>13

LEMMA TopPassed ==
  ASSUME TarConstants, StreamInputs, NEW tail \in Seq(Units), NEW r,
         Joined(r.rest, <<TopEntry>>, tail)
  PROVE  ExtractEntry(r) = Amid(tail, r.fs)
<1> DEFINE g == TopEntry
           b == NextBlock(r.rest)
           rel == SanitizeTarPath(EntryPath(g))
           m == [ok |-> TRUE, fs |-> r.fs]
<1>1. g.size = 0 /\ g.sum = TRUE
  BY DEF TopEntry
<1>2. g \in HeaderUnits /\ rel.err = "empty"
  BY LiteralIs, TopPath
<1> HIDE DEF g
<1>3. b.kind = "header" /\ b.rest = tail /\ r.rest[1] = g
  BY <1>2, HeaderRead DEF g
<1>4. ~Refuses(r)
  <2>1. ~(g.size < 0)
    BY <1>1
  <2>2. ~(b.kind # "header") /\ ~(rel.err = "refused") /\ g.sum
    BY <1>1, <1>2, <1>3
  <2> HIDE DEF b, rel, m
  <2> QED BY <1>3, <2>1, <2>2 DEF Refuses, rel, b
<1>5. ExtractEntry(r) = Rests(r, g, m)
  BY <1>2, <1>3, <1>4, ExtractEntryIs
<1>6. m.ok /\ m.fs = r.fs
  OBVIOUS
<1> DEFINE d == <<>>
<1>7. d \in Seq(Units) /\ Len(d) = 0 /\ d \o tail = tail
  BY EmptySeq, ConcatEmptySeq
<1> HIDE DEF b, rel, m, d
<1>8. Joined(b.rest, d, tail)
  BY <1>3, <1>7 DEF Joined
<1>9. 0 \in Nat
  OBVIOUS
<1>10. Body(0) = 0
  BY <1>9, BodyIs
<1>11. g.size \in Nat /\ Len(d) = Body(g.size)
  BY <1>1, <1>7, <1>9, <1>10
<1>12. Rests(r, g, m) = Amid(tail, m.fs)
  <2>1. /\ g.size \in Nat /\ d \in Seq(Units) /\ Len(d) = Body(g.size) /\ m.ok
        /\ Joined(NextBlock(r.rest).rest, d, tail)
    BY <1>6, <1>7, <1>8, <1>11 DEF b
  <2> QED BY <2>1, RestsIs
<1> QED BY <1>5, <1>6, <1>12

(* An entry that ends before its last byte is an error. *)
Short(y) ==
  \/ y = <<>>
  \/ \E g, d : /\ g \in HeaderUnits /\ d \in Seq(Units) /\ Joined(y, <<g>>, d)
               /\ g.size \in Nat => Len(d) < Body(g.size)
Fails(r) == r.done = "failed"

LEMMA NothingNext ==
  ASSUME TarConstants
  PROVE  NextBlock(<<>>).kind = "short"
<1>1. Block \in Nat /\ Block > 0
  BY BlockIs
<1>2. Len(<<>>) = 0
  BY EmptySeq
<1>3. Len(<<>>) < Block
  BY <1>1, <1>2
<1> QED BY <1>3 DEF NextBlock

LEMMA RestsFails ==
  ASSUME NEW r, NEW g, NEW made, ~(Len(NextBlock(r.rest).rest) >= Body(g.size))
  PROVE  Fails(Rests(r, g, made))
BY DEF Rests, Fails, Body

LEMMA EndsFails == ASSUME NEW r PROVE Fails(Ends(r, "failed"))
BY DEF Ends, Fails

LEMMA ShortFails ==
  ASSUME TarConstants, NEW r, Short(r.rest)
  PROVE  Fails(ExtractEntry(r))
<1>1. CASE r.rest = <<>>
  <2>1. NextBlock(r.rest).kind = "short"
    BY <1>1, NothingNext
  <2>2. Refuses(r)
    BY <2>1 DEF Refuses
  <2>3. ExtractEntry(r) = Ends(r, "failed")
    BY <2>1, <2>2, ExtractEntryIs
  <2> QED BY <2>3, EndsFails
<1>2. CASE \E g, d : /\ g \in HeaderUnits /\ d \in Seq(Units) /\ Joined(r.rest, <<g>>, d)
                     /\ g.size \in Nat => Len(d) < Body(g.size)
  <2>1. PICK g, d : /\ g \in HeaderUnits /\ d \in Seq(Units) /\ Joined(r.rest, <<g>>, d)
                    /\ g.size \in Nat => Len(d) < Body(g.size)
    BY <1>2
  <2>2. NextBlock(r.rest).kind = "header" /\ NextBlock(r.rest).rest = d /\ r.rest[1] = g
    BY <2>1, HeaderRead
  <2>3. CASE Refuses(r)
    <3>1. ExtractEntry(r) = Ends(r, "failed")
      BY <2>2, <2>3, ExtractEntryIs
    <3> QED BY <3>1, EndsFails
  <2>4. CASE ~Refuses(r)
    <3>1. ~(g.size < 0)
      BY <2>2, <2>4 DEF Refuses
    <3>2. g.size \in Int
      BY <2>1, HeaderIs
    <3>3. g.size \in Nat
      BY <3>1, <3>2
    <3>4. Body(g.size) \in Nat /\ Len(d) \in Nat /\ Len(d) < Body(g.size)
      BY <2>1, <3>3, BodyIs, LenProperties
    <3>5. ~(Len(NextBlock(r.rest).rest) >= Body(g.size))
      BY <2>2, <3>4
    <3>6. \A made : Fails(Rests(r, g, made))
      BY <3>5, RestsFails
    <3>7. \/ \E made : ExtractEntry(r) = Rests(r, g, made)
          \/ ExtractEntry(r) = Ends(r, "failed")
      BY <2>2, <2>4, ExtractEntryIs
    <3> QED BY <3>6, <3>7, EndsFails
  <2> QED BY <2>3, <2>4
<1> QED BY <1>1, <1>2 DEF Short

(* The two blocks of zeros that end an archive. *)
LEMMA ZerosCut ==
  ASSUME NEW n \in Nat, NEW k \in 0..n
  PROVE  /\ SubSeq(Zeros(n), 1, k) = Zeros(k)
         /\ SubSeq(Zeros(n), k + 1, n) = Zeros(n - k)
<1> DEFINE s == Zeros(n)
           a == SubSeq(s, 1, k)
           b == SubSeq(s, k + 1, n)
           S == ByteUnits
<1>0. k \in Nat /\ n - k \in Nat
  OBVIOUS
<1>1. /\ s \in Seq(S) /\ Len(s) = n /\ \A i \in 1..n : s[i] = Byte(0)
      /\ Zeros(k) \in Seq(S) /\ Len(Zeros(k)) = k
      /\ \A i \in 1..k : Zeros(k)[i] = Byte(0)
      /\ Zeros(n - k) \in Seq(S) /\ Len(Zeros(n - k)) = n - k
      /\ \A i \in 1..n - k : Zeros(n - k)[i] = Byte(0)
  BY <1>0, ZerosIs
<1> HIDE DEF s, S
<1>2. 1 \in 1..Len(s) + 1 /\ k \in 1 - 1..Len(s) /\ k - 1 + 1 = k
  BY <1>1
<1>3. k + 1 \in 1..Len(s) + 1 /\ n \in (k + 1) - 1..Len(s) /\ n - (k + 1) + 1 = n - k
  BY <1>1
<1>4. a \in Seq(S) /\ Len(a) = k - 1 + 1 /\ \A i \in 1..k - 1 + 1 : a[i] = s[1 + i - 1]
  BY <1>1, <1>2, SubSeqIs
<1>5. /\ b \in Seq(S) /\ Len(b) = n - (k + 1) + 1
      /\ \A i \in 1..n - (k + 1) + 1 : b[i] = s[(k + 1) + i - 1]
  BY <1>1, <1>3, SubSeqIs
<1> HIDE DEF a, b
<1>6. \A i \in 1..k : 1 + i - 1 \in 1..n /\ i \in 1..k - 1 + 1
  OBVIOUS
<1>7. \A i \in 1..n - k : (k + 1) + i - 1 \in 1..n /\ i \in 1..n - (k + 1) + 1
  OBVIOUS
<1>8. Len(a) = k /\ \A i \in 1..k : a[i] = Byte(0)
  BY <1>1, <1>2, <1>4, <1>6
<1>9. Len(b) = n - k /\ \A i \in 1..n - k : b[i] = Byte(0)
  BY <1>1, <1>3, <1>5, <1>7
<1>10. a = Zeros(k)
  BY <1>1, <1>4, <1>8, SeqEqual
<1>11. b = Zeros(n - k)
  BY <1>1, <1>5, <1>9, SeqEqual
<1> QED BY <1>10, <1>11 DEF a, b, s

LEMMA ZerosNext ==
  ASSUME TarConstants, NEW n \in Nat
  PROVE  LET b == NextBlock(Zeros(n))
         IN  /\ n < Block => b.kind = "short"
             /\ n >= Block => b.kind = "zero" /\ b.rest = Zeros(n - Block)
<1> DEFINE s == Zeros(n)
           b == NextBlock(s)
<1>1. /\ s \in Seq(ByteUnits) /\ Len(s) = n /\ \A i \in 1..n : s[i] = Byte(0)
  BY ZerosIs
<1>2. Block \in Nat /\ Block > 0
  BY BlockIs
<1>3. ~(s # <<>> /\ s[1].flag # "byte")
  <2> SUFFICES ASSUME s # <<>> PROVE ~IsFlagged(s[1])
    BY DEF IsFlagged
  <2> HIDE DEF s, b
  <2>1. n # 0
    BY <1>1, EmptySeq
  <2>2. 1 \in 1..n
    BY <2>1
  <2>3. s[1] = Byte(0)
    BY <1>1, <2>2
  <2> QED BY <2>3 DEF IsFlagged, Byte
<1>4. ASSUME n < Block PROVE b.kind = "short"
  BY <1>1, <1>3, <1>4 DEF NextBlock
<1>5. ASSUME n >= Block PROVE b.kind = "zero" /\ b.rest = Zeros(n - Block)
  <2>1. ~(n < Block) /\ Block \in 0..n
    BY <1>2, <1>5
  <2>2. SubSeq(s, 1, Block) = Zeros(Block) /\ SubSeq(s, Block + 1, n) = Zeros(n - Block)
    BY <2>1, ZerosCut
  <2>3. b = [kind |-> IF SubSeq(s, 1, Block) = Zeros(Block) THEN "zero" ELSE "garbage",
             rest |-> SubSeq(s, Block + 1, Len(s))]
    BY <1>1, <1>3, <2>1 DEF NextBlock
  <2> HIDE DEF b, s
  <2>4. b = [kind |-> "zero", rest |-> SubSeq(s, Block + 1, Len(s))]
    BY <2>2, <2>3
  <2> QED BY <1>1, <2>2, <2>4
<1> QED BY <1>4, <1>5

LEMMA ZerosEnd ==
  ASSUME TarConstants, NEW n \in Nat, n <= 2 * Block, NEW r, r.rest = Zeros(n)
  PROVE  LET x == ExtractEntry(r)
         IN  /\ n < 2 * Block => Fails(x)
             /\ n = 2 * Block => x.done = "whole" /\ x.fs = r.fs
<1> DEFINE x == ExtractEntry(r)
           b == NextBlock(r.rest)
<1>1. Block \in Nat /\ Block > 0
  BY BlockIs
<1>2. CASE n < Block
  <2>1. b.kind = "short"
    BY <1>2, ZerosNext
  <2>2. Refuses(r)
    BY <2>1 DEF Refuses
  <2>3. x = Ends(r, "failed")
    BY <2>1, <2>2, ExtractEntryIs
  <2>4. n # 2 * Block
    BY <1>1, <1>2
  <2> HIDE DEF x
  <2> QED BY <2>3, <2>4, EndsFails DEF x
<1>3. CASE n >= Block
  <2> DEFINE m == n - Block
             k == NextBlock(b.rest).kind
  <2>1. b.kind = "zero" /\ b.rest = Zeros(m)
    BY <1>3, ZerosNext
  <2>2. x = Ends(r, IF k # "short" THEN "whole" ELSE "failed")
    BY <2>1, ExtractEntryIs
  <2>3. m \in Nat /\ (n < 2 * Block => m < Block) /\ (n = 2 * Block => m >= Block)
    BY <1>1, <1>3
  <2> HIDE DEF m, b
  <2>4. (m < Block => k = "short") /\ (m >= Block => k = "zero")
    BY <2>1, <2>3, ZerosNext
  <2> HIDE DEF x, k
  <2>5. ASSUME n < 2 * Block PROVE Fails(x)
    <3>1. k = "short"
      BY <2>3, <2>4, <2>5
    <3>2. x = Ends(r, "failed")
      BY <2>2, <3>1
    <3> QED BY <3>2, EndsFails
  <2>6. ASSUME n = 2 * Block PROVE x.done = "whole" /\ x.fs = r.fs
    <3>1. k = "zero"
      BY <2>3, <2>4, <2>6
    <3>2. x = Ends(r, "whole")
      BY <2>2, <3>1
    <3> QED BY <3>2 DEF Ends
  <2> QED BY <2>5, <2>6 DEF x
<1>4. n < Block \/ n >= Block
  BY <1>1
<1> QED BY <1>2, <1>3, <1>4

(* What one more turn of the reader does. *)
Stands(s, j, rest, f) == Turns(s)[j] = Amid(rest, f)
Ended(x) == x.done = "whole"
Rejected(s) == ExtractTarToDir(s).ok = FALSE

LEMMA AfterLast ==
  ASSUME NEW n \in Nat, NEW j \in 0..n
  PROVE  j \in 0..n + 1 /\ j + 1 \in 1..n + 1 /\ j + 1 \in 0..n + 1 /\ j + 1 - 1 = j
OBVIOUS

LEMMA OneMore == ASSUME NEW a \in Nat, NEW b \in Nat, NEW c \in Nat, NEW j \in 0..a
                 PROVE  j \in 0..a + c /\ j + 1 \in 0..a + (b + 1)
OBVIOUS

LEMMA JoinedApart ==
  ASSUME NEW S, NEW a \in Seq(S), NEW b \in Seq(S), NEW c \in Seq(S)
  PROVE  Joined((a \o b) \o c, a, b \o c)
BY ConcatAssociative DEF Joined

LEMMA AmidIs == ASSUME NEW rest, NEW f
                PROVE  /\ Amid(rest, f).rest = rest /\ Amid(rest, f).fs = f
                       /\ Amid(rest, f).done = "no"
BY DEF Amid

LEMMA NextTurn ==
  ASSUME TarConstants, NEW s \in Seq(Units), NEW j \in 0..Len(s), NEW rest, NEW f,
         Stands(s, j, rest, f)
  PROVE  Amid(rest, f) \in Reading /\ Turns(s)[j + 1] = ExtractEntry(Amid(rest, f))
<1>1. Len(s) \in Nat
  BY LenProperties
<1>2. j \in 0..Len(s) + 1 /\ j + 1 \in 1..Len(s) + 1 /\ j + 1 - 1 = j
  BY <1>1, AfterLast
<1>3. Turns(s)[j] \in Reading
  BY <1>2, TurnsRec
<1>4. Turns(s)[j + 1] =
        IF Turns(s)[j].done = "no" THEN ExtractEntry(Turns(s)[j]) ELSE Turns(s)[j]
  <2> DEFINE k == Turns(s)
             After(b) == IF b.done = "no" THEN ExtractEntry(b) ELSE b
  <2>1. \A i \in 1..Len(s) + 1 : k[i] = After(k[i - 1])
    BY TurnsRec
  <2> HIDE DEF k, After
  <2>2. j + 1 \in 1..Len(s) + 1
    BY <1>2
  <2> DEFINE i == j + 1
  <2>3. i - 1 = j
    BY <1>2
  <2> HIDE DEF i
  <2>4. k[i] = After(k[i - 1])
    BY <2>1, <2>2 DEF i
  <2>5. k[j + 1] = After(k[j])
    BY <2>3, <2>4 DEF i
  <2> QED BY <2>5 DEF k, After
<1>5. Turns(s)[j] = Amid(rest, f) /\ Turns(s)[j].done = "no"
  BY AmidIs DEF Stands
<1> QED BY <1>3, <1>4, <1>5

LEMMA Verdict ==
  ASSUME TarConstants, NEW s \in Seq(Units), NEW j \in 0..Len(s), NEW rest, NEW f,
         Stands(s, j, rest, f)
  PROVE  LET x == ExtractEntry(Amid(rest, f))
         IN  /\ Fails(x) => Rejected(s)
             /\ Ended(x) => ExtractTarToDir(s).ok /\ ExtractTarToDir(s).fs = x.fs
<1> DEFINE x == ExtractEntry(Amid(rest, f))
           l == Turns(s)[Len(s) + 1]
<1>1. Turns(s)[j + 1] = x
  BY NextTurn
<1>2. Len(s) \in Nat
  BY LenProperties
<1>3. j + 1 \in 0..Len(s) + 1
  BY <1>2, AfterLast
<1>4. x.done # "no" => l = x
  BY <1>1, <1>3, TurnsStay
<1>5. ExtractTarToDir(s).ok = (l.done = "whole") /\ ExtractTarToDir(s).fs = l.fs
  BY DEF ExtractTarToDir
<1> HIDE DEF l, x
<1>6. ASSUME Fails(x) PROVE Rejected(s)
  <2>1. x.done = "failed"
    BY <1>6 DEF Fails
  <2>2. l.done = "failed"
    BY <1>4, <2>1
  <2>3. (l.done = "whole") = FALSE
    BY <2>2
  <2> QED BY <1>5, <2>3, Zenon DEF Rejected
<1>7. ASSUME Ended(x) PROVE ExtractTarToDir(s).ok /\ ExtractTarToDir(s).fs = x.fs
  <2>1. x.done = "whole"
    BY <1>7 DEF Ended
  <2>2. l = x
    BY <1>4, <2>1
  <2>3. l.done = "whole"
    BY <2>1, <2>2
  <2> QED BY <1>5, <2>2, <2>3, Zenon
<1> QED BY <1>6, <1>7 DEF x

(* A beginning of a stream that the reader takes entry by entry, whatever   *)
(* follows it.                                                              *)
Reads(z, t, X) ==
  /\ z \in Seq(Units)
  /\ \A tail \in Seq(Units) : \E j \in 0..Len(z) : Stands(z \o tail, j, tail, Made(t, X))

LEMMA MadeNothing == ASSUME NEW t PROVE Made(t, {}) = <<>>
<1>1. Beneath({}) = {}
  BY DEF Beneath
<1>2. Made(t, {}) = [q \in {} |-> Node(t, q)]
  BY <1>1 DEF Made
<1> QED BY <1>2

LEMMA ReadsNothing ==
  ASSUME TarConstants, NEW t
  PROVE  Reads(<<>>, t, {})
<1>1. <<>> \in Seq(Units) /\ Len(<<>>) = 0
  BY EmptySeq
<1>2. ASSUME NEW tail \in Seq(Units) PROVE Stands(<<>> \o tail, 0, tail, Made(t, {}))
  <2>1. <<>> \o tail = tail
    BY ConcatEmptySeq
  <2>2. Turns(tail)[0] = [rest |-> tail, fs |-> <<>>, done |-> "no"]
    BY TurnsRec
  <2>3. Turns(tail)[0] = Amid(tail, <<>>)
    BY <2>2 DEF Amid
  <2>4. Made(t, {}) = <<>>
    BY MadeNothing
  <2> QED BY <2>1, <2>3, <2>4 DEF Stands
<1>3. 0 \in 0..Len(<<>>)
  BY <1>1
<1> QED BY <1>1, <1>2, <1>3 DEF Reads

LEMMA ReadsTop ==
  ASSUME TarConstants, StreamInputs, NEW t
  PROVE  Reads(<<TopEntry>>, t, {})
<1> DEFINE g == TopEntry
           z == <<g>>
<1>1. g \in Units
  BY LiteralIs, HeaderIs
<1> HIDE DEF g
<1>2. z \in Seq(Units) /\ Len(z) = 1
  BY <1>1, OneIs
<1>3. ASSUME NEW tail \in Seq(Units) PROVE Stands(z \o tail, 1, tail, Made(t, {}))
  <2> DEFINE w == z \o tail
             r == Amid(w, <<>>)
  <2>1. w \in Seq(Units) /\ Len(w) = Len(z) + Len(tail) /\ Len(tail) \in Nat
    BY <1>2, LenConcat
  <2> HIDE DEF w
  <2>2. Stands(w, 0, w, <<>>)
    <3>1. Turns(w)[0] = [rest |-> w, fs |-> <<>>, done |-> "no"]
      BY <2>1, TurnsRec
    <3> QED BY <3>1 DEF Stands, Amid
  <2>3. 0 \in 0..Len(w) /\ 0 + 1 = 1
    BY <1>2, <2>1
  <2>4. Turns(w)[1] = ExtractEntry(r)
    BY <2>1, <2>2, <2>3, NextTurn
  <2>5. r.rest = w /\ r.fs = <<>>
    BY AmidIs
  <2>6. Joined(r.rest, <<TopEntry>>, tail)
    BY <2>5 DEF Joined, w, g
  <2> HIDE DEF r
  <2>7. ExtractEntry(r) = Amid(tail, r.fs)
    BY <2>6, TopPassed
  <2>8. Made(t, {}) = <<>>
    BY MadeNothing
  <2> QED BY <2>4, <2>5, <2>7, <2>8 DEF Stands, w
<1> HIDE DEF z
<1>4. 1 \in 0..Len(z)
  BY <1>2
<1>5. Reads(z, t, {})
  BY <1>2, <1>3, <1>4 DEF Reads
<1> QED BY <1>5 DEF z, g

LEMMA EntryTurn ==
  ASSUME TarConstants, TreeInputs, NEW t, IsTree(t), NEW X, X \subseteq DOMAIN t,
         NEW p \in DOMAIN t, NEW g, NEW d, Entry(t, p, g, d), NEW w \in Seq(Units),
         NEW j \in 0..Len(w), NEW tail \in Seq(Units), NEW e, Leads(e, g, d, tail),
         Stands(w, j, e, Made(t, X))
  PROVE  Stands(w, j + 1, tail, Made(t, X \cup {p}))
<1> DEFINE f == Made(t, X)
           r == Amid(e, f)
<1>1. r \in Reading /\ Turns(w)[j + 1] = ExtractEntry(r)
  <2> HIDE DEF f
  <2>1. Stands(w, j, e, f)
    BY DEF f
  <2> QED BY <2>1, NextTurn
<1>2. r.rest = e /\ r.fs = f
  BY AmidIs
<1> HIDE DEF r
<1>3. ExtractEntry(r) = Amid(tail, Made(t, X \cup {p}))
  <2>1. Before(r, t, X, g, d, tail)
    BY <1>1, <1>2 DEF Before
  <2> HIDE DEF f
  <2> QED BY <2>1, EntryRead
<1> QED BY <1>1, <1>3 DEF Stands

LEMMA ReadsEntry ==
  ASSUME TarConstants, TreeInputs, NEW t, IsTree(t), NEW X, X \subseteq DOMAIN t,
         NEW p \in DOMAIN t, NEW g, NEW d, Entry(t, p, g, d), NEW z, Reads(z, t, X)
  PROVE  Reads(z \o (<<g>> \o d), t, X \cup {p})
<1> DEFINE y == <<g>> \o d
<1>1. z \in Seq(Units)
  BY DEF Reads
<1>2. g \in Units /\ d \in Seq(Units)
  BY EntryIs, HeaderIs
<1>3. y \in Seq(Units) /\ Len(y) = Len(d) + 1 /\ Len(d) \in Nat
  BY <1>2, HeadOfConcat
<1>4. <<g>> \in Seq(Units)
  BY <1>2, OneIs
<1>5. z \o y \in Seq(Units) /\ Len(z \o y) = Len(z) + Len(y) /\ Len(z) \in Nat
  <2> HIDE DEF y
  <2> QED BY <1>1, <1>3, LenConcat
<1>6. ASSUME NEW tail \in Seq(Units)
      PROVE  \E j \in 0..Len(z \o y) : Stands((z \o y) \o tail, j, tail, Made(t, X \cup {p}))
  <2> DEFINE e == y \o tail
             w == z \o e
             f == Made(t, X)
  <2>1. e \in Seq(Units)
    <3> HIDE DEF y
    <3> QED BY <1>3, LenConcat
  <2>2. Leads(e, g, d, tail)
    <3>1. <<g>> \in Seq(Units) /\ d \in Seq(Units) /\ tail \in Seq(Units)
      BY <1>2, <1>4
    <3>2. Joined((<<g>> \o d) \o tail, <<g>>, d \o tail)
      BY <3>1, JoinedApart
    <3> QED BY <3>2 DEF Leads
  <2>3. Joined((z \o y) \o tail, z, e)
    <3> HIDE DEF y
    <3>1. z \in Seq(Units) /\ y \in Seq(Units) /\ tail \in Seq(Units)
      BY <1>1, <1>3
    <3> QED BY <3>1, JoinedApart
  <2> HIDE DEF e, y
  <2>4. w \in Seq(Units) /\ Len(w) = Len(z) + Len(e) /\ Len(e) \in Nat
    BY <1>1, <2>1, LenConcat
  <2>5. PICK j \in 0..Len(z) : Stands(w, j, e, f)
    BY <2>1 DEF Reads
  <2> HIDE DEF w, f
  <2>6. j \in 0..Len(w) /\ j + 1 \in 0..Len(z \o y)
    <3>1. j \in 0..Len(z) + Len(e) /\ j + 1 \in 0..Len(z) + (Len(d) + 1)
      BY <1>3, <1>5, <2>4, OneMore
    <3> QED BY <1>3, <1>5, <2>4, <3>1
  <2>10. Stands(w, j + 1, tail, Made(t, X \cup {p}))
    <3>1. w \in Seq(Units) /\ j \in 0..Len(w) /\ Stands(w, j, e, Made(t, X))
      BY <2>4, <2>5, <2>6 DEF f
    <3> QED BY <2>2, <3>1, EntryTurn
  <2>11. Stands((z \o y) \o tail, j + 1, tail, Made(t, X \cup {p}))
    BY <2>3, <2>10 DEF Joined, w
  <2> QED BY <2>6, <2>11
<1> HIDE DEF y
<1>7. Reads(z \o y, t, X \cup {p})
  BY <1>5, <1>6 DEF Reads
<1> QED BY <1>7 DEF y

(* A stream of which no beginning is taken for an archive. *)
Hopeless(z) == z \in Seq(Units) /\ \A n \in 0..Len(z) : Rejected(SubSeq(z, 1, n))

LEMMA ShortRefused ==
  ASSUME TarConstants, NEW t, NEW X, NEW z, Reads(z, t, X), NEW y \in Seq(Units), Short(y)
  PROVE  Rejected(z \o y)
<1> DEFINE w == z \o y
           r == Amid(y, Made(t, X))
<1>1. z \in Seq(Units)
  BY DEF Reads
<1>2. w \in Seq(Units) /\ Len(w) = Len(z) + Len(y) /\ Len(z) \in Nat /\ Len(y) \in Nat
  BY <1>1, LenConcat
<1>3. PICK j \in 0..Len(z) : Stands(w, j, y, Made(t, X))
  BY DEF Reads
<1> HIDE DEF w
<1>4. j \in 0..Len(w)
  BY <1>2, OneMore
<1>5. r.rest = y
  BY AmidIs
<1>6. Fails(ExtractEntry(r))
  <2> HIDE DEF r
  <2> QED BY <1>5, ShortFails
<1>7. Rejected(w)
  BY <1>2, <1>3, <1>4, <1>6, Verdict
<1> QED BY <1>7 DEF w

LEMMA Further ==
  ASSUME NEW a \in Nat, NEW b \in Nat, NEW n \in 0..a + b, n \notin 0..a, n # a + b
  PROVE  n \in a..a + b /\ n - a \in 0..b - 1 /\ n - a \in 0..b
OBVIOUS

LEMMA HopelessMore ==
  ASSUME TarConstants, NEW t, NEW X, NEW z, Reads(z, t, X), Hopeless(z),
         NEW y \in Seq(Units), \A n \in 0..Len(y) - 1 : Short(SubSeq(y, 1, n)),
         Rejected(z \o y)
  PROVE  Hopeless(z \o y)
<1> DEFINE w == z \o y
<1>1. z \in Seq(Units)
  BY DEF Reads
<1>2. w \in Seq(Units) /\ Len(w) = Len(z) + Len(y) /\ Len(z) \in Nat /\ Len(y) \in Nat
  BY <1>1, LenConcat
<1>3. ASSUME NEW n \in 0..Len(w) PROVE Rejected(SubSeq(w, 1, n))
  <2>1. CASE n \in 0..Len(z)
    <3>1. SubSeq(w, 1, n) = SubSeq(z, 1, n)
      BY <1>1, <2>1, TakeConcat
    <3>2. Rejected(SubSeq(z, 1, n))
      BY <2>1 DEF Hopeless
    <3> HIDE DEF w
    <3> QED BY <3>1, <3>2
  <2>2. CASE n = Len(w)
    <3>1. SubSeq(w, 1, Len(w)) = w
      <4> HIDE DEF w
      <4> QED BY <1>2, SubSeqFull
    <3> QED BY <2>2, <3>1
  <2>3. CASE n \notin 0..Len(z) /\ n # Len(w)
    <3> DEFINE m == n - Len(z)
               v == SubSeq(y, 1, m)
    <3>1. n \in Len(z)..Len(z) + Len(y) /\ m \in 0..Len(y) - 1 /\ m \in 0..Len(y)
      <4> HIDE DEF w
      <4>1. n \in 0..Len(z) + Len(y) /\ n # Len(z) + Len(y) /\ n \notin 0..Len(z)
        BY <1>2, <2>3
      <4> QED BY <1>2, <4>1, Further
    <3>2. SubSeq(w, 1, n) = z \o v
      BY <1>1, <3>1, TakeMore
    <3> HIDE DEF w, m
    <3>3. Short(v)
      BY <3>1
    <3>4. v \in Seq(Units)
      <4>1. 1 \in 1..Len(y) + 1 /\ m \in 1 - 1..Len(y)
        BY <1>2, <3>1
      <4> QED BY <4>1, SubSeqIs
    <3> HIDE DEF v
    <3>5. Rejected(z \o v)
      BY <3>3, <3>4, ShortRefused
    <3> QED BY <3>2, <3>5
  <2> QED BY <2>1, <2>2, <2>3
<1> HIDE DEF w
<1>4. Hopeless(w)
  BY <1>2, <1>3 DEF Hopeless
<1> QED BY <1>4 DEF w

LEMMA EmptyBeginning == ASSUME NEW S, NEW y \in Seq(S) PROVE SubSeq(y, 1, 0) = <<>>
<1> DEFINE e == SubSeq(y, 1, 0)
<1>1. Len(y) \in Nat
  BY LenProperties
<1>2. 1 \in 1..Len(y) + 1 /\ 0 \in 1 - 1..Len(y) /\ 0 - 1 + 1 = 0
  BY <1>1
<1>3. e \in Seq(S) /\ Len(e) = 0
  BY <1>2, SubSeqIs
<1> HIDE DEF e
<1>4. e = <<>>
  BY <1>3, EmptySeq
<1> QED BY <1>4 DEF e

LEMMA ShortBeginnings ==
  ASSUME NEW g \in HeaderUnits, NEW d \in Seq(Units), NEW y, Joined(y, <<g>>, d),
         g.size \in Nat, Body(g.size) \in Nat, Len(d) <= Body(g.size)
  PROVE  /\ y \in Seq(Units)
         /\ \A n \in 0..Len(y) - 1 : Short(SubSeq(y, 1, n))
         /\ Len(d) < Body(g.size) => Short(y)
<1> DEFINE a == <<g>>
<1>1. g \in Units
  BY HeaderIs
<1>2. a \in Seq(Units) /\ Len(a) = 1
  BY <1>1, OneIs
<1>3. y \in Seq(Units) /\ Len(y) = Len(d) + 1 /\ Len(d) \in Nat
  BY <1>1, HeadOfConcat DEF Joined
<1>4. ASSUME NEW n \in 0..Len(y) - 1 PROVE Short(SubSeq(y, 1, n))
  <2>1. CASE n = 0
    <3>1. SubSeq(y, 1, 0) = <<>>
      BY <1>3, EmptyBeginning
    <3> QED BY <2>1, <3>1 DEF Short
  <2>2. CASE n # 0
    <3> DEFINE v == SubSeq(d, 1, n - 1)
    <3> HIDE DEF a
    <3>1. /\ n \in Len(a)..Len(a) + Len(d) /\ n - Len(a) = n - 1
          /\ 1 \in 1..Len(d) + 1 /\ n - 1 \in 1 - 1..Len(d) /\ (n - 1) - 1 + 1 = n - 1
          /\ n - 1 < Len(d)
      BY <1>2, <1>3, <2>2
    <3>2. v \in Seq(Units) /\ Len(v) = n - 1
      BY <3>1, SubSeqIs
    <3>3. SubSeq(a \o d, 1, n) = a \o SubSeq(d, 1, n - Len(a))
      BY <1>2, <3>1, TakeMore
    <3>4. Joined(SubSeq(y, 1, n), <<g>>, v)
      BY <3>1, <3>3 DEF Joined, a
    <3> HIDE DEF v
    <3>5. Len(v) < Body(g.size)
      BY <1>3, <3>1, <3>2
    <3> QED BY <3>2, <3>4, <3>5 DEF Short
  <2> QED BY <2>1, <2>2
<1>5. Len(d) < Body(g.size) => Short(y)
  BY DEF Short
<1> QED BY <1>3, <1>4, <1>5

(* One entry more: whole, or broken off. *)
LEMMA OneEntryMore ==
  ASSUME TarConstants, TreeInputs, NEW t, IsTree(t), NEW X, X \subseteq DOMAIN t,
         NEW p \in DOMAIN t, NEW g, NEW d, Entry(t, p, g, d), NEW z, Reads(z, t, X), Hopeless(z)
  PROVE  Reads(z \o (<<g>> \o d), t, X \cup {p}) /\ Hopeless(z \o (<<g>> \o d))
<1> DEFINE y == <<g>> \o d
<1>1. Reads(z \o y, t, X \cup {p})
  BY ReadsEntry
<1>2. g \in HeaderUnits /\ g.size \in Nat /\ d \in Seq(Units) /\ Len(d) = Body(g.size)
  BY EntryIs
<1>3. Body(g.size) \in Nat /\ Len(d) <= Body(g.size)
  <2>1. Body(g.size) \in Nat
    BY <1>2, BodyIs
  <2> QED BY <1>2, <2>1
<1>4. Joined(y, <<g>>, d)
  BY DEF Joined
<1> HIDE DEF y
<1>5. y \in Seq(Units) /\ \A n \in 0..Len(y) - 1 : Short(SubSeq(y, 1, n))
  BY <1>2, <1>3, <1>4, ShortBeginnings
<1>6. Rejected(z \o y)
  <2> DEFINE w == z \o y
  <2>1. w \in Seq(Units)
    BY <1>1 DEF Reads
  <2> HIDE DEF w
  <2>2. <<>> \in Seq(Units) /\ Short(<<>>)
    BY EmptySeq DEF Short
  <2>3. Rejected(w \o <<>>)
    BY <1>1, <2>2, ShortRefused DEF w
  <2>4. w \o <<>> = w
    BY <2>1, ConcatEmptySeq
  <2> QED BY <2>3, <2>4 DEF w
<1>7. Hopeless(z \o y)
  BY <1>5, <1>6, HopelessMore
<1> QED BY <1>1, <1>7 DEF y

LEMMA BrokenOff ==
  ASSUME TarConstants, NEW t, NEW X, NEW z, Reads(z, t, X), Hopeless(z),
         NEW g \in HeaderUnits, g.size \in Nat, NEW d, Lacking(d, g.size)
  PROVE  Hopeless(z \o (<<g>> \o d))
<1> DEFINE y == <<g>> \o d
<1>1. d \in Seq(Units) /\ Len(d) < Body(g.size) /\ Len(d) \in Nat /\ Body(g.size) \in Nat
  BY ToUnits, BodyIs, LenProperties DEF Lacking
<1>2. Joined(y, <<g>>, d)
  BY DEF Joined
<1> HIDE DEF y
<1>3. Len(d) <= Body(g.size)
  BY <1>1
<1>4. y \in Seq(Units) /\ (\A n \in 0..Len(y) - 1 : Short(SubSeq(y, 1, n))) /\ Short(y)
  BY <1>1, <1>2, <1>3, ShortBeginnings
<1>5. Rejected(z \o y)
  BY <1>4, ShortRefused
<1>6. Hopeless(z \o y)
  BY <1>4, <1>5, HopelessMore
<1> QED BY <1>6 DEF y

LEMMA NothingYet ==
  ASSUME TarConstants, NEW t
  PROVE  Hopeless(<<>>)
<1>1. <<>> \in Seq(Units) /\ Len(<<>>) = 0 /\ Short(<<>>)
  BY EmptySeq DEF Short
<1>2. Reads(<<>>, t, {})
  BY ReadsNothing
<1>3. Rejected(<<>> \o <<>>)
  BY <1>1, <1>2, ShortRefused
<1>4. <<>> \o <<>> = <<>> /\ SubSeq(<<>>, 1, 0) = <<>>
  BY <1>1, ConcatEmptySeq, EmptyBeginning
<1>5. ASSUME NEW n \in 0..Len(<<>>) PROVE n = 0
  BY <1>1
<1> QED BY <1>1, <1>3, <1>4, <1>5 DEF Hopeless

LEMMA TopOnly ==
  ASSUME TarConstants, StreamInputs, NEW t
  PROVE  Hopeless(<<TopEntry>>)
<1> DEFINE g == TopEntry
           y == <<g>>
<1>1. Reads(y, t, {})
  BY ReadsTop
<1>2. <<>> \in Seq(Units) /\ Short(<<>>)
  BY EmptySeq DEF Short
<1>3. Rejected(y \o <<>>)
  BY <1>1, <1>2, ShortRefused
<1>4. g \in Units
  BY LiteralIs, HeaderIs
<1> HIDE DEF g
<1>5. y \in Seq(Units) /\ Len(y) = 1
  BY <1>4, OneIs
<1> HIDE DEF y
<1>6. y \o <<>> = y /\ SubSeq(y, 1, Len(y)) = y
  BY <1>5, ConcatEmptySeq, SubSeqFull
<1>7. SubSeq(y, 1, 0) = <<>>
  BY <1>5, EmptyBeginning
<1>8. Rejected(<<>>)
  <2>1. Hopeless(<<>>) /\ Len(<<>>) = 0
    BY NothingYet, EmptySeq
  <2>2. 0 \in 0..Len(<<>>)
    BY <2>1
  <2>3. SubSeq(<<>>, 1, 0) = <<>>
    BY <1>2, EmptyBeginning
  <2> QED BY <2>1, <2>2, <2>3 DEF Hopeless
<1>9. \A n \in 0..Len(y) : n = 0 \/ n = Len(y)
  BY <1>5
<1>10. Hopeless(y)
  BY <1>3, <1>5, <1>6, <1>7, <1>8, <1>9 DEF Hopeless
<1> QED BY <1>10 DEF y, g

(* A stream as the reader gets it, straight from write_dir_as_tar or from a *)
(* remote tar.                                                              *)
Dress(dot, s) == [i \in 1..Len(s) |-> Wrap(dot, s[i])]
Lead(dot) == IF dot THEN <<TopEntry>> ELSE <<>>
Stream(dot, out) == Lead(dot) \o Dress(dot, out)
Wrapped(dot) == Units \cup {Wrap(dot, u) : u \in Units}

LEMMA DressIs ==
  ASSUME NEW dot, NEW s \in Seq(Units)
  PROVE  /\ Dress(dot, s) \in Seq(Wrapped(dot)) /\ Len(s) \in Nat /\ Len(Dress(dot, s)) = Len(s)
         /\ \A i \in 1..Len(s) : Dress(dot, s)[i] = Wrap(dot, s[i])
<1> DEFINE d == Dress(dot, s)
<1>1. Len(s) \in Nat /\ \A i \in 1..Len(s) : s[i] \in Units
  BY LenProperties, ElementOfSeq
<1>2. \A i \in 1..Len(s) : Wrap(dot, s[i]) \in Wrapped(dot)
  BY <1>1 DEF Wrapped
<1>3. d = [i \in 1..Len(s) |-> Wrap(dot, s[i])]
  BY DEF Dress
<1> HIDE DEF d
<1>4. d \in [1..Len(s) -> Wrapped(dot)]
  BY <1>2, <1>3
<1>5. d \in Seq(Wrapped(dot))
  BY <1>1, <1>4, SeqDef
<1>6. Len(d) = Len(s)
  <2>1. Len(d) \in Nat /\ DOMAIN d = 1..Len(d)
    BY <1>5, LenProperties
  <2>2. 1..Len(d) = 1..Len(s)
    BY <1>3, <2>1
  <2> QED BY <1>1, <2>1, <2>2, SameUpto
<1>7. \A i \in 1..Len(s) : d[i] = Wrap(dot, s[i])
  BY <1>3
<1> QED BY <1>1, <1>5, <1>6, <1>7 DEF d

LEMMA Side == ASSUME NEW a \in Nat, NEW b \in Nat, NEW i \in 1..a + b
              PROVE  i \in 1..a \/ (i - a \in 1..b /\ a + (i - a) = i)
OBVIOUS

LEMMA DressConcat ==
  ASSUME NEW dot, NEW a \in Seq(Units), NEW b \in Seq(Units)
  PROVE  Joined(Dress(dot, a \o b), Dress(dot, a), Dress(dot, b))
<1> DEFINE c == a \o b
           W == Wrapped(dot)
           x == Dress(dot, a)
           y == Dress(dot, b)
           w == Dress(dot, c)
           v == x \o y
<1>1. /\ c \in Seq(Units) /\ Len(c) = Len(a) + Len(b) /\ Len(a) \in Nat /\ Len(b) \in Nat
      /\ \A i \in 1..Len(a) : c[i] = a[i]
      /\ \A i \in 1..Len(b) : c[Len(a) + i] = b[i]
  BY ConcatIs
<1> HIDE DEF c
<1>2. /\ x \in Seq(W) /\ Len(x) = Len(a) /\ \A i \in 1..Len(a) : x[i] = Wrap(dot, a[i])
      /\ y \in Seq(W) /\ Len(y) = Len(b) /\ \A i \in 1..Len(b) : y[i] = Wrap(dot, b[i])
      /\ w \in Seq(W) /\ Len(w) = Len(c) /\ \A i \in 1..Len(c) : w[i] = Wrap(dot, c[i])
  BY <1>1, DressIs
<1> HIDE DEF x, y, w, W
<1>3. /\ v \in Seq(W) /\ Len(v) = Len(x) + Len(y)
      /\ \A i \in 1..Len(x) : v[i] = x[i]
      /\ \A i \in 1..Len(y) : v[Len(x) + i] = y[i]
  <2>1. x \in Seq(W) /\ y \in Seq(W)
    BY <1>2
  <2> QED BY <2>1, ConcatIs
<1> HIDE DEF v
<1>4. Len(v) = Len(w) /\ Len(w) = Len(a) + Len(b)
  BY <1>1, <1>2, <1>3
<1>5. ASSUME NEW i \in 1..Len(w) PROVE v[i] = w[i]
  <2>0. i \in 1..Len(c) /\ w[i] = Wrap(dot, c[i])
    BY <1>2
  <2>1. i \in 1..Len(a) \/ (i - Len(a) \in 1..Len(b) /\ Len(a) + (i - Len(a)) = i)
    <3>1. i \in 1..Len(a) + Len(b)
      BY <1>4
    <3> QED BY <1>1, <3>1, Side
  <2>2. CASE i \in 1..Len(a)
    <3>1. v[i] = x[i] /\ x[i] = Wrap(dot, a[i]) /\ c[i] = a[i]
      BY <1>1, <1>2, <1>3, <2>2
    <3> QED BY <2>0, <3>1
  <2>3. CASE i - Len(a) \in 1..Len(b) /\ Len(a) + (i - Len(a)) = i
    <3> DEFINE k == i - Len(a)
    <3>1. k \in 1..Len(b) /\ Len(a) + k = i /\ Len(x) = Len(a) /\ Len(y) = Len(b)
      BY <1>2, <2>3
    <3> HIDE DEF k
    <3>2. v[Len(x) + k] = y[k] /\ y[k] = Wrap(dot, b[k]) /\ c[Len(a) + k] = b[k]
      BY <1>1, <1>2, <1>3, <3>1
    <3> QED BY <2>0, <3>1, <3>2
  <2> QED BY <2>1, <2>2, <2>3
<1>6. w = v
  BY <1>2, <1>3, <1>4, <1>5, SeqEqual
<1> QED BY <1>6 DEF Joined, w, v, x, y, c

LEMMA DressBytes ==
  ASSUME NEW dot \in BOOLEAN, NEW d \in Seq(ByteUnits)
  PROVE  Dress(dot, d) = d
<1>1. d \in Seq(Units)
  BY ToUnits
<1>2. ASSUME NEW u \in ByteUnits PROVE Wrap(dot, u) = u
  <2>1. u.flag = "byte"
    BY DEF ByteUnits
  <2> QED BY <2>1 DEF Wrap, Dotted
<1>3. /\ Len(d) \in Nat /\ d = [i \in 1..Len(d) |-> d[i]]
      /\ \A i \in 1..Len(d) : d[i] \in ByteUnits
  BY LenProperties, ElementOfSeq
<1>4. \A i \in 1..Len(d) : Wrap(dot, d[i]) = d[i]
  BY <1>2, <1>3
<1> QED BY <1>3, <1>4 DEF Dress

LEMMA DressEntry ==
  ASSUME NEW dot \in BOOLEAN, NEW h \in Units, NEW d \in Seq(ByteUnits)
  PROVE  Joined(Dress(dot, <<h>> \o d), <<Wrap(dot, h)>>, d)
<1> DEFINE a == <<h>>
<1>1. a \in Seq(Units) /\ Len(a) = 1 /\ a[1] = h
  BY OneIs
<1>2. d \in Seq(Units)
  BY ToUnits
<1> HIDE DEF a
<1>3. Joined(Dress(dot, a \o d), Dress(dot, a), Dress(dot, d))
  BY <1>1, <1>2, DressConcat
<1>4. Dress(dot, d) = d
  BY DressBytes
<1>5. Dress(dot, a) = <<Wrap(dot, h)>>
  <2>1. Dress(dot, a) = [i \in 1..1 |-> Wrap(dot, a[i])]
    BY <1>1 DEF Dress
  <2>2. \A i \in 1..1 : Wrap(dot, a[i]) = Wrap(dot, h)
    BY <1>1
  <2> QED BY <2>1, <2>2
<1> QED BY <1>3, <1>4, <1>5 DEF Joined, a

LEMMA LeadIs ==
  ASSUME StreamInputs, NEW dot \in BOOLEAN
  PROVE  Lead(dot) \in Seq(Units) /\ Lead(dot) \in Seq(Wrapped(dot))
<1> DEFINE g == TopEntry
<1>1. g \in Units
  BY LiteralIs, HeaderIs
<1> HIDE DEF g
<1>2. g \in Wrapped(dot)
  BY <1>1 DEF Wrapped
<1>3. /\ <<g>> \in Seq(Units) /\ <<g>> \in Seq(Wrapped(dot))
      /\ <<>> \in Seq(Units) /\ <<>> \in Seq(Wrapped(dot))
  BY <1>1, <1>2, OneIs, EmptySeq
<1> QED BY <1>3 DEF Lead, g

LEMMA StreamMore ==
  ASSUME StreamInputs, NEW dot \in BOOLEAN, NEW a \in Seq(Units), NEW b \in Seq(Units)
  PROVE  Joined(Stream(dot, a \o b), Stream(dot, a), Dress(dot, b))
<1> DEFINE l == Lead(dot)
           x == Dress(dot, a)
           y == Dress(dot, b)
           W == Wrapped(dot)
<1>1. l \in Seq(W) /\ x \in Seq(W) /\ y \in Seq(W)
  BY LeadIs, DressIs
<1>2. Joined(Dress(dot, a \o b), x, y)
  BY DressConcat
<1> HIDE DEF l, x, y, W
<1>3. Joined((l \o x) \o y, l, x \o y)
  BY <1>1, JoinedApart
<1> QED BY <1>2, <1>3 DEF Joined, Stream, l, x, y

LEMMA StreamNothing ==
  ASSUME StreamInputs, NEW dot \in BOOLEAN
  PROVE  Stream(dot, <<>>) = Lead(dot)
<1>1. <<>> \in Seq(ByteUnits)
  BY EmptySeq
<1>2. Dress(dot, <<>>) = <<>>
  BY <1>1, DressBytes
<1>3. Lead(dot) \in Seq(Units)
  BY LeadIs
<1>4. Lead(dot) \o <<>> = Lead(dot)
  <2> DEFINE l == Lead(dot)
  <2> HIDE DEF l
  <2>1. l \in Seq(Units)
    BY <1>3 DEF l
  <2>2. l \o <<>> = l
    BY <2>1, ConcatEmptySeq
  <2> QED BY <2>2 DEF l
<1> QED BY <1>2, <1>4 DEF Stream

(* What write_dir_as_tar sends for one path, and what arrives of it. *)
Written(e, t, p, dot, h, d) ==
  /\ h \in Units /\ d \in Seq(ByteUnits) /\ Joined(e.out, <<h>>, d)
  /\ e.ok => Entry(t, p, Wrap(dot, h), d)
  /\ ~e.ok => /\ Wrap(dot, h) \in HeaderUnits /\ Wrap(dot, h).size \in Nat
              /\ Lacking(d, Wrap(dot, h).size)

LEMMA EntryWritten ==
  ASSUME TarConstants, StreamInputs, TreeInputs, NEW dot \in BOOLEAN,
         NEW t, IsTree(t), Fits(t), NEW p \in DOMAIN t
  PROVE  LET e == WriteEntry(p, t[p])
         IN  /\ e.ok \in BOOLEAN
             /\ (~e.ok /\ e.out = <<>>) \/ \E h, d : Written(e, t, p, dot, h, d)
<1> DEFINE e == WriteEntry(p, t[p])
<1>1. /\ e.ok \in BOOLEAN
      /\ \/ ~e.ok /\ e.out = <<>>
         \/ IsDir(t, p) /\ DirEntry(e, p)
         \/ IsFile(t, p) /\ FileEntry(e, p, t[p].size, t[p].data)
  BY WriteEntryIs DEF IsDir, IsFile
<1>2. Names(p) /\ p # <<>> /\ t[p].size \in Nat
  BY TreeIs
<1> HIDE DEF e
<1>3. ASSUME IsDir(t, p), DirEntry(e, p) PROVE \E h, d : Written(e, t, p, dot, h, d)
  <2> DEFINE q == Append(p, "")
  <2>1. e.ok /\ \E h : Titles(h, q, 0, "5") /\ e.out = <<h>>
    BY <1>3 DEF DirEntry
  <2>2. Spelled(q, p)
    BY DEF Spelled
  <2> HIDE DEF q
  <2>3. PICK h : Titles(h, q, 0, "5") /\ e.out = <<h>>
    BY <2>1
  <2>4. Arrives(Wrap(dot, h), p, 0, "5")
    BY <1>2, <2>2, <2>3, HeaderArrives
  <2>5. h \in Units
    BY <2>3, HeaderIs DEF Titles
  <2>6. <<>> \in Seq(ByteUnits)
    BY EmptySeq
  <2>7. Joined(e.out, <<h>>, <<>>)
    <3> DEFINE a == <<h>>
    <3>1. a \in Seq(Units)
      BY <2>5, OneIs
    <3> HIDE DEF a
    <3>2. a \o <<>> = a
      BY <3>1, ConcatEmptySeq
    <3> QED BY <2>3, <3>2 DEF Joined, a
  <2>8. Entry(t, p, Wrap(dot, h), <<>>)
    BY <1>3, <2>4 DEF Entry
  <2>9. Written(e, t, p, dot, h, <<>>)
    BY <2>1, <2>5, <2>6, <2>7, <2>8 DEF Written
  <2> QED BY <2>9
<1>4. ASSUME IsFile(t, p), FileEntry(e, p, t[p].size, t[p].data)
      PROVE  \E h, d : Written(e, t, p, dot, h, d)
  <2> DEFINE n == t[p].size
  <2>1. PICK h, d : /\ Titles(h, p, n, "0") /\ Joined(e.out, <<h>>, d)
                    /\ e.ok => Filled(d, n, t[p].data)
                    /\ ~e.ok => Lacking(d, n)
    BY <1>4 DEF FileEntry, Joined
  <2>2. Spelled(p, p)
    BY DEF Spelled
  <2> HIDE DEF n
  <2>3. Arrives(Wrap(dot, h), p, n, "0")
    BY <1>2, <2>1, <2>2, HeaderArrives
  <2>4. h \in Units
    BY <2>1, HeaderIs DEF Titles
  <2>5. d \in Seq(ByteUnits)
    BY <1>1, <2>1 DEF Filled, Lacking
  <2>6. e.ok => Entry(t, p, Wrap(dot, h), d)
    BY <1>4, <2>1, <2>3 DEF Entry, n
  <2>7. Wrap(dot, h) \in HeaderUnits /\ Wrap(dot, h).size = n /\ n \in Nat
    BY <1>2, <2>3 DEF Arrives, n
  <2>8. Written(e, t, p, dot, h, d)
    BY <2>1, <2>4, <2>5, <2>6, <2>7 DEF Written
  <2> QED BY <2>8
<1>5. (~e.ok /\ e.out = <<>>) \/ \E h, d : Written(e, t, p, dot, h, d)
  BY <1>1, <1>3, <1>4
<1> QED BY <1>1, <1>5 DEF e

Sent == [ok : BOOLEAN, out : Seq(Units)]
Sound(dot, t, X, v) ==
  Hopeless(Stream(dot, v.out)) /\ (v.ok => Reads(Stream(dot, v.out), t, X))

LEMMA ThenIs ==
  ASSUME NEW a, NEW b
  PROVE  /\ ~a.ok => Then(a, b) = a
         /\ a.ok => Then(a, b) = [ok |-> b.ok, out |-> a.out \o b.out]
BY DEF Then

LEMMA SentMore ==
  ASSUME TarConstants, StreamInputs, TreeInputs, NEW dot \in BOOLEAN,
         NEW t, IsTree(t), Fits(t), NEW p \in DOMAIN t, NEW X, X \subseteq DOMAIN t,
         NEW v \in Sent
  PROVE  LET w == Then(v, WriteEntry(p, t[p]))
         IN  w \in Sent /\ (Sound(dot, t, X, v) => Sound(dot, t, X \cup {p}, w))
<1> DEFINE e == WriteEntry(p, t[p])
           w == Then(v, e)
           z == Stream(dot, v.out)
<1>1. e.ok \in BOOLEAN /\ ((~e.ok /\ e.out = <<>>) \/ \E h, d : Written(e, t, p, dot, h, d))
  BY EntryWritten
<1>2. v.ok \in BOOLEAN /\ v.out \in Seq(Units)
  BY DEF Sent
<1>3. (~v.ok => w = v) /\ (v.ok => w = [ok |-> e.ok, out |-> v.out \o e.out])
  BY ThenIs
<1> HIDE DEF e, w
<1>4. CASE ~v.ok
  <2>1. w = v
    BY <1>3, <1>4
  <2> QED BY <1>4, <2>1 DEF Sound, w, e
<1>5. CASE v.ok /\ ~e.ok /\ e.out = <<>>
  <2> DEFINE a == v.out
  <2>1. w = [ok |-> e.ok, out |-> a \o e.out]
    BY <1>3, <1>5
  <2> HIDE DEF a
  <2>2. a \in Seq(Units)
    BY <1>2 DEF a
  <2>3. a \o <<>> = a
    BY <2>2, ConcatEmptySeq
  <2>4. w.ok = e.ok /\ w.out = a
    BY <1>5, <2>1, <2>3
  <2>5. w \in Sent
    BY <1>1, <2>1, <2>2, <2>4, <2>3, <1>5 DEF Sent
  <2> QED BY <1>5, <2>4, <2>5 DEF Sound, w, e, a
<1>6. CASE v.ok /\ \E h, d : Written(e, t, p, dot, h, d)
  <2>1. PICK h, d : Written(e, t, p, dot, h, d)
    BY <1>6
  <2> DEFINE g == Wrap(dot, h)
             y == <<g>> \o d
             a == v.out
             b == e.out
  <2>2. /\ h \in Units /\ d \in Seq(ByteUnits) /\ Joined(b, <<h>>, d)
        /\ e.ok => Entry(t, p, g, d)
        /\ ~e.ok => g \in HeaderUnits /\ g.size \in Nat /\ Lacking(d, g.size)
    BY <2>1 DEF Written
  <2>3. w = [ok |-> e.ok, out |-> a \o b]
    BY <1>3, <1>6
  <2>4. b \in Seq(Units)
    BY <2>2, ToUnits, HeadOfConcat DEF Joined
  <2>5. Joined(Dress(dot, b), <<g>>, d)
    BY <2>2, DressEntry DEF Joined
  <2>6. a \in Seq(Units)
    BY <1>2
  <2> HIDE DEF a, b, g
  <2>7. Joined(Stream(dot, a \o b), Stream(dot, a), Dress(dot, b))
    BY <2>4, <2>6, StreamMore
  <2>8. Stream(dot, a \o b) = z \o y
    BY <2>5, <2>7 DEF Joined, a
  <2>9. a \o b \in Seq(Units)
    BY <2>4, <2>6, LenConcat
  <2> HIDE DEF y, z
  <2>10. w \in Sent
    BY <1>1, <2>3, <2>9 DEF Sent
  <2>11. w.ok = e.ok /\ w.out = a \o b
    BY <2>3
  <2>12. ASSUME Sound(dot, t, X, v) PROVE Sound(dot, t, X \cup {p}, w)
    <3>1. Hopeless(z) /\ Reads(z, t, X)
      BY <1>6, <2>12 DEF Sound, z
    <3>2. ASSUME e.ok PROVE Reads(z \o y, t, X \cup {p}) /\ Hopeless(z \o y)
      BY <2>2, <3>1, <3>2, OneEntryMore DEF y
    <3>3. ASSUME ~e.ok PROVE Hopeless(z \o y)
      BY <2>2, <3>1, <3>3, BrokenOff DEF y
    <3> QED BY <1>1, <2>8, <2>11, <3>2, <3>3 DEF Sound
  <2> QED BY <2>10, <2>12 DEF w, e
<1> QED BY <1>1, <1>2, <1>4, <1>5, <1>6

(* The frames come to every path of a tree once. *)
Standing(t) == [left : SUBSET DOMAIN t, sent : Sent]
TurnedOnce(t, v) ==
  LET p == Foremost(v.left)
  IN  [left |-> v.left \ {p}, sent |-> Then(v.sent, WriteEntry(p, t[p]))]

LEMMA FiniteTree == ASSUME NEW t, IsTree(t) PROVE IsFiniteSet(DOMAIN t)
<1>1. IsFiniteSet(DOMAIN t)
  BY DEF IsTree
<1> QED BY <1>1 DEF IsFiniteSet, IsFiniteSet

LEMMA FramesTurn ==
  ASSUME TarConstants, StreamInputs, TreeInputs, NEW dot \in BOOLEAN,
         NEW t, IsTree(t), Fits(t), NEW v \in Standing(t), v.left # {}
  PROVE  LET w == TurnedOnce(t, v)
         IN  /\ w \in Standing(t) /\ Cardinality(v.left) \in Nat
             /\ Cardinality(w.left) = Cardinality(v.left) - 1
             /\ Sound(dot, t, DOMAIN t \ v.left, v.sent) => Sound(dot, t, DOMAIN t \ w.left, w.sent)
<1> DEFINE L == v.left
           p == Foremost(L)
           a == v.sent
           b == Then(a, WriteEntry(p, t[p]))
           w == TurnedOnce(t, v)
           X == DOMAIN t \ L
<1>1. L \in SUBSET DOMAIN t /\ L # {} /\ a \in Sent
  BY DEF Standing
<1>2. w = [left |-> L \ {p}, sent |-> b]
  BY DEF TurnedOnce
<1>3. IsFiniteSet(L) /\ Cardinality(L) \in Nat
  <2>1. IsFiniteSet(DOMAIN t)
    BY FiniteTree
  <2>2. IsFiniteSet(L)
    BY <1>1, <2>1, FS_Subset
  <2> QED BY <2>2, FS_CardinalityType
<1> HIDE DEF L, a, w
<1>4. p \in L
  <2>1. \A q \in L : q \in Seq(ToSet(NameOrder))
    BY <1>1, TreeIs
  <2> QED BY <1>1, <1>3, <2>1, ForemostIs
<1> HIDE DEF p
<1>5. p \in DOMAIN t /\ X \subseteq DOMAIN t /\ DOMAIN t \ (L \ {p}) = X \cup {p}
  BY <1>1, <1>4
<1> HIDE DEF X
<1>6. b \in Sent /\ (Sound(dot, t, X, a) => Sound(dot, t, X \cup {p}, b))
  BY <1>1, <1>5, SentMore
<1> HIDE DEF b
<1>7. w \in Standing(t)
  <2>1. L \ {p} \in SUBSET DOMAIN t
    BY <1>1
  <2> QED BY <1>2, <1>6, <2>1 DEF Standing
<1>8. w.left = L \ {p} /\ w.sent = b
  BY <1>2
<1>9. Cardinality(L \ {p}) = Cardinality(L) - 1
  BY <1>3, <1>4, FS_RemoveElement
<1> QED BY <1>3, <1>5, <1>6, <1>7, <1>8, <1>9 DEF L, a, X, w

LEMMA StepsUp == ASSUME NEW n \in Nat, NEW i \in 1..n
               PROVE  /\ i \in 0..n /\ i # 0 /\ i - 1 \in 0..n /\ n - (i - 1) # 0
                      /\ n - (i - 1) - 1 = n - i /\ n - i \in Nat /\ n - (i - 1) \in Nat
OBVIOUS

LEMMA FramesRec ==
  ASSUME TarConstants, StreamInputs, TreeInputs,
         NEW t, IsTree(t), Fits(t), NEW n, n = Cardinality(DOMAIN t)
  PROVE  LET k == Frames(t)
         IN  /\ n \in Nat
             /\ k[0] = [left |-> DOMAIN t, sent |-> [ok |-> TRUE, out |-> <<>>]]
             /\ \A i \in 1..n : k[i] = TurnedOnce(t, k[i - 1])
<1> DEFINE V == Standing(t)
           z == [left |-> DOMAIN t, sent |-> [ok |-> TRUE, out |-> <<>>]]
           After(v) == IF v.left = {} THEN v ELSE TurnedOnce(t, v)
           F == [x \in V \X (1..n) |-> After(x[1])]
           Is(g) == g = [i \in 0..n |-> IF i = 0 THEN z ELSE TurnedOnce(t, g[i - 1])]
           k == Frames(t)
<1>1. n \in Nat
  BY FiniteTree, FS_CardinalityType
<1>2. z \in V /\ Cardinality(z.left) = n
  <2>1. <<>> \in Seq(Units)
    BY EmptySeq
  <2> QED BY <2>1 DEF Standing, Sent
<1>3. ASSUME NEW v \in V, v.left # {}
      PROVE  /\ TurnedOnce(t, v) \in V /\ Cardinality(v.left) \in Nat
             /\ Cardinality(TurnedOnce(t, v).left) = Cardinality(v.left) - 1
  <2>1. TRUE \in BOOLEAN
    OBVIOUS
  <2> QED BY <1>3, <2>1, FramesTurn
<1>4. \E g : Is(g)
  <2> HIDE DEF V, z
  <2>1. \A v \in V, i \in 1..n : F[<<v, i>>] = After(v) /\ After(v) \in V
    BY <1>3
  <2>2. Stays(F, V, n)
    BY <2>1 DEF Stays
  <2> HIDE DEF F, After
  <2>3. PICK g : Runs(g, F, V, z, n)
    BY <1>1, <1>2, <2>2, LoopRuns
  <2> DEFINE T == {i \in 0..n : Cardinality(g[i].left) = n - i}
  <2>4. g \in [0..n -> V] /\ g[0] = z /\ \A i \in 1..n : i - 1 \in 0..n /\ g[i] = After(g[i - 1])
    <3>1. g \in [0..n -> V] /\ g[0] = z /\ \A i \in 1..n : g[i] = F[<<g[i - 1], i>>]
      BY <2>3 DEF Runs
    <3>2. \A i \in 1..n : i - 1 \in 0..n
      BY <1>1
    <3> QED BY <2>1, <3>1, <3>2
  <2>5. 0 \in T
    BY <1>1, <1>2, <2>4
  <2>6. ASSUME NEW i \in 1..n, i - 1 \in T
        PROVE  i \in T /\ g[i] = TurnedOnce(t, g[i - 1])
    <3> DEFINE v == g[i - 1]
    <3>1. v \in V /\ Cardinality(v.left) = n - (i - 1)
      BY <2>4, <2>6
    <3>2. g[i] = After(v)
      BY <2>4
    <3> HIDE DEF v
    <3>3. v.left # {}
      <4> SUFFICES ASSUME v.left = {} PROVE FALSE
        OBVIOUS
      <4>1. n - (i - 1) = 0
        BY <3>1, FS_EmptySet
      <4> QED BY <1>1, <4>1, StepsUp
    <3>4. g[i] = TurnedOnce(t, v)
      BY <3>2, <3>3 DEF After
    <3>5. Cardinality(g[i].left) = n - (i - 1) - 1
      BY <1>3, <3>1, <3>3, <3>4
    <3>6. i \in T
      BY <1>1, <3>5, StepsUp
    <3> QED BY <3>4, <3>6 DEF v
  <2>7. 0..n \subseteq T
    <3> HIDE DEF T
    <3> QED BY <1>1, <2>5, <2>6, Climb
  <2>8. \A i \in 1..n : g[i] = TurnedOnce(t, g[i - 1])
    <3> HIDE DEF T
    <3> QED BY <2>4, <2>6, <2>7
  <2>9. \A i \in 0..n : g[i] = IF i = 0 THEN z ELSE TurnedOnce(t, g[i - 1])
    <3>1. \A i \in 0..n : i = 0 \/ i \in 1..n
      BY <1>1
    <3> QED BY <2>4, <2>8, <3>1
  <2>10. Is(g)
    BY <2>4, <2>9
  <2> QED BY <2>10
<1>5. k = CHOOSE g : Is(g)
  <2>1. Cardinality(DOMAIN t) = n
    OBVIOUS
  <2> QED BY <2>1 DEF Frames, TurnedOnce
<1> HIDE DEF Is
<1>6. Is(k)
  BY <1>4, <1>5
<1>7. k[0] = z /\ \A i \in 1..n : k[i] = TurnedOnce(t, k[i - 1])
  <2>1. 0 \in 0..n /\ \A i \in 1..n : i \in 0..n /\ i # 0
    BY <1>1
  <2> HIDE DEF k, z
  <2> QED BY <1>6, <2>1 DEF Is
<1> QED BY <1>1, <1>7

LEMMA FramesSound ==
  ASSUME TarConstants, StreamInputs, TreeInputs, NEW dot \in BOOLEAN,
         NEW t, IsTree(t), Fits(t)
  PROVE  LET v == Frames(t)[Cardinality(DOMAIN t)].sent
         IN  v \in Sent /\ Sound(dot, t, DOMAIN t, v)
<1> DEFINE n == Cardinality(DOMAIN t)
           k == Frames(t)
           z == [left |-> DOMAIN t, sent |-> [ok |-> TRUE, out |-> <<>>]]
           Good(v) == /\ v \in Standing(t)
                      /\ Sound(dot, t, DOMAIN t \ v.left, v.sent)
           T == {i \in 0..n : Good(k[i]) /\ Cardinality(k[i].left) = n - i}
<1>1. n \in Nat /\ k[0] = z /\ \A i \in 1..n : k[i] = TurnedOnce(t, k[i - 1])
  BY FramesRec
<1>2. Good(z) /\ Cardinality(z.left) = n
  <2>1. z \in Standing(t)
    <3>1. <<>> \in Seq(Units)
      BY EmptySeq
    <3> QED BY <3>1 DEF Standing, Sent
  <2>2. z.left = DOMAIN t /\ z.sent.out = <<>> /\ z.sent.ok
    OBVIOUS
  <2> HIDE DEF z
  <2>3. DOMAIN t \ z.left = {}
    BY <2>2
  <2>4. Stream(dot, <<>>) = Lead(dot)
    BY StreamNothing
  <2>5. Hopeless(Lead(dot)) /\ Reads(Lead(dot), t, {})
    BY NothingYet, TopOnly, ReadsNothing, ReadsTop DEF Lead
  <2>6. Sound(dot, t, DOMAIN t \ z.left, z.sent)
    BY <2>2, <2>3, <2>4, <2>5 DEF Sound
  <2> QED BY <2>1, <2>2, <2>6
<1> HIDE DEF n, k, z
<1>3. 0 \in T
  <2>1. 0 \in 0..n /\ n - 0 = n
    BY <1>1
  <2> HIDE DEF Good
  <2> QED BY <1>1, <1>2, <2>1
<1>4. ASSUME NEW i \in 1..n, i - 1 \in T PROVE i \in T
  <2> DEFINE v == k[i - 1]
  <2>1. Good(v) /\ Cardinality(v.left) = n - (i - 1) /\ k[i] = TurnedOnce(t, v)
    BY <1>1, <1>4
  <2> HIDE DEF v
  <2>2. v.left # {}
    <3> SUFFICES ASSUME v.left = {} PROVE FALSE
      OBVIOUS
    <3>1. n - (i - 1) = 0
      BY <2>1, FS_EmptySet
    <3> QED BY <1>1, <3>1, StepsUp
  <2>3. Good(TurnedOnce(t, v)) /\ Cardinality(TurnedOnce(t, v).left) = Cardinality(v.left) - 1
    BY <2>1, <2>2, FramesTurn
  <2> HIDE DEF Good
  <2>4. Good(k[i]) /\ Cardinality(k[i].left) = n - (i - 1) - 1
    BY <2>1, <2>3
  <2> QED BY <1>1, <2>4, StepsUp
<1>5. 0..n \subseteq T
  <2> HIDE DEF T
  <2> QED BY <1>1, <1>3, <1>4, Climb
<1>6. Good(k[n]) /\ Cardinality(k[n].left) = 0
  <2>1. n \in T
    <3>1. n \in 0..n
      BY <1>1
    <3> HIDE DEF T
    <3> QED BY <1>5, <3>1
  <2>2. n - n = 0
    BY <1>1
  <2> HIDE DEF Good
  <2> QED BY <2>1, <2>2
<1> DEFINE v == k[n]
<1>7. v \in Standing(t) /\ Sound(dot, t, DOMAIN t \ v.left, v.sent) /\ Cardinality(v.left) = 0
  BY <1>6
<1> HIDE DEF v
<1>8. v.left \in SUBSET DOMAIN t /\ v.sent \in Sent
  BY <1>7 DEF Standing
<1>9. v.left = {}
  <2>1. IsFiniteSet(DOMAIN t)
    BY FiniteTree
  <2>2. IsFiniteSet(v.left)
    BY <1>8, <2>1, FS_Subset
  <2> QED BY <1>7, <2>2, FS_EmptySet
<1>10. DOMAIN t \ v.left = DOMAIN t
  BY <1>9
<1>11. v = Frames(t)[Cardinality(DOMAIN t)]
  BY DEF v, k, n
<1> QED BY <1>7, <1>8, <1>10, <1>11

(* A whole archive is taken, and nothing that is less than it. *)
LEMMA TrailerRead ==
  ASSUME TarConstants, NEW t, NEW X, NEW z, Reads(z, t, X), NEW m \in Nat, m <= 2 * Block
  PROVE  LET w == z \o Zeros(m)
         IN  /\ m < 2 * Block => Rejected(w)
             /\ m = 2 * Block => ExtractTarToDir(w).ok /\ ExtractTarToDir(w).fs = Made(t, X)
<1> DEFINE y == Zeros(m)
           w == z \o y
           r == Amid(y, Made(t, X))
           x == ExtractEntry(r)
<1>1. z \in Seq(Units) /\ y \in Seq(Units)
  BY ZerosIs, ToUnits DEF Reads
<1>2. r.rest = y /\ r.fs = Made(t, X)
  BY AmidIs
<1>3. (m < 2 * Block => Fails(x)) /\ (m = 2 * Block => x.done = "whole" /\ x.fs = r.fs)
  <2> HIDE DEF r
  <2> QED BY <1>2, ZerosEnd
<1> HIDE DEF y
<1>4. w \in Seq(Units) /\ Len(w) = Len(z) + Len(y) /\ Len(z) \in Nat /\ Len(y) \in Nat
  BY <1>1, LenConcat
<1>5. PICK j \in 0..Len(z) : Stands(w, j, y, Made(t, X))
  BY <1>1 DEF Reads
<1> HIDE DEF w
<1>6. j \in 0..Len(w)
  BY <1>4, OneMore
<1>7. /\ Fails(x) => Rejected(w)
      /\ Ended(x) => ExtractTarToDir(w).ok /\ ExtractTarToDir(w).fs = x.fs
  BY <1>4, <1>5, <1>6, Verdict
<1> HIDE DEF x, r
<1>8. m = 2 * Block => Ended(x) /\ x.fs = Made(t, X)
  BY <1>2, <1>3 DEF Ended
<1> QED BY <1>3, <1>7, <1>8 DEF w, y

LEMMA WholeArchive ==
  ASSUME TarConstants, NEW t, NEW X, NEW z, Reads(z, t, X), Hopeless(z), NEW w,
         Joined(w, z, Zeros(2 * Block))
  PROVE  /\ w \in Seq(Units)
         /\ ExtractTarToDir(w).ok /\ ExtractTarToDir(w).fs = Made(t, X)
         /\ \A n \in 0..Len(w) : n # Len(w) => Rejected(SubSeq(w, 1, n))
<1> DEFINE b == 2 * Block
           y == Zeros(b)
<1>1. Block \in Nat /\ b \in Nat /\ b <= 2 * Block
  <2>1. Block \in Nat
    BY BlockIs
  <2> QED BY <2>1
<1>2. b = 2 * Block
  OBVIOUS
<1>3. ExtractTarToDir(z \o y).ok /\ ExtractTarToDir(z \o y).fs = Made(t, X)
  <2> HIDE DEF b
  <2> QED BY <1>1, <1>2, TrailerRead
<1> HIDE DEF b
<1>4. z \in Seq(Units) /\ y \in Seq(Units) /\ Len(y) = b
  BY <1>1, ZerosIs, ToUnits DEF Reads
<1>5. w = z \o y
  BY DEF Joined, b
<1>6. w \in Seq(Units) /\ Len(w) = Len(z) + Len(y) /\ Len(z) \in Nat /\ Len(y) \in Nat
  BY <1>4, <1>5, LenConcat
<1>7. ASSUME NEW n \in 0..Len(w), n # Len(w) PROVE Rejected(SubSeq(w, 1, n))
  <2>1. CASE n \in 0..Len(z)
    <3>1. SubSeq(z \o y, 1, n) = SubSeq(z, 1, n)
      BY <1>4, <2>1, TakeConcat
    <3>2. Rejected(SubSeq(z, 1, n))
      BY <2>1 DEF Hopeless
    <3> QED BY <1>5, <3>1, <3>2
  <2>2. CASE n \notin 0..Len(z)
    <3> DEFINE m == n - Len(z)
    <3>1. n \in Len(z)..Len(z) + Len(y) /\ m \in 0..b - 1 /\ m \in 0..b
      <4>1. n \in 0..Len(z) + b /\ n # Len(z) + b /\ n \notin 0..Len(z)
        BY <1>4, <1>6, <1>7, <2>2
      <4>2. n \in Len(z)..Len(z) + b /\ n - Len(z) \in 0..b - 1 /\ n - Len(z) \in 0..b
        BY <1>1, <1>6, <4>1, Further
      <4> QED BY <1>4, <4>2
    <3>2. SubSeq(z \o y, 1, n) = z \o SubSeq(y, 1, m)
      BY <1>4, <3>1, TakeMore
    <3> HIDE DEF m
    <3>3. SubSeq(y, 1, m) = Zeros(m)
      BY <1>1, <3>1, ZerosCut
    <3>4. m \in Nat /\ m < 2 * Block /\ m <= 2 * Block
      BY <1>1, <3>1 DEF b
    <3>5. Rejected(z \o Zeros(m))
      BY <3>4, TrailerRead
    <3> QED BY <1>5, <3>2, <3>3, <3>5
  <2> QED BY <2>1, <2>2
<1> QED BY <1>3, <1>5, <1>6, <1>7

LEMMA MadeAll ==
  ASSUME TreeInputs, NEW t, IsTree(t)
  PROVE  Made(t, DOMAIN t) = Arrived(t)
<1>1. ASSUME NEW p \in DOMAIN t PROVE p \in Leading(p) /\ Leading(p) \subseteq DOMAIN t
  <2>1. Names(p) /\ p # <<>> /\ \A q \in Leading(p) : q \in DOMAIN t
    BY LeadingIs
  <2>2. Leading(p) = Leading(Front(p)) \cup {p}
    BY <2>1, LeadingParent
  <2> QED BY <2>1, <2>2
<1>2. Beneath(DOMAIN t) = DOMAIN t
  BY <1>1 DEF Beneath
<1> QED BY <1>2 DEF Made, Node, Arrived

LEMMA ArchiveIs ==
  ASSUME TarConstants, StreamInputs, TreeInputs, NEW dot \in BOOLEAN,
         NEW t, IsTree(t), Fits(t)
  PROVE  LET a == WriteDirAsTar(t)
             w == Stream(dot, a.out)
         IN  /\ a \in Sent /\ w \in Seq(Units)
             /\ a.ok => ExtractTarToDir(w).ok /\ ExtractTarToDir(w).fs = Arrived(t)
             /\ \A n \in 0..Len(w) : n # Len(w) \/ ~a.ok => Rejected(SubSeq(w, 1, n))
<1> DEFINE a == WriteDirAsTar(t)
           w == Stream(dot, a.out)
           v == Frames(t)[Cardinality(DOMAIN t)].sent
           y == Zeros(2 * Block)
           e == [ok |-> TRUE, out |-> y]
           z == Stream(dot, v.out)
<1>1. v \in Sent /\ Sound(dot, t, DOMAIN t, v)
  BY FramesSound
<1>2. a = Then(v, e)
  BY DEF WriteDirAsTar
<1>3. y \in Seq(ByteUnits) /\ y \in Seq(Units)
  <2>0. Block \in Nat
    BY BlockIs
  <2>1. 2 * Block \in Nat
    BY <2>0
  <2> QED BY <2>1, ZerosIs, ToUnits
<1>4. e.ok = TRUE /\ e.out = y
  OBVIOUS
<1>5. /\ ~v.ok => Then(v, e) = v
      /\ v.ok => Then(v, e) = [ok |-> e.ok, out |-> v.out \o e.out]
  BY ThenIs
<1> HIDE DEF a, v, y, e
<1>6. v.ok \in BOOLEAN /\ v.out \in Seq(Units)
  BY <1>1 DEF Sent
<1>7. Hopeless(z) /\ (v.ok => Reads(z, t, DOMAIN t))
  BY <1>1 DEF Sound
<1>8. CASE ~v.ok
  <2>1. a = v /\ a \in Sent /\ ~a.ok /\ w = z
    BY <1>1, <1>2, <1>5, <1>8
  <2> HIDE DEF w, z
  <2>2. w \in Seq(Units) /\ \A n \in 0..Len(w) : Rejected(SubSeq(w, 1, n))
    BY <1>7, <2>1 DEF Hopeless
  <2> QED BY <2>1, <2>2 DEF a, w
<1>9. CASE v.ok
  <2> DEFINE o == v.out
  <2>0. z = Stream(dot, o) /\ o \in Seq(Units)
    BY <1>6
  <2>1. a = [ok |-> TRUE, out |-> o \o y]
    BY <1>2, <1>4, <1>5, <1>9
  <2> HIDE DEF o, z
  <2>2. o \o y \in Seq(Units)
    BY <1>3, <2>0, LenConcat
  <2>3. a \in Sent /\ a.ok /\ a.out = o \o y
    BY <2>1, <2>2 DEF Sent
  <2>4. Joined(Stream(dot, o \o y), Stream(dot, o), Dress(dot, y))
    BY <1>3, <2>0, StreamMore
  <2>5. Dress(dot, y) = y
    BY <1>3, DressBytes
  <2>6. Joined(w, z, y)
    BY <2>0, <2>3, <2>4, <2>5
  <2> HIDE DEF w
  <2>7. /\ w \in Seq(Units)
        /\ ExtractTarToDir(w).ok /\ ExtractTarToDir(w).fs = Made(t, DOMAIN t)
        /\ \A n \in 0..Len(w) : n # Len(w) => Rejected(SubSeq(w, 1, n))
    BY <1>7, <1>9, <2>6, WholeArchive DEF y
  <2>8. Made(t, DOMAIN t) = Arrived(t)
    BY MadeAll
  <2> QED BY <2>3, <2>7, <2>8 DEF a, w
<1> QED BY <1>6, <1>8, <1>9

LEMMA StreamsAre ==
  ASSUME StreamInputs, NEW out \in Seq(Units)
  PROVE  /\ Stream(FALSE, out) = out
         /\ Stream(TRUE, out) =
              <<TopEntry>> \o [i \in DOMAIN out |-> Dotted(out[i])]
<1>1. Len(out) \in Nat /\ DOMAIN out = 1..Len(out) /\ out = [i \in 1..Len(out) |-> out[i]]
  BY LenProperties
<1>2. Dress(FALSE, out) = out
  BY <1>1 DEF Dress, Wrap
<1>3. <<>> \o out = out
  BY ConcatEmptySeq
<1>4. Stream(FALSE, out) = <<>> \o out
  BY <1>2 DEF Stream, Lead
<1>5. Dress(TRUE, out) = [i \in DOMAIN out |-> Dotted(out[i])]
  BY <1>1 DEF Dress, Wrap
<1>6. Stream(TRUE, out) = <<TopEntry>> \o [i \in DOMAIN out |-> Dotted(out[i])]
  BY <1>5 DEF Stream, Lead
<1> QED BY <1>3, <1>4, <1>6

(* What a run of the archive tasks has computed. *)
Carries(o, a) ==
  \E cut \in 0..Len(a.out) :
    o = [archive |-> a, cut |-> cut, got |-> ExtractTarToDir(SubSeq(a.out, 1, cut))]

TarInv ==
  /\ task = "send" =>
       input \in Trees /\ (output = NoOutput \/ Carries(output, WriteDirAsTar(input)))
  /\ task = "fetch" =>
       input \in Trees /\ (output = NoOutput \/ Carries(output, RemoteTar(input)))
  /\ task = "extract" =>
       input \in Foreign /\ (output = NoOutput \/ output = ExtractTarToDir(input))

LEMMA TarInvInit == AlgInit => TarInv
BY DEF AlgInit, TarInv

LEMMA TarInvNext == TarInv /\ [AlgNext]_algVars => TarInv'
<1> SUFFICES ASSUME TarInv, [AlgNext]_algVars PROVE TarInv'
  OBVIOUS
<1>1. CASE Send
  <2>1. task = "send" /\ task' = task /\ input' = input
    BY <1>1 DEF Send, Carry, Compute
  <2>2. Carries(output', WriteDirAsTar(input))
    BY <1>1 DEF Send, Carry, Compute, Carries
  <2> QED BY <2>1, <2>2 DEF TarInv
<1>2. CASE Fetch
  <2>1. task = "fetch" /\ task' = task /\ input' = input
    BY <1>2 DEF Fetch, Carry, Compute
  <2>2. Carries(output', RemoteTar(input))
    BY <1>2 DEF Fetch, Carry, Compute, Carries
  <2> QED BY <2>1, <2>2 DEF TarInv
<1>3. CASE Extract
  BY <1>3 DEF TarInv, Extract, Compute
<1>4. CASE UNCHANGED algVars
  BY <1>4 DEF TarInv, algVars
<1>5. ASSUME NEW t, t \notin {"send", "fetch", "extract"}, task = t, task' = task PROVE TarInv'
  BY <1>5 DEF TarInv
<1>6. CASE Parse
  <2>1. task = "parse" /\ task' = task
    BY <1>6 DEF Parse, Compute
  <2> QED BY <1>5, <2>1
<1>7. CASE Update
  <2>1. task = "update" /\ task' = task
    BY <1>7 DEF Update, Compute
  <2> QED BY <1>5, <2>1
<1>8. CASE Normalize
  <2>1. task = "reserve" /\ task' = task
    BY <1>8 DEF Normalize, Compute
  <2> QED BY <1>5, <2>1
<1>9. CASE Join
  <2>1. task = "join" /\ task' = task
    BY <1>9 DEF Join, Compute
  <2> QED BY <1>5, <2>1
<1>10. CASE LogTail
  <2>1. task = "tail" /\ task' = task
    BY <1>10 DEF LogTail, Compute
  <2> QED BY <1>5, <2>1
<1> QED BY <1>1, <1>2, <1>3, <1>4, <1>6, <1>7, <1>8, <1>9, <1>10 DEF AlgNext

LEMMA CarriedIs ==
  ASSUME TarConstants, StreamInputs, TreeInputs, NEW t \in Trees, Fits(t),
         NEW dot \in BOOLEAN, NEW a, NEW o, Carries(o, a),
         a.ok = WriteDirAsTar(t).ok, a.out = Stream(dot, WriteDirAsTar(t).out)
  PROVE  /\ o.archive = a
         /\ a.ok /\ o.cut = Len(a.out) => o.got.ok /\ o.got.fs = Arrived(t)
         /\ o.cut < Len(a.out) \/ ~a.ok => ~o.got.ok
<1> DEFINE w == a.out
<1>1. PICK n \in 0..Len(w) :
        o = [archive |-> a, cut |-> n, got |-> ExtractTarToDir(SubSeq(w, 1, n))]
  BY DEF Carries
<1>2. IsTree(t)
  BY DEF TreeInputs
<1>3. /\ w \in Seq(Units)
      /\ a.ok => ExtractTarToDir(w).ok /\ ExtractTarToDir(w).fs = Arrived(t)
      /\ \A m \in 0..Len(w) : m # Len(w) \/ ~a.ok => Rejected(SubSeq(w, 1, m))
  <2>1. w = Stream(dot, WriteDirAsTar(t).out)
    OBVIOUS
  <2> HIDE DEF w
  <2> QED BY <1>2, <2>1, ArchiveIs
<1> HIDE DEF w
<1>4. o.archive = a /\ o.cut = n /\ o.got = ExtractTarToDir(SubSeq(w, 1, n))
  BY <1>1
<1>5. ASSUME a.ok, o.cut = Len(w) PROVE o.got.ok /\ o.got.fs = Arrived(t)
  <2>1. SubSeq(w, 1, n) = w
    BY <1>3, <1>4, <1>5, SubSeqFull
  <2>2. o.got = ExtractTarToDir(w)
    BY <1>4, <2>1
  <2> QED BY <1>3, <1>5, <2>2
<1>6. ASSUME o.cut < Len(w) \/ ~a.ok PROVE ~o.got.ok
  <2>1. Len(w) \in Nat
    BY <1>3, LenProperties
  <2>2. n # Len(w) \/ ~a.ok
    <3>1. n < Len(w) => n # Len(w)
      BY <2>1
    <3> QED BY <1>4, <1>6, <3>1
  <2>3. Rejected(SubSeq(w, 1, n))
    BY <1>3, <2>2
  <2> QED BY <1>4, <2>3 DEF Rejected
<1> QED BY <1>4, <1>5, <1>6 DEF w

LEMMA SendIs ==
  ASSUME TarConstants, StreamInputs, TreeInputs, NEW t \in Trees, Fits(t),
         NEW o, Carries(o, WriteDirAsTar(t)) \/ Carries(o, RemoteTar(t))
  PROVE  /\ o.archive.ok /\ o.cut = Len(o.archive.out) =>
              o.got.ok /\ o.got.fs = Arrived(t)
         /\ o.cut < Len(o.archive.out) \/ ~o.archive.ok => ~o.got.ok
<1> DEFINE a == WriteDirAsTar(t)
           b == RemoteTar(t)
<1>1. IsTree(t)
  BY DEF TreeInputs
<1>2. a \in Sent
  <2>1. TRUE \in BOOLEAN
    OBVIOUS
  <2> QED BY <1>1, <2>1, ArchiveIs
<1>3. a.out \in Seq(Units)
  BY <1>2 DEF Sent
<1>4. b.ok = a.ok /\ b.out = <<TopEntry>> \o [i \in DOMAIN a.out |-> Dotted(a.out[i])]
  BY DEF RemoteTar
<1> HIDE DEF a, b
<1>5. Stream(FALSE, a.out) = a.out /\ Stream(TRUE, a.out) = b.out
  BY <1>3, <1>4, StreamsAre
<1>6. FALSE \in BOOLEAN /\ TRUE \in BOOLEAN
  OBVIOUS
<1>7. ASSUME Carries(o, a)
      PROVE  /\ o.archive = a
             /\ a.ok /\ o.cut = Len(a.out) => o.got.ok /\ o.got.fs = Arrived(t)
             /\ o.cut < Len(a.out) \/ ~a.ok => ~o.got.ok
  <2>1. a.ok = WriteDirAsTar(t).ok /\ a.out = Stream(FALSE, WriteDirAsTar(t).out)
    BY <1>5 DEF a
  <2> QED BY <1>6, <1>7, <2>1, CarriedIs
<1>8. ASSUME Carries(o, b)
      PROVE  /\ o.archive = b
             /\ b.ok /\ o.cut = Len(b.out) => o.got.ok /\ o.got.fs = Arrived(t)
             /\ o.cut < Len(b.out) \/ ~b.ok => ~o.got.ok
  <2>1. b.ok = WriteDirAsTar(t).ok /\ b.out = Stream(TRUE, WriteDirAsTar(t).out)
    BY <1>4, <1>5 DEF a
  <2> QED BY <1>6, <1>8, <2>1, CarriedIs
<1>9. CASE Carries(o, a)
  BY <1>7, <1>9
<1>10. CASE Carries(o, b)
  BY <1>8, <1>10
<1> QED BY <1>9, <1>10 DEF a, b

LEMMA NamesAre ==
  ASSUME NEW p, Names(p)
  PROVE  ToSet(p) \cap NotNames = {}
<1>1. p \in Seq(STRING)
  BY DEF Names
<1>2. ASSUME NEW x \in ToSet(p) PROVE Plain(x)
  BY <1>1, <1>2, HasIs DEF Names
<1> QED BY <1>2 DEF Plain, NotNames

LEMMA TarInvExact ==
  ASSUME TarConstants, StreamInputs, TreeInputs, TarInv
  PROVE  TarExact
<1>1. ASSUME Computed("send") \/ Computed("fetch"), Fits(input)
      PROVE  /\ output.archive.ok /\ output.cut = Len(output.archive.out) =>
                  output.got.ok /\ output.got.fs = Arrived(input)
             /\ output.cut < Len(output.archive.out) \/ ~output.archive.ok => ~output.got.ok
  <2>1. /\ input \in Trees
        /\ Carries(output, WriteDirAsTar(input)) \/ Carries(output, RemoteTar(input))
    BY <1>1 DEF Computed, TarInv
  <2> QED BY <1>1, <2>1, SendIs
<1>2. TarRoundTrip
  BY <1>1 DEF TarRoundTrip, Carried
<1>3. CutIsRefused
  BY <1>1 DEF CutIsRefused
<1>4. ExtractStaysBelow
  <2> SUFFICES ASSUME Computed("extract") PROVE ExtractStaysBelow
    BY DEF ExtractStaysBelow
  <2>1. input \in Foreign /\ output = ExtractTarToDir(input)
    BY DEF Computed, TarInv
  <2>2. input \in Seq(Units)
    BY <2>1 DEF StreamInputs
  <2> DEFINE f == output.fs
  <2>3. f \in FileSystems
    BY <2>1, <2>2, ExtractBelow
  <2> HIDE DEF f
  <2>4. Under(f)
    BY <2>3, FileSystemsIs
  <2>5. \A p \in DOMAIN f : p # <<>> /\ ToSet(p) \cap NotNames = {} /\ Inside(p, f)
    BY <2>4, NamesAre DEF Under
  <2> QED BY <2>5 DEF ExtractStaysBelow, Inside, f
<1> QED BY <1>2, <1>3, <1>4 DEF TarExact

(* The writer and the reader of archives, for every tree of the assumed     *)
(* form and every stream of units: a tree arrives as it was, from           *)
(* write_dir_as_tar as from a remote tar started on "."; a download that    *)
(* was cut, at whatever unit, or given up by its sender is never taken for  *)
(* a whole archive; and extract_tar_to_dir makes nothing but plain names    *)
(* inside directories below its root.                                       *)
THEOREM TarAlwaysExact == AlgSpec => []TarExact
<1>1. TarInv => TarExact
  BY TarConstants, StreamInputs, TreeInputs, TarInvExact
<1> QED BY <1>1, TarInvInit, TarInvNext, PTL DEF AlgSpec

=============================================================================
