----------------------------- MODULE TransferJob ----------------------------
(***************************************************************************)
(* Transfers of the server: the registry of background jobs                *)
(* (background/transfer.rs), their tasks and the guard that makes each of  *)
(* them end in a terminal state (server.rs), the reservation of the        *)
(* destination and the deadline, cancellation and teardown grace around    *)
(* the work (transfer/mod.rs), check_process on a transfer, and the        *)
(* shutdown that drains the tasks before the SSH session is closed.        *)
(*                                                                         *)
(* The work itself is three places: "preparing" (remote HOME and kind),    *)
(* "staging" (the cancellable copy into a stage) and "finalizing" (the     *)
(* commit, which observes no token).  How a stage becomes the destination  *)
(* is one step here, Install.  No su shell is assumed to be in its slot    *)
(* when the commit runs.                                                   *)
(***************************************************************************)
EXTENDS FiniteSets

CONSTANTS
    Background,     \* transfers started with background=true
    Foreground,     \* transfers whose caller waits for the response
    Puts,           \* uploads; the others are downloads
    Directories,    \* transfers of directories
    Streamed,       \* transport exec-raw; the others run a local client
    DestOf,         \* the normalised destination of each transfer
    Checks,         \* check_process calls with wait_for > 0
    JobOf           \* the job each of them asks for

Transfers == Background \cup Foreground

(* An exec-raw put: one remote script copies and commits. *)
OneScript == Streamed \cap Puts

ASSUME TransferAssumption ==
    /\ Background \cap Foreground = {}
    /\ Puts \subseteq Transfers
    /\ Streamed \subseteq Transfers
    /\ Directories \subseteq Transfers
    /\ DOMAIN DestOf = Transfers
    /\ JobOf \in [Checks -> Background]

VARIABLES
    pc,             \* where the handler or the task of a transfer is
    stop,           \* why run_controlled left its first select
    phase,          \* TransferJobState.phase
    ended,          \* completed_at is set
    expired,        \* completed_at is older than completed_retention
    whole,          \* the stage has all of the source
    installed,      \* the destination has been replaced by this transfer
    orphans,        \* remote commits whose local side is gone
    registry,       \* TransferJobRegistry.jobs
    active,         \* active_destinations
    tasks,          \* transfer_tasks
    drained,        \* the handles shutdown() took out of it
    server,         \* progress of shutdown
    check,          \* where each check is
    answer          \* the snapshot it holds or returned

jobVars == <<phase, ended, expired>>
checkVars == <<check, answer>>
serverVars == <<tasks, drained, server>>
remoteVars == <<whole, installed, orphans>>
vars == <<pc, stop, jobVars, remoteVars, registry, active, serverVars, checkVars>>

WorkPcs == {"preparing", "staging", "finalizing"}

(* Places inside run_inner with a DestinationGuard alive. *)
HoldPcs == {"staging", "finalizing"}

Phases == {"none", "queued", "preparing", "transferring", "finalizing",
           "completed", "failed"}

TypeOK ==
    /\ pc \in [Transfers -> {"new", "registered", "spawned", "done"} \cup WorkPcs]
    /\ stop \in [Transfers -> {"no", "cancelled", "timed_out"}]
    /\ phase \in [Transfers -> Phases]
    /\ ended \subseteq Background
    /\ expired \subseteq ended
    /\ whole \subseteq Transfers
    /\ installed \subseteq Transfers
    /\ orphans \subseteq Transfers \ installed
    /\ registry \subseteq Background
    /\ active \subseteq {DestOf[t] : t \in Transfers}
    /\ tasks \subseteq Background
    /\ drained \subseteq Background
    /\ server \in {"serving", "stopping", "cancelled", "draining", "closed"}
    /\ check \in [Checks -> {"idle", "waiting", "answered"}]
    /\ answer \in [Checks -> {"none", "missing", "running", "ended"}]

Init ==
    /\ pc = [t \in Transfers |-> "new"]
    /\ stop = [t \in Transfers |-> "no"]
    /\ phase = [t \in Transfers |-> "none"]
    /\ ended = {}
    /\ expired = {}
    /\ whole = {}
    /\ installed = {}
    /\ orphans = {}
    /\ registry = {}
    /\ active = {}
    /\ tasks = {}
    /\ drained = {}
    /\ server = "serving"
    /\ check = [c \in Checks |-> "idle"]
    /\ answer = [c \in Checks |-> "none"]

-----------------------------------------------------------------------------

Goto(t, label) == pc' = [pc EXCEPT ![t] = label]

Online == server # "closed"

(* apply_event: progress after the terminal result is ignored. *)
ApplyEvent(t, p) ==
    phase' = IF t \in ended THEN phase ELSE [phase EXCEPT ![t] = p]

(* TransferJobState::finish, and the response of a foreground call. *)
FinishWith(t, ok) ==
    /\ phase' = [phase EXCEPT ![t] = IF ok THEN "completed" ELSE "failed"]
    /\ ended' = ended \cup ({t} \cap Background)

(* Mutant: results are forgotten as soon as they are there. *)
UnexpiredRunning == registry \ ended

(* prune_expired: what is kept. *)
Unexpired == registry \ expired

-----------------------------------------------------------------------------
(* Starting a transfer                                                      *)

(* execute_background_transfer up to the await of the task list's lock. *)
Register(t) ==
    /\ t \in Background
    /\ pc[t] = "new"
    /\ server = "serving"
    /\ registry' = Unexpired \cup {t}
    /\ phase' = [phase EXCEPT ![t] = "queued"]
    /\ Goto(t, "registered")
    /\ UNCHANGED <<stop, ended, expired, remoteVars, active, serverVars, checkVars>>

SpawnKeeping(t, kept) ==
    /\ pc[t] = "registered"
    /\ tasks' = kept \cup {t}
    /\ Goto(t, "spawned")
    /\ UNCHANGED <<stop, jobVars, remoteVars, registry, active, drained, server, checkVars>>

(* Mutant: the task is spawned and its handle is dropped. *)
SpawnDetached(t) ==
    /\ pc[t] = "registered"
    /\ Goto(t, "spawned")
    /\ UNCHANGED <<stop, jobVars, remoteVars, registry, active, serverVars, checkVars>>

(* Under the lock: drop finished handles, spawn the task, keep its handle;  *)
(* the client is told the job_id.                                          *)
Spawn(t) == SpawnKeeping(t, {u \in tasks : pc[u] # "done"})

(* The task after its yield: TransferTerminalGuard exists, work begins.     *)
StartTask(t) ==
    /\ pc[t] = "spawned"
    /\ Goto(t, "preparing")
    /\ ApplyEvent(t, "preparing")
    /\ UNCHANGED <<stop, ended, expired, remoteVars, registry, active, serverVars, checkVars>>

(* execute_transfer: no registry, no guard, the request's own token. *)
StartForeground(t) ==
    /\ t \in Foreground
    /\ pc[t] = "new"
    /\ server = "serving"
    /\ Goto(t, "preparing")
    /\ UNCHANGED <<stop, jobVars, remoteVars, registry, active, serverVars, checkVars>>

-----------------------------------------------------------------------------
(* run_inner                                                                *)

(* reserve_destination: refused while another transfer holds it. *)
Reserve(t) ==
    /\ pc[t] = "preparing"
    /\ Online
    /\ IF DestOf[t] \in active
         THEN /\ Goto(t, "done")
              /\ FinishWith(t, FALSE)
              /\ UNCHANGED active
         ELSE /\ Goto(t, "staging")
              /\ ApplyEvent(t, "transferring")
              /\ active' = active \cup {DestOf[t]}
              /\ UNCHANGED ended
    /\ UNCHANGED <<stop, expired, remoteVars, registry, serverVars, checkVars>>

(* Everything has arrived in the stage and the copy's success is seen. *)
CopyDone(t) ==
    /\ pc[t] = "staging"
    /\ Online
    /\ whole' = whole \cup {t}
    /\ IF t \in OneScript
         THEN t \notin whole /\ UNCHANGED <<pc, phase>>
         ELSE Goto(t, "finalizing") /\ ApplyEvent(t, "finalizing")
    /\ UNCHANGED <<stop, ended, expired, installed, orphans, registry, active,
                   serverVars, checkVars>>

(* Where the commit happens, seen from the local side. *)
CommitPc(t) == IF t \in OneScript THEN "staging" ELSE "finalizing"

(* The commit can come: the script that puts a file compares sizes first,   *)
(* the one that puts a directory takes what its tar accepted.               *)
Commits(t) ==
    /\ pc[t] = CommitPc(t)
    /\ t \in OneScript \ Directories => t \in whole
    /\ t \notin installed

(* The stage becomes the destination: rename, link or directory swap. *)
Install(t) ==
    /\ Commits(t)
    /\ installed' = installed \cup {t}
    /\ UNCHANGED <<pc, stop, jobVars, whole, orphans, registry, active, serverVars, checkVars>>

(* The transfers whose remote commit needs nothing from here any more. *)
CommittingRemotely == {t \in Puts : Commits(t)}

(* run_inner returns, DestinationGuard is dropped, run_controlled turns the *)
(* outcome into an error if it had stopped waiting, the guard is disarmed.  *)
(* A remote commit whose connection was lost may still go on.               *)
WorkEnds(t, ok) ==
    /\ Goto(t, "done")
    /\ active' = (IF pc[t] \in HoldPcs THEN active \ {DestOf[t]} ELSE active)
    /\ FinishWith(t, ok /\ stop[t] = "no")
    /\ \E left \in SUBSET ({t} \cap CommittingRemotely) : orphans' = orphans \cup left
    /\ UNCHANGED <<stop, expired, whole, installed, registry, serverVars, checkVars>>

SucceedIf(t, confirmed) ==
    /\ pc[t] = CommitPc(t)
    /\ confirmed
    /\ WorkEnds(t, TRUE)

(* Mutant: the exit status of the commit is not looked at. *)
SucceedUnconfirmed(t) == SucceedIf(t, Online)

(* The commit's success is seen here. *)
WorkSucceeds(t) == SucceedIf(t, t \in installed)

(* The channel of an exec-raw copy ends without an exit status; unless      *)
(* stderr has more than stage markers, ensure_remote_success accepts that.  *)
StreamLost(t) ==
    /\ pc[t] = "staging"
    /\ t \in Streamed
    /\ \/ /\ t \in Puts
          /\ WorkEnds(t, TRUE)
       \/ /\ t \notin Puts
          /\ Goto(t, "finalizing")
          /\ ApplyEvent(t, "finalizing")
          /\ UNCHANGED <<stop, ended, expired, remoteVars, registry, active,
                         serverVars, checkVars>>

(* Any error before the commit, cancellation seen by the copy included; or  *)
(* the answer to a commit is lost with the connection, before or after it.  *)
WorkFails(t) ==
    /\ pc[t] \in WorkPcs
    /\ WorkEnds(t, FALSE)

-----------------------------------------------------------------------------
(* run_controlled                                                           *)

(* The token of the request, or the server's transfer_shutdown. *)
CancellationRequested(t) ==
    t \in Foreground \/ server \in {"cancelled", "draining", "closed"}

(* The select leaves the work: from here on its outcome is discarded. *)
StopWaiting(t, reason) ==
    /\ pc[t] \in WorkPcs
    /\ stop[t] = "no"
    /\ reason = "cancelled" => CancellationRequested(t)
    /\ stop' = [stop EXCEPT ![t] = reason]
    /\ UNCHANGED <<pc, jobVars, remoteVars, registry, active, serverVars, checkVars>>

DropWorkReleasing(t, held) ==
    /\ Goto(t, "done")
    /\ active' = (IF held THEN active \ {DestOf[t]} ELSE active)
    /\ FinishWith(t, FALSE)
    /\ orphans' = orphans \cup ({t} \cap CommittingRemotely)
    /\ UNCHANGED <<stop, expired, whole, installed, registry, serverVars, checkVars>>

(* Mutant: the reservation is removed by hand at the end of run_inner only. *)
DropWorkReserved(t) == DropWorkReleasing(t, FALSE)

(* The future of the work is dropped where it is; a remote command it sent  *)
(* goes on without it.                                                     *)
DropWork(t) == DropWorkReleasing(t, pc[t] \in HoldPcs)

GraceElapsesIf(t, condition) ==
    /\ pc[t] \in WorkPcs
    /\ stop[t] # "no"
    /\ condition
    /\ DropWork(t)

(* Mutant: the commit is awaited however long it takes. *)
GraceSparesCommit(t) == GraceElapsesIf(t, pc[t] # "finalizing")

(* TEARDOWN_GRACE is over. *)
GraceElapses(t) == GraceElapsesIf(t, TRUE)

(* The remote side commits for a transfer that is over here. *)
OrphanInstalls(t) ==
    /\ t \in orphans
    /\ orphans' = orphans \ {t}
    /\ installed' = installed \cup {t}
    /\ UNCHANGED <<pc, stop, jobVars, whole, registry, active, serverVars, checkVars>>

(* ... or notices that nobody listens any more. *)
OrphanDies(t) ==
    /\ t \in orphans
    /\ orphans' = orphans \ {t}
    /\ UNCHANGED <<pc, stop, jobVars, whole, installed, registry, active, serverVars, checkVars>>

-----------------------------------------------------------------------------
(* check_process on a transfer                                              *)

Age(t, since) ==
    /\ t \in since \ expired
    /\ expired' = expired \cup {t}
    /\ UNCHANGED <<pc, stop, phase, ended, remoteVars, registry, active, serverVars, checkVars>>

(* completed_retention, one hour, is over since completion. *)
RetentionEnds(t) == Age(t, ended)

(* TransferJobRegistry::snapshot of a job that is still registered. *)
Snapshot(t) == IF t \in ended THEN "ended" ELSE "running"

(* The first snapshot; only a running job is waited for. *)
CheckLooks(c) ==
    /\ check[c] = "idle"
    /\ pc[JobOf[c]] \notin {"new", "registered"}
    /\ registry' = Unexpired
    /\ LET seen == IF JobOf[c] \in Unexpired THEN Snapshot(JobOf[c]) ELSE "missing"
       IN /\ answer' = [answer EXCEPT ![c] = seen]
          /\ check' = [check EXCEPT ![c] = IF seen = "running" THEN "waiting" ELSE "answered"]
    /\ UNCHANGED <<pc, stop, jobVars, remoteVars, active, serverVars>>

(* wait_for is over: a second snapshot, if there is one. *)
CheckWaited(c) ==
    /\ check[c] = "waiting"
    /\ registry' = Unexpired
    /\ answer' = IF JobOf[c] \in Unexpired
                   THEN [answer EXCEPT ![c] = Snapshot(JobOf[c])] ELSE answer
    /\ check' = [check EXCEPT ![c] = "answered"]
    /\ UNCHANGED <<pc, stop, jobVars, remoteVars, active, serverVars>>

(* The request is cancelled: the first snapshot is the answer. *)
CheckCancelled(c) ==
    /\ check[c] = "waiting"
    /\ check' = [check EXCEPT ![c] = "answered"]
    /\ UNCHANGED <<pc, stop, jobVars, remoteVars, registry, active, serverVars, answer>>

-----------------------------------------------------------------------------
(* main.rs and SshMcpServer::shutdown                                       *)

(* The service ends on a signal or EOF; handlers in flight may still run. *)
ServiceEnds ==
    /\ server = "serving"
    /\ server' = "stopping"
    /\ UNCHANGED <<pc, stop, jobVars, remoteVars, registry, active, tasks, drained, checkVars>>

(* shutdown(): the token first ... *)
CancelTransfers ==
    /\ server = "stopping"
    /\ server' = "cancelled"
    /\ UNCHANGED <<pc, stop, jobVars, remoteVars, registry, active, tasks, drained, checkVars>>

(* ... then the handles, under the lock handlers push them with. *)
TakeTasks ==
    /\ server = "cancelled"
    /\ server' = "draining"
    /\ drained' = tasks
    /\ tasks' = {}
    /\ UNCHANGED <<pc, stop, jobVars, remoteVars, registry, active, checkVars>>

(* The deadline of ten seconds is over for this task: it is aborted and     *)
(* joined.  One that never ran has no guard yet.                           *)
AbortTask(t) ==
    /\ server = "draining"
    /\ t \in drained
    /\ \/ pc[t] \in WorkPcs /\ DropWork(t)
       \/ /\ pc[t] = "spawned"
          /\ Goto(t, "done")
          /\ UNCHANGED <<stop, jobVars, remoteVars, registry, active, serverVars, checkVars>>

(* All handles are joined: connection.close(). *)
CloseConnection ==
    /\ server = "draining"
    /\ \A t \in drained : pc[t] = "done"
    /\ server' = "closed"
    /\ UNCHANGED <<pc, stop, jobVars, remoteVars, registry, active, tasks, drained, checkVars>>

(* main returns and takes everything with it. *)
Exit == server = "closed" /\ UNCHANGED vars

-----------------------------------------------------------------------------

Working(t) ==
    \/ Reserve(t) \/ CopyDone(t) \/ StreamLost(t) \/ Install(t)
    \/ WorkSucceeds(t) \/ WorkFails(t)

Next ==
    \/ \E t \in Transfers :
          \/ Register(t) \/ Spawn(t) \/ StartTask(t) \/ StartForeground(t)
          \/ Working(t)
          \/ \E reason \in {"cancelled", "timed_out"} : StopWaiting(t, reason)
          \/ GraceElapses(t) \/ OrphanInstalls(t) \/ OrphanDies(t)
          \/ RetentionEnds(t) \/ AbortTask(t)
    \/ \E c \in Checks : CheckLooks(c) \/ CheckWaited(c) \/ CheckCancelled(c)
    \/ ServiceEnds \/ CancelTransfers \/ TakeTasks \/ CloseConnection
    \/ Exit

Spec == Init /\ [][Next]_vars

(***************************************************************************)
(* Only local timers and the scheduler are relied on: a handler gets the   *)
(* list's lock, a spawned task is polled, the transfer's deadline and the  *)
(* teardown grace fire.  The remote side owes nothing.                     *)
(***************************************************************************)
Fairness ==
    /\ \A t \in Background : WF_vars(Spawn(t)) /\ WF_vars(StartTask(t))
    /\ \A t \in Transfers : WF_vars(StopWaiting(t, "timed_out")) /\ WF_vars(GraceElapses(t))
    /\ WF_vars(CancelTransfers \/ TakeTasks \/ CloseConnection)

FairSpec == Spec /\ Fairness

-----------------------------------------------------------------------------
(* Properties                                                               *)

(* active_destinations holds exactly the destinations being written, each   *)
(* by one transfer, however a transfer ends: refused, failed, cancelled,    *)
(* dropped after the grace or aborted.                                      *)
OneWriter ==
    /\ active = {DestOf[t] : t \in {u \in Transfers : pc[u] \in HoldPcs}}
    /\ \A t, u \in Transfers :
          pc[t] \in HoldPcs /\ pc[u] \in HoldPcs /\ DestOf[t] = DestOf[u] => t = u

(* A transfer through rsync, sftp or scp that is reported as completed has  *)
(* replaced its destination, by all of its source, even if it was stopped,  *)
(* lost its connection or met another transfer on the way.                  *)
CompletedMeansInstalled ==
    \A t \in Transfers \ Streamed :
        phase[t] = "completed" => t \in installed \cap whole

(* What the client concludes from the response or from the job's phase. *)
Concluded(t) ==
    CASE phase[t] = "completed" -> "done"
      [] phase[t] = "failed" -> "unknown"
      [] OTHER -> "none"

Transfer == INSTANCE AtMostOnce WITH
    Calls <- Transfers \ Streamed,
    happened <- (installed \cap whole) \ Streamed,
    verdict <- [t \in Transfers \ Streamed |-> Concluded(t)]

(* A transfer through rsync, sftp or scp implements AtMostOnce: it replaces *)
(* its destination once, by all of its source, is reported as completed     *)
(* only after that, and no event, drop, abort or orphaned commit changes    *)
(* its result.                                                              *)
ImplementsAtMostOnce == Transfer!Spec

(* Goal document: "no partial ExecRaw file publish". *)
NoPartialPublish == installed \subseteq whole

(* A job_id the client was told can be polled until its result has been     *)
(* kept for the whole retention time, whatever other calls prune: until     *)
(* then no check answers "job not found".                                   *)
ToldJobsPollable ==
    /\ \A t \in Background :
          pc[t] \notin {"new", "registered"} /\ t \notin expired => t \in registry
    /\ \A c \in Checks : answer[c] = "missing" => JobOf[c] \in expired

(* When the SSH session is closed no background transfer is at work, except *)
(* one whose handler got the list's lock after shutdown had emptied it: no  *)
(* handle of an unfinished task is lost on the way to shutdown().           *)
NoTaskLeftBehind ==
    server = "closed" =>
        \A t \in Background : pc[t] \in {"spawned"} \cup WorkPcs => t \in tasks

(* Every job the client was told of ends in a result, by its deadline and   *)
(* the grace alone, even if the remote side never answers; only the end of  *)
(* the process may come first.  And shutdown reaches the closing of the     *)
(* session although transfers are in flight and the remote side is silent.  *)
TransfersSettle ==
    /\ \A t \in Background :
          pc[t] = "spawned" ~> (t \in ended \/ server \in {"draining", "closed"})
    /\ server = "stopping" ~> server = "closed"

=============================================================================
