---------------------------- MODULE BackgroundJob ---------------------------
(***************************************************************************)
(* One command job of the background subsystem: the handler that registers *)
(* and persists it (src/server/exec.rs, src/server.rs), the streamer task  *)
(* that records its outcome (src/background/stream.rs), concurrent         *)
(* check_process calls that reconcile it with the remote process           *)
(* (src/ssh/command.rs), the state file (src/background/spooler.rs), and   *)
(* the death of the server at any point.                                   *)
(*                                                                         *)
(* A job state is its status and exit code; the registry holds a reference *)
(* to a shared state, and a check that finds none after a restart loads    *)
(* the file and installs a new one, so two checks may install two.         *)
(* persist_job_state is two steps: open with truncation, then one write.   *)
(***************************************************************************)
EXTENDS Naturals, FiniteSets

CONSTANTS
    Checkers,       \* concurrent check_process calls
    Detached,       \* those made for a foreground command whose time is up
    SuShell,        \* the connection has a persistent su shell
    MaxCrashes      \* bound: server restarts

ASSUME BackgroundJobAssumption ==
    /\ IsFiniteSet(Checkers)
    /\ Detached \subseteq Checkers
    /\ SuShell \in BOOLEAN
    /\ MaxCrashes \in Nat

VARIABLES
    process,        \* the remote process: Running or its exit code
    channelOpen,    \* the streamer still hears from it
    eof,            \* it heard EOF
    shared,         \* the shared job states, by reference
    registry,       \* the reference the registry holds, 0 if none
    disk,           \* the state file
    acked,          \* the job_id was returned to the client
    ioFailed,       \* a persist failed (only a warning is logged)
    streamer,       \* where the starting handler, then the streamer is
    outcome,        \* what the streamer heard so far, and then persists
    pc,             \* where each check is
    ref,            \* the reference it holds
    found,          \* what it loaded, then what it decided
    reply,          \* its last answer
    crashes,
    recorded,       \* history: the streamer stored an exit code in this server's memory
    tangled         \* history: when the file was last opened another writer had it open,
                    \* or the server died before the one who opened it wrote

channelVars == <<channelOpen, eof>>
jobVars == <<shared, registry>>
fileVars == <<disk, tangled>>
streamVars == <<streamer, outcome>>
checkVars == <<pc, ref, found, reply>>
vars == <<process, channelVars, jobVars, fileVars, acked, ioFailed, streamVars,
          checkVars, crashes, recorded>>

Codes == {0, 1}

NoCode == 256

Running == [status |-> "running", code |-> NoCode]

StateLost == [status |-> "state_lost", code |-> NoCode]

(* job_status_from_exit_code *)
Exited(code) == [status |-> IF code = 0 THEN "completed" ELSE "failed", code |-> code]

JobStates == {Running, StateLost} \cup {Exited(code) : code \in Codes}

IsTerminal(job) == job.status # "running"

MarkStateLost(job) == [job EXCEPT !.status = "state_lost", !.code = NoCode]

MarkExit(job, code) == [job EXCEPT !.status = Exited(code).status, !.code = code]

(* What becomes of a job whose outcome is decided. *)
Mark(job, decided) ==
    IF decided.code = NoCode THEN MarkStateLost(job) ELSE MarkExit(job, decided.code)

(* What the file holds when it is no parsable state, and when it is absent. *)
Torn == [status |-> "torn", code |-> NoCode]

Absent == [status |-> "absent", code |-> NoCode]

NoReply == [status |-> "none", code |-> NoCode]

Error == [status |-> "error", code |-> NoCode]

Refs == 1..(1 + MaxCrashes * Cardinality(Checkers))

TypeOK ==
    /\ process \in {NoCode} \cup Codes
    /\ channelOpen \in BOOLEAN /\ eof \in BOOLEAN /\ tangled \in BOOLEAN
    /\ shared \in [Refs -> JobStates]
    /\ registry \in {0} \cup Refs
    /\ disk \in JobStates \cup {Torn, Absent}
    /\ acked \in BOOLEAN /\ ioFailed \in BOOLEAN /\ recorded \in BOOLEAN
    /\ streamer \in {"start", "persist", "write", "ack", "stream", "update",
                     "end_persist", "end_write", "done", "gone"}
    /\ outcome \in JobStates
    /\ pc \in [Checkers -> {"idle", "get", "insert", "snapshot", "pid", "settle",
                            "apply", "persist", "write"}]
    /\ ref \in [Checkers -> {0} \cup Refs]
    /\ found \in [Checkers -> JobStates]
    /\ reply \in [Checkers -> JobStates \cup {NoReply, Error}]
    /\ crashes \in 0..MaxCrashes

Init ==
    /\ process = NoCode /\ channelOpen = TRUE /\ eof = FALSE
    /\ shared = [r \in Refs |-> Running]
    /\ registry = 0
    /\ disk = Absent /\ tangled = FALSE
    /\ acked = FALSE /\ ioFailed = FALSE /\ recorded = FALSE
    /\ streamer = "start" /\ outcome = Running
    /\ pc = [k \in Checkers |-> "idle"]
    /\ ref = [k \in Checkers |-> 0]
    /\ found = [k \in Checkers |-> Running]
    /\ reply = [k \in Checkers |-> NoReply]
    /\ crashes = 0

-----------------------------------------------------------------------------

Goto(k, label) == pc' = [pc EXCEPT ![k] = label]

Answer(k, job) ==
    /\ Goto(k, "idle")
    /\ reply' = [reply EXCEPT ![k] = job]
    /\ ref' = [ref EXCEPT ![k] = 0]
    /\ found' = [found EXCEPT ![k] = Running]

(* What a failed check ends in: an error, but the snapshot taken for a       *)
(* detached foreground command falls back to what the registry says.         *)
Failure(k) == IF k \in Detached THEN shared[registry] ELSE Error

(* The status is decided; reading the local log may still fail. *)
AnswerWithLog(k, job) == \E said \in {job, Failure(k)} : Answer(k, said)

(* Sizes of the JSON documents order the states: a short one written over a *)
(* longer one leaves the longer one's tail behind.                          *)
Size(job) == CASE job.status = "running" -> 1
               [] job.status = "failed" -> 2
               [] job.status = "completed" -> 3
               [] job.status = "state_lost" -> 4
               [] OTHER -> 0

(* Somebody opened the state file and has not written yet. *)
FileOpen ==
    streamer \in {"write", "end_write"} \/ \E k \in Checkers : pc[k] = "write"

(* Opening truncates the file, also under another writer. *)
OpenFile == disk' = Torn /\ tangled' = FileOpen

(* write_all at offset 0 of a file truncated when it was opened. *)
Write(job) ==
    /\ disk' = IF Size(disk) > Size(job) THEN Torn ELSE job
    /\ UNCHANGED tangled

-----------------------------------------------------------------------------
(* The remote process and its channel                                       *)

ProcessExits(code) ==
    /\ process = NoCode
    /\ process' = code
    /\ UNCHANGED <<channelVars, jobVars, fileVars, acked, ioFailed, streamVars, checkVars,
                   crashes, recorded>>

(* Nothing more comes through the channel: CLOSE arrived, or its route is lost. *)
ChannelLost ==
    /\ channelOpen
    /\ channelOpen' = FALSE
    /\ UNCHANGED <<process, eof, jobVars, fileVars, acked, ioFailed, streamVars, checkVars,
                   crashes, recorded>>

-----------------------------------------------------------------------------
(* Starting the job and streaming its output                                *)

RegisterThen(next, told) ==
    /\ streamer = "start"
    /\ registry' = 1
    /\ shared' = [shared EXCEPT ![1] = Running]
    /\ streamer' = next
    /\ acked' = told
    /\ UNCHANGED <<process, channelVars, fileVars, ioFailed, outcome, checkVars,
                   crashes, recorded>>

(* Mutant: the job_id is handed out before the state file is written. *)
RegisterAndAck == RegisterThen("persist", TRUE)

(* register_running_job: into the registry first, then to disk. *)
Register == RegisterThen("persist", FALSE)

(* persist_job_state of the running state, of the terminal one later. *)
StreamerOpensFile ==
    /\ \/ streamer = "persist" /\ streamer' = "write"
       \/ streamer = "end_persist" /\ streamer' = "end_write"
    /\ OpenFile
    /\ UNCHANGED <<process, channelVars, jobVars, acked, ioFailed, outcome, checkVars,
                   crashes, recorded>>

StreamerWrites ==
    /\ \/ streamer = "write" /\ streamer' = "ack"
       \/ streamer = "end_write" /\ streamer' = "done"
    /\ Write(outcome)
    /\ UNCHANGED <<process, channelVars, jobVars, acked, ioFailed, outcome, checkVars,
                   crashes, recorded>>

(* Opening or writing the file fails: a warning, and the job goes on. *)
StreamerCannotPersist ==
    /\ \/ streamer \in {"persist", "write"} /\ streamer' = "ack"
       \/ streamer \in {"end_persist", "end_write"} /\ streamer' = "done"
    /\ ioFailed' = TRUE
    /\ UNCHANGED <<process, channelVars, jobVars, fileVars, acked, outcome, checkVars,
                   crashes, recorded>>

(* The streamer is spawned and the client gets the job_id. *)
Acknowledge ==
    /\ streamer = "ack"
    /\ streamer' = "stream"
    /\ acked' = TRUE
    /\ UNCHANGED <<process, channelVars, jobVars, fileVars, ioFailed, outcome, checkVars,
                   crashes, recorded>>

(* The exit status, or the signal, arrives: the loop goes on. *)
StreamHearsStatus ==
    /\ streamer = "stream" /\ channelOpen
    /\ process # NoCode /\ outcome = Running
    /\ outcome' = Exited(process)
    /\ UNCHANGED <<process, channelVars, jobVars, fileVars, acked, ioFailed, streamer,
                   checkVars, crashes, recorded>>

(* EOF ends the loop only when the status came before.  Else the wait for    *)
(* the status, and after it for CLOSE, has no limit.                         *)
StreamHearsEof ==
    /\ streamer = "stream" /\ channelOpen /\ ~eof
    /\ eof' = TRUE
    /\ streamer' = IF IsTerminal(outcome) THEN "update" ELSE "stream"
    /\ UNCHANGED <<process, channelOpen, jobVars, fileVars, acked, ioFailed, outcome,
                   checkVars, crashes, recorded>>

StreamEndsWhen(over) ==
    /\ streamer = "stream" /\ over
    /\ streamer' = "update"
    /\ outcome' = IF IsTerminal(outcome) THEN outcome ELSE StateLost
    /\ UNCHANGED <<process, channelVars, jobVars, fileVars, acked, ioFailed, checkVars,
                   crashes, recorded>>

(* Mutant: after the status, too, the wait has no limit. *)
StreamEndsAtClose == StreamEndsWhen(~channelOpen)

(* The loop ends when the channel has nothing more, and 200 ms after an exit *)
(* status that no EOF followed; what it heard is the outcome.                *)
StreamEnds == StreamEndsWhen(~channelOpen \/ (IsTerminal(outcome) /\ ~eof))

(* The log cannot be opened, written or flushed: the outcome counts as lost, *)
(* also when the exit status was heard.                                      *)
StreamFails ==
    /\ streamer = "stream"
    /\ streamer' = "update" /\ outcome' = StateLost
    /\ UNCHANGED <<process, channelVars, jobVars, fileVars, acked, ioFailed, checkVars,
                   crashes, recorded>>

StreamerStores(job, next) ==
    /\ streamer = "update"
    /\ shared' = [shared EXCEPT ![registry] = job]
    /\ recorded' = (recorded \/ job.code # NoCode)
    /\ streamer' = next
    /\ UNCHANGED <<process, channelVars, registry, fileVars, acked, ioFailed, outcome,
                   checkVars, crashes>>

(* Mutant: the outcome is stored and not persisted. *)
UpdateMemoryOnly ==
    streamer = "update" /\ StreamerStores(Mark(shared[registry], outcome), "done")

(* update_job_terminal under the job's lock. *)
UpdateJobTerminal ==
    streamer = "update" /\ StreamerStores(Mark(shared[registry], outcome), "end_persist")

-----------------------------------------------------------------------------
(* check_process                                                            *)

CheckBegins(k) ==
    /\ pc[k] = "idle" /\ acked
    /\ k \in Detached => streamer # "gone"
    /\ Goto(k, "get")
    /\ reply' = [reply EXCEPT ![k] = NoReply]
    /\ UNCHANGED <<process, channelVars, jobVars, fileVars, acked, ioFailed, streamVars,
                   ref, found, crashes, recorded>>

(* The registry's state, or the file's, or no answer. *)
CheckGets(k) ==
    /\ pc[k] = "get"
    /\ \/ /\ registry # 0
          /\ Goto(k, "snapshot")
          /\ ref' = [ref EXCEPT ![k] = registry]
          /\ UNCHANGED <<found, reply>>
       \/ /\ registry = 0 /\ disk \in JobStates
          /\ Goto(k, "insert")
          /\ found' = [found EXCEPT ![k] = disk]
          /\ UNCHANGED <<ref, reply>>
       \/ /\ registry = 0 /\ disk \in {Torn, Absent}
          /\ Answer(k, Failure(k))
    /\ UNCHANGED <<process, channelVars, jobVars, fileVars, acked, ioFailed, streamVars,
                   crashes, recorded>>

InUse == {registry} \cup {ref[k] : k \in Checkers}

(* The recovered state is installed, over another check's if it came first. *)
CheckInserts(k) ==
    /\ pc[k] = "insert"
    /\ \E r \in Refs \ InUse :
         /\ \A q \in Refs \ InUse : r <= q
         /\ shared' = [shared EXCEPT ![r] = found[k]]
         /\ registry' = r
         /\ ref' = [ref EXCEPT ![k] = r]
    /\ found' = [found EXCEPT ![k] = Running]
    /\ Goto(k, "snapshot")
    /\ UNCHANGED <<process, channelVars, fileVars, acked, ioFailed, streamVars, reply,
                   crashes, recorded>>

(* A terminal state is answered as it is. *)
CheckSnapshots(k) ==
    /\ pc[k] = "snapshot"
    /\ IF IsTerminal(shared[ref[k]])
         THEN AnswerWithLog(k, shared[ref[k]])
         ELSE Goto(k, "pid") /\ UNCHANGED <<ref, found, reply>>
    /\ UNCHANGED <<process, channelVars, jobVars, fileVars, acked, ioFailed, streamVars,
                   crashes, recorded>>

(* is_pid_running: `kill -0` succeeds on a living process; the su shell     *)
(* reports success whatever the command did (collect_su_output).             *)
CheckSeesRunning(k) ==
    /\ pc[k] = "pid"
    /\ process = NoCode \/ SuShell
    /\ AnswerWithLog(k, Running)
    /\ UNCHANGED <<process, channelVars, jobVars, fileVars, acked, ioFailed, streamVars,
                   crashes, recorded>>

(* `kill -0` fails: the process is gone, or the SSH user may not signal it. *)
CheckSeesGone(k) ==
    /\ pc[k] = "pid"
    /\ Goto(k, "settle")
    /\ UNCHANGED <<process, channelVars, jobVars, fileVars, acked, ioFailed, streamVars,
                   ref, found, reply, crashes, recorded>>

(* No connection, or no answer from it. *)
CheckCannotProbe(k) ==
    /\ pc[k] = "pid"
    /\ Answer(k, Failure(k))
    /\ UNCHANGED <<process, channelVars, jobVars, fileVars, acked, ioFailed, streamVars,
                   crashes, recorded>>

SettleOr(k, verdict) ==
    /\ pc[k] = "settle"
    /\ LET job == shared[ref[k]]
       IN  found' = [found EXCEPT ![k] = IF IsTerminal(job) THEN job ELSE verdict]
    /\ Goto(k, "apply")
    /\ UNCHANGED <<process, channelVars, jobVars, fileVars, acked, ioFailed, streamVars,
                   ref, reply, crashes, recorded>>

(* Mutant: a process that is gone is taken to have succeeded. *)
SettleOptimistic(k) == SettleOr(k, Exited(0))

(* await_running_job_settle: a second look 150 ms later, after which the     *)
(* outcome of a process that is gone counts as lost.                        *)
CheckSettles(k) == SettleOr(k, StateLost)

ApplyAs(k, job) ==
    /\ pc[k] = "apply"
    /\ shared' = [shared EXCEPT ![ref[k]] = job]
    /\ Goto(k, "persist")
    /\ UNCHANGED <<process, channelVars, registry, fileVars, acked, ioFailed, streamVars,
                   ref, found, reply, crashes, recorded>>

(* Mutant: the reconciled status is not stored, the job stays running. *)
ApplyNothing(k) == ApplyAs(k, Running)

(* The decision is stored under the lock and cloned for the file. *)
CheckApplies(k) == pc[k] = "apply" /\ ApplyAs(k, Mark(shared[ref[k]], found[k]))

CheckOpensFile(k) ==
    /\ pc[k] = "persist"
    /\ OpenFile
    /\ Goto(k, "write")
    /\ UNCHANGED <<process, channelVars, jobVars, acked, ioFailed, streamVars, ref,
                   found, reply, crashes, recorded>>

CheckWrites(k) ==
    /\ pc[k] = "write"
    /\ Write(found[k])
    /\ AnswerWithLog(k, found[k])
    /\ UNCHANGED <<process, channelVars, jobVars, acked, ioFailed, streamVars,
                   crashes, recorded>>

CheckCannotPersist(k) ==
    /\ pc[k] \in {"persist", "write"}
    /\ ioFailed' = TRUE
    /\ AnswerWithLog(k, found[k])
    /\ UNCHANGED <<process, channelVars, jobVars, fileVars, acked, streamVars, crashes,
                   recorded>>

-----------------------------------------------------------------------------

(* The server dies and is started again: only the file and the process stay. *)
Crash ==
    /\ crashes < MaxCrashes
    /\ crashes' = crashes + 1
    /\ registry' = 0
    /\ shared' = [r \in Refs |-> Running]
    /\ channelOpen' = FALSE /\ eof' = FALSE
    /\ tangled' = (tangled \/ FileOpen)
    /\ streamer' = "gone" /\ outcome' = Running
    /\ pc' = [k \in Checkers |-> "idle"]
    /\ ref' = [k \in Checkers |-> 0]
    /\ found' = [k \in Checkers |-> Running]
    /\ reply' = [k \in Checkers |-> NoReply]
    /\ recorded' = FALSE
    /\ UNCHANGED <<process, disk, acked, ioFailed>>

Streaming ==
    \/ Register \/ StreamerOpensFile \/ StreamerWrites \/ Acknowledge
    \/ StreamEnds \/ UpdateJobTerminal

Checking(k) ==
    \/ CheckGets(k) \/ CheckInserts(k) \/ CheckSnapshots(k) \/ CheckSeesRunning(k)
    \/ CheckSeesGone(k) \/ CheckSettles(k) \/ CheckApplies(k) \/ CheckOpensFile(k) \/ CheckWrites(k)

Next ==
    \/ Streaming \/ StreamerCannotPersist
    \/ StreamHearsStatus \/ StreamHearsEof \/ StreamFails
    \/ \E k \in Checkers :
         CheckBegins(k) \/ Checking(k) \/ CheckCannotProbe(k) \/ CheckCannotPersist(k)
    \/ \E code \in Codes : ProcessExits(code)
    \/ ChannelLost
    \/ Crash

Spec == Init /\ [][Next]_vars

(* The handler and the streamer task are polled; the process, the channel    *)
(* and the client owe us nothing.  That the 200 ms after a status run out     *)
(* assumes that the channel falls silent: each output starts them again.     *)
FairSpec == Spec /\ WF_vars(Streaming)

-----------------------------------------------------------------------------

(* An exit code that is stored, persisted, about to be stored or answered is *)
(* the exit code of the process, which is over: no interleaving of streamer, *)
(* checks and restarts invents one.                                          *)
OutcomeIsTrue ==
    LET states == {outcome, disk} \cup {shared[r] : r \in Refs}
                    \cup {found[k] : k \in Checkers} \cup {reply[k] : k \in Checkers}
    IN  \A job \in states : job.status \in {"completed", "failed"} => job = Exited(process)

(* A job that is no longer running never runs again in the memory that holds *)
(* it: late reconciliation does not resurrect it.                            *)
TerminalForever ==
    [][\A r \in Refs :
         IsTerminal(shared[r]) /\ registry = r /\ registry' = r => IsTerminal(shared'[r])]_vars

(* A job_id the client was given can be looked up after a restart.           *)
AckedJobOnDisk == acked /\ ~ioFailed => disk # Absent

(* A file at rest parses, unless the last one to open it was not alone, or   *)
(* the server died between opening and writing it.                           *)
FileParses ==
    acked /\ ~ioFailed /\ ~FileOpen /\ ~tangled => disk \in JobStates

(* Once the streamer is through, the file holds the outcome it saw or the    *)
(* state_lost of a check that decided before and wrote later, or is torn; it  *)
(* never says that the job is running.                                       *)
OutcomeReachesDisk ==
    acked /\ ~ioFailed /\ streamer = "done" => disk \in {outcome, StateLost, Torn}

(* What a restarted server finds, when no write failed: the file of every    *)
(* job the client knows; a state that parses, unless writers overlapped or   *)
(* the server died in a write (such a file stays torn); and after the        *)
(* streamer is through no state older than the outcome.                      *)
DiskKeepsJob == AckedJobOnDisk /\ FileParses /\ OutcomeReachesDisk

(* Once the exit status was heard before EOF, or nothing can be heard any    *)
(* more, the job becomes terminal in the registry, whether EOF and CLOSE     *)
(* follow or not.  After EOF the streamer waits for CLOSE without a limit.   *)
ExitIsNoticed ==
    (streamer = "stream" /\ ((IsTerminal(outcome) /\ ~eof) \/ ~channelOpen))
        ~> (streamer = "gone" \/ (registry # 0 /\ IsTerminal(shared[registry])))

(* README: "`state_lost` means the server no longer has a trustworthy         *)
(* terminal outcome".  Whoever is told state_lost asked a server that had    *)
(* not stored the exit code.                                                 *)
LostMeansUnknown ==
    [][\A k \in Checkers :
         reply'[k] # reply[k] /\ reply'[k] = StateLost => ~recorded]_vars

=============================================================================
