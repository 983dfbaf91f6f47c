# SeSSHion: a TLA+ model of the SSH session, its commands, transfers and patches

SeSSHion is an MCP server that drives one remote host over a single persistent SSH session.
Many tool calls share that session: it is acquired under a time budget, probed, torn down and
replaced while other calls use it, and it is closed while calls are in flight. This directory
holds TLA+ modules translated from the Rust source, the TLC configurations that check them on
small instances, and TLAPS proofs for every value of the constants. `PROJECT.json` maps each
definition to the lines it models.

## Inventory

| Component | State it keeps | Operations | What is hard |
|---|---|---|---|
| Connection manager (`ssh/connection.rs`) | route slot with a generation, platform frozen by the first route, owner flag and waiters, probe cache, three locks, shutdown flag and token | acquire, connect with retry, dial (with or without jump host), publish, probe, invalidate, open a channel, close | late answers for replaced routes, cancelled owners, publication racing close, lost wake-ups |
| Command execution (`ssh/command.rs`) | command slots, one su shell with its generation, elevation flag, cached wrapper answer | exec_command: elevate, take and restore the shell, open and exec with one retry, collect, fallback | shells outliving their route, replay of delivered payloads, lost slots |
| Background command jobs (`background/*`, `server/exec.rs`, `handlers/check_process.rs`) | registry of shared job states, state file, log | register, stream, check, persist, recover after a restart | streamer against checks, writes outside the lock, restart at any point |
| Raw streaming (`exec_raw_streaming_cancellable`) | channel task with two pipes | start, pump, cancel | cancellation racing the end of the stream |
| Background transfers (`background/transfer.rs`, `server.rs`) | registry, task list, shutdown token | register, progress, finish, prune, drain at shutdown | abort before the guard exists, late events |
| Transfer engine and staging (`transfer/*`) | staged data on either side | choose transport, stage, validate, commit, roll back | one rename of several failing |
| Patch application (`patch.rs`, `handlers/apply_patch.rs`, `file_edit_common.rs`) | on the remote host: staged files, a lock directory beside each target | parse, plan on a snapshot, finalize each file by one script | the file changing between read and write, stale locks, scripts that outlive their call, ambiguous hunks |
| RouterOS execution (`ssh/routeros.rs`) | owner task per request | open, exec, collect, stop | request over before its channel opens |
| Identification and host keys (`ssh/identification.rs`, `ssh/handler.rs`) | known_hosts file | read the banner, check or learn a key | bounded read, two learners |
| Environment snapshot (`ssh/environment.rs`) | frozen snapshot | probe under three seconds | partial results |
| Process lifecycle (`main.rs`) | lifecycle token, recovery task | readiness, serve, recover every 5 s, shut down | order of shutdown |
| Tools, validation, configuration, logging | none that changes | - | stateless |

The connection manager is at the bottom. Commands, transfers, RouterOS requests, the PID probe
of `check_process` and the recovery loop of `main.rs` all acquire its route with
`ensure_connected_transport_only` or `ensure_connected`, open channels on it, and report failures
with `invalidate_session_for_generation`. Job streamers own their channel and meet
`check_process` only in the job's mutex and in the state file.

What makes each part correct, in a sentence: there is one connect owner and one route, and only
those who failed on a route may remove it; a payload is delivered once, and root shells belong to
the route they were opened on; an exit code is never invented, and what a client was told to
poll can be polled; "not started" and "applied" are true for ever; a destination is its old or its
new content, whatever is interrupted.

## Modules

| Module | Models | Uses |
|---|---|---|
| `Route` | what the connection manager promises: one slot, generations only grow, nothing after stop | - |
| `AtMostOnce` | what the caller of a remote operation may rely on: one effect, one verdict, "done" and "never" true for ever | - |
| `Transport` | `ssh/connection.rs` | `INSTANCE Route` as the refinement target |
| `Commands` | `exec_command` and elevation on top of the abstract route | - |
| `RouterosExec` | `ssh/routeros.rs`: the owner task of a native EXEC | `INSTANCE AtMostOnce` |
| `RawStream` | `exec_raw_streaming_cancellable` and its channel task | - |
| `BackgroundJob` | one command job: handler, streamer, checks, file, restart | - |
| `TransferJob` | transfers: registry, tasks, reservation, deadline and grace, check_process, shutdown | `INSTANCE AtMostOnce` |
| `Staging` | one transfer's way from source to destination, over every transport | - |
| `ApplyPatch` | the protocol of apply_patch and its remote script | `INSTANCE AtMostOnce` |
| `PatchText` | `patch.rs`: grammar and hunks | - |
| `StdPath` | paths as text: what stands between slashes, `Path::components`, joining | - |
| `TarStream` | `transfer/tar.rs`: writer and reader | `StdPath` |
| `PathsAndLogs` | destination key, local path check, log tail | `StdPath` |
| `Algorithms` | one computation of one of these on one input, against reference definitions | `PatchText`, `TarStream`, `PathsAndLogs` |
| `TransportProofs`, `CommandsProofs`, `RouterosExecProofs`, `RawStreamProofs`, `BackgroundJobProofs`, `TransferJobProofs`, `ApplyPatchProofs`, `StagingProofs` | theorems | the module named, TLAPS; `ApplyPatchProofs` and `TransferJobProofs` also `Algorithms` |
| `MC*` | instances for TLC | the module named |

### Transport

Each task is a caller of the manager; `pc` says at which await it is. A task acquires the route
(`EnsureConnected` to `Recheck`), connects if there is none (`ConnectCheck` to `OwnerReturn`),
and uses it (`OpenChannel` to `InvalidateAfterOperation`). The task `Recovery` is the loop of
`main.rs` that only acquires. One step is the code between two awaits. The session mutex is a
variable where it is held across an await (ping and channel open) and a guard `SessionFree`
everywhere else. `DropCall` is the drop of the future inside `bounded_transport`, at any await:
it releases what Rust's drop releases, the `ConnectAttemptGuard` included. `waiters` holds the
tasks whose `Notified` is enabled and not yet notified. The TTL of the probe cache is
`ProbeExpires`, at any time. Backoff sleeps are not visible: a retry may start at once or later.
Route teardown (`eof`, `disconnect`) is bounded by 500 ms in the code and changes no state of the
manager, so it is left out. The locks of the su shell, of the probe and of the probe cache are not
variables: what is done under one of them is part of one step. A wrong order of two locks is
therefore not visible in the model. In the source every path that holds two of them takes
`su_channel`, then `session`, then `last_health_probe_ok_at`, and `elevation_lock` and
`health_probe_lock` only before these.

Generations and faults are counted; `MaxFaults` bounds how often the environment fails and
thereby the generations TLC sees. `blamed` and `lastGen` are history: the generations on which
somebody saw a failure, and the last one published.

### Commands

Every command runs once through `exec_command`. The members of `Launches` are background starts,
which take a slot of the same semaphore until their markers, an error or their timeout end them
(`LaunchEnds`); how the job goes on is `BackgroundJob`. The route around it is the abstract one:
established when there is none, dead at any time, retired when found dead, taken by `close`.
A su shell is a record of its generation and an identity, so that two shells of one route can be
told apart. `delivered` counts how often a payload may have reached the remote side. Detection of
the `timeout` command is a free answer on a live route. Output contents are left out.
The commands in `Droppable` are issued by a transfer, whose `run_controlled` drops their future
when the teardown grace is over: `DropCommand` frees what Rust's drop frees, at any await, and a su
shell in the hands of the dropped future is lost. That is why `ElevatedHasShell`, a part of
`SuShellsSound`, allows an elevated flag without a shell after a drop: the harm of such a drop is in
the model and not forbidden by the property, and neither is the unelevated run of a command that
meets the flag while another has the shell.

### RouterosExec

The caller's future only waits for one answer; the spawned owner task has the slot, the pending
OPEN and the channel, and `pc` is where it is. A stop (deadline, cancellation, dropped caller,
shutdown) may come at any place. While an OPEN is unresolved the session mutex is held; when its
budget elapses the owner retires the generation it captured (`Retire`), never a newer one. The
Collector's flags decide the verdict, `may_have_run` among them; `CloseChannel` is bounded and
`unclosed` records that the budget ran out. Reuse of the route by other components is the abstract
route again.

The abstract view is `AtMostOnce`, with a command that started at the router as its effect and the
answer as its verdict: "not started" is *never*, "may have run" is *unknown*.

### RawStream

Two processes and two bounded queues. The call is in its select loop, in `tx.send` or leaving; the
task reads and writes the channel. The point of the module is what happens when both wait at once:
the call in a send to a full input queue does not read the output queue, and the task in a send to
a full output queue does not take input. Only the deadline, the token or the shutdown ends that,
and then the close budget and the drop of `JoinAbortGuard` have to unwind both.

### BackgroundJob

A job state is its status and exit code. `shared` holds the shared states by reference because a
check after a restart installs a new one, and two checks may install two. `persist_job_state` is two
steps, open with truncation and write, by the streamer or by a check; a write at offset 0 of a
shorter document over a longer one leaves a file that does not parse (`Torn`), and so does a server
that dies in between. `tangled` records that the last one to open the file was not alone, or did not
live to write; a file that is at rest, not tangled and had no failed write parses (`FileParses`),
and after the streamer's last write it holds the outcome or a check's `state_lost`, or is torn
(`OutcomeReachesDisk`). The streamer hears the exit status and EOF in either order: after a status
without EOF it waits 200 ms (`StreamEnds`), an EOF after the status ends its loop
(`StreamHearsEof`), but after an EOF that came first it waits without a limit for the status and
then for the end of the channel. Every file operation may fail, and the failure is only logged, as
in the code; an error of the log makes the outcome `state_lost` (`StreamFails`). `Crash` loses
everything but the file and the process. A *detached* check is the snapshot taken for a foreground
command whose time is up: it falls back to the registry where others return an error. `SuShell` says
that the PID probe runs through the persistent su shell. Reuse of the PID by another process is not
modelled.

### TransferJob

A transfer is a background job (registered, spawned, then the task) or a call whose client waits.
`run_inner` is three places: *preparing*, *staging* (the destination is reserved and the copy goes
to a stage) and *finalizing* (the commit, which looks at no token). `run_controlled` around it is
`stop`: once the deadline or a token has ended the first select, the outcome of the work is
discarded, and `GraceElapses` drops its future after the teardown grace. A commit that was already
sent is then an *orphan*: the remote side may still carry it out. `WorkEnds` and `DropWork` release
the reservation where Rust drops the `DestinationGuard`, and write the terminal state where
`TransferTerminalGuard` is dropped or disarmed. A put over exec-raw copies and commits in one remote
script, so for it the commit happens while the local side is still *staging*; `StreamLost` is the
end of such a channel without an exit status, which `ensure_remote_success` accepts. The registry is
pruned by every registration and lookup; time is `RetentionEnds`. Shutdown is the token, then the
task list under its lock, then join or abort, then the connection. How a stage replaces a
destination is the single step `Install` here; its parts and their failures are `Staging`. A put of
a file over exec-raw compares the size before it commits, one of a directory (`Directories`) does
not. A commit is also an orphan when the work fails, or its stream is lost, with the remote script
still to run. The
abstract view of a transfer through a local client is `AtMostOnce`: its effect is the replacement by
a whole source, "completed" is *done*, and "failed" is *unknown*, because a commit that was sent may
still be carried out. The model assumes that no su shell is in its slot when a commit runs. Byte
counts are left out.

### Staging

One transfer: an operation (put or get, file or directory, overwrite or not, transport, with or
without a jump host) on a destination that may hold something, with or without leftovers at the
names of stage and backup. `at` is the place of the worker, which is a remote shell for an upload
and the local future for a download. Each command of the scripts may fail; the local side may be
dropped at any await; a shell whose channel is gone goes on or dies at any of its commands. A
stranger may create the destination once. `sweep` is the best-effort removal of the stage, which
runs whenever it gets there. Contents are seven values, so a partial copy, the old content and a
stranger's can be told apart. Removing a tree is one step.

Three things the code does are exceptions of `OldNeverLost` and `ResultIsTrue`, each with a variable
that names it. The input of an exec-raw upload may be cut without the remote tar noticing, and a
download over exec-raw without an exit status is installed as it is (`cut`). `mv` puts the stage, or
in a rollback the backup, inside a directory that a stranger has put at the destination, and
succeeds; the caller is then told of a success, or of `install_failed` without a backup (`nested`).
And a local rename that does not replace a file, as on Windows, is followed by the removal of the
destination and a second rename: if that one fails, or the future is dropped before it, the old
content is gone (`unlinked`). The properties say that there is no other way.

### ApplyPatch

A call plans all sections on snapshots before it writes any, then runs one script per changed file.
The script is a process of its own (`sp`): stage, hash, lock with spins and reclaim of stale locks,
compare, replace, clean up in the EXIT trap. The call may give up while its script goes on, and the
script may die without its trap. A file is the set of edits in it, which is what lost updates are
about. A stranger is a program that knows nothing of the lock; it can be seen between comparison and
rename, so properties about edits exclude its files. The abstract view of each section is
`AtMostOnce`: its effect is the replacement of the target, "failed" and "unchanged" are *never*, and
"unknown" is what it says.

### Algorithms

One behaviour takes one input and computes one output; the invariants compare it with a definition
written another way. `PatchText` classifies lines by how they start and keeps their text as values.
A loop of the parser that closes a section or a hunk at the next header or marker is the sequence
of pieces between these lines in ascending order (`InOrder`, `Pieces`); the first error of the loop
is the first of its pieces (`Collect`). The reference has no loop: `Grammatical` says of each line
whether it may stand where it does, and `ParserExact` where every path, anchor and line of the
result comes from. `TarStream` has header records and bytes, sizes truncated to the digits of the
field (`% 8^SizeDigits`), and files that are shorter or longer when read than when listed.
`StdPath` keeps paths as what stands between slashes. Field widths, block and chunk sizes are
constants, so that a bound of the code is reached by small inputs. Loops that carry a state from
turn to turn (hunks, path components, chunks of a log, entries of an archive) are recursive
functions of the number of turns, which TLC evaluates and the prover can unfold.

The inputs are constants, and the module's assumptions say what the code guarantees of them. A patch
has at least one line, because `str::split` yields one (`PatchLines`); the text of a file is what
`split` makes of it, and a hunk has old lines, because `parse_update` refuses one without
(`UpdateInputs`): no text without a final newline ends in an empty line, unless it has only that
one. `JoinLines` keeps to this: the code joins the lines to a string, which the next read splits
again, so a text whose new last line is empty comes back as one that ends in a newline.
`ReverseRestores` is an equivalence for that reason: the turned hunks give the text back exactly
when the final newline was left as it was. `LocalRoot` is absolute and without "..", because it is
what `current_dir` returned; a path has at least one part, if only the empty one; and one of the
directories of `Bases` is so deep that no path leaves it and shares no name with any (`PathInputs`).
`Bases` belongs to the reference only: the remote home directory is not known to the server, so two
relative paths are one destination when they are the same place from wherever they start, and the
deep directory is what tells different ones apart. A log is made of bytes and the number of lines is
a `usize` (`LogInputs`); `read_dir` yields neither "." nor "..", and what is below something is
below a directory (`TreeInputs`); a header has a name, if only the empty one (`StreamInputs`). TLC
evaluates all of them in the run.

## Runs

| Run | Bounds | Shows |
|---|---|---|
| `transport` | the recovery task and a caller, jump host, 2 attempts, 2 faults | one owner, `RouteBeliefs` (probe cache, frozen platform, pings), healthy routes kept, implements `Route`; waiters wake, the route recovers, shutdown ends |
| `commands` | 2 commands (1 droppable) and a background start, 2 slots, su configured, 1 fault | no replay, `SuShellsSound` (shells on their route, not shared, an elevated flag has one); with fewer slots than callers everyone ends |
| `routeros` | 2 requests, 2 slots, 1 fault | `AnswersAreTrue` ("not started" is true, success has a status), no stray channel, only an unresolved OPEN retires its route, implements `AtMostOnce`; every request answered, every slot returned |
| `raw_stream` | 3 chunks in, 2 out, queues of 1 | success has drained the channel, EOF follows the whole input; the call returns, no task is left |
| `job_checks` | 2 checks (1 detached), su shell, 1 restart | outcomes true, `DiskKeepsJob` (acknowledged jobs on disk, a file at rest parses but for overlapping or interrupted writes, the outcome gets there), terminal for ever; an exit status before EOF, or the end of the channel, is noticed |
| `job_lost` | violation, 1 check | `state_lost` overwrites a stored exit code |
| `transfer` | 1 background and 2 foreground transfers to one destination, one of them a directory, 1 check | one writer, told jobs can be polled, implements `AtMostOnce` (completion true, results stay); told jobs end, shutdown ends |
| `transfer_partial` | violation | a get over exec-raw installs a partial file after a lost exit status |
| `staging` | every operation over sftp, scp, rsync and exec-raw | the old content is lost only in the three named cases, `ResultIsTrue` (success is whole, failure leaves or names the old), `OthersUntouched` (no overwrite, leftovers of others kept) |
| `apply_patch` | 2 calls (1 sudo) on two files, update then add or delete, 2 spins, a stranger, locks that age | `ReportsAreTrue` (and planned before written), `ReplacedWhole` (nothing torn, nothing added over), edits lost only by a stolen lock, no leftovers; calls end |
| `apply_patch_lock` | violation, 3 updates of one file, no ageing | the EXIT trap of a call without the lock frees the lock of another; an applied edit is lost |
| `algorithms` | block 2, name field 3, prefix 4, 1 size digit; chunk 2, read limit 6; patches to 4 lines of any kind or 6 of updates, texts to 3 lines, hunks to 2, trees to 3 nodes, logs to 8 bytes | exactly the grammar, with every section and hunk in order and all their lines; a hunk changes its one place and can be reversed unless the text gained a final newline, a tree survives its archive, a cut one is refused, extraction and joins stay below their root, one key for the spellings that are one place from every directory, tails are whole lines |

Several properties are conjunctions of named parts, and the runs check the conjunction. Each has a
mutant of the code in the module, and each part one too where the module defines a second. The type
invariants, `NoRouteAfterClose` of `Transport`, `SlotsConserved` of `Commands`, `NoTaskLeftBehind`
and `CompletedMeansInstalled` of `TransferJob` and `ImplementsAtMostOnce` of `ApplyPatch` are proved
instead of run.

Why these bounds. The recovery task and a caller are an owner and a waiter in either order, and each
may come late; two faults let a route fail, be replaced and fail again, which is what a stale
generation needs. What a third task could add to safety is in the proofs, for any number. Two
commands are enough for one to hold the su shell while another meets the empty slot, and the
background start is the third caller of two slots, so whoever comes last waits for a permit; two
requests, for one to sit on the session mutex while the other waits for it (each has a slot there:
the wait for a slot is the one of `commands`, on the same semaphore). A queue of one is full after
one chunk, and three chunks in and two out keep both queues full with more to come. Two checks and
one restart are the least that installs two shared states. Three transfers are a holder, one that is
refused and one that comes after the release. `Staging` is one transfer because the reservation
(`OneWriter`) keeps a second one of this server away; leftovers and the stranger stand for all
others. Two patch calls and an ageing lock are a holder and a thief; three are needed where nobody's
lock ages, or where a lock removed under its owner is stamped by that owner for the next one; the
proofs are for any number of calls. `Staging` has no bound but the four transports: its run is
complete. In `algorithms` every field limit, block boundary and read limit is met exactly, missed by
one and exceeded. No run uses symmetry: most check liveness too, and the actors of the others play
different parts.

The three violations are disagreements between a comment or document and the code; PROJECT.json
quotes both sides. Others were met and have no run:

- A command that finds the su shell in use by another runs on a plain channel without elevation
  (`ssh/command.rs:252`), although the comment above says what elevated mode promises (227).
- The PID probe of `check_process` through the su shell always gets an answer with exit code 0, so
  it says "running" of a process that is over until the streamer or a restart says otherwise.
- A cancelled foreground put whose commit has been sent is still committed by the remote side when
  the grace is over (`transfer/mod.rs:324`); README.md:544 says otherwise.
- A transfer command dropped while it holds the su shell takes it along, and the elevation flag
  stays.
- The answer on the remote `timeout` command is kept when the connection is replaced, although the
  comment of `use_timeout_wrapper` promises a new check.
- A check that waits for longer than the retention of one hour answers with its old "running"
  snapshot when the job ended and was pruned meanwhile.
- A tar entry "." is refused, although a comment of `tar.rs` says that it is skipped; and a file of
  8^11 bytes or more loses the upper digits of its size in the header (`TarRoundTrip`, a part of
  `TarExact`, is about the files that fit).
- A file without a final newline gains one when a hunk makes its last line empty (`patch.rs:343`),
  and no turned patch takes it away.
- A stopped or failing raw stream may send EOF after a part of the input; `EofMeansAll` excepts it.
- With overwrite, a directory that somebody puts at the destination during the commit takes the
  stage or the backup inside of it (`Staging` above).
- A relative and an absolute spelling of one remote path, and local paths as given, are different
  destination keys, so two transfers can write one destination.
- An exec-raw put_dir whose input was cut may be committed by the remote shell while the call
  reports an error.

The refusal of RouterOS when elevation is configured (`HasElevation`) is in no run; the proofs
cover it, and it takes the way of a failed dial.

## Fairness

`Transport`: tokio polls a ready task and its mutexes are FIFO, so a task whose next step keeps
becoming possible takes it (strong fairness of its steps); the recovery loop calls in every five
seconds; `close`, once begun, goes on; a task that was cancelled by the shutdown token returns.
Failures, new calls and the beginning of `close` are never owed.

`Commands`: strong fairness of each command's steps for the same reason, of publication because
`RouteRecovers` holds of `Transport`, and of the retirement of a dead route. It also assumes that
the remote side ends every wait: with the remote `timeout` wrapper the code has no deadline of its
own, and only keepalive on POSIX routes turns a dead peer into a closed transport.

`BackgroundJob`: weak fairness of the streamer; the process, the channel, the checks and the client
owe nothing. The exit status is not owed, nor EOF, nor CLOSE: `ExitIsNoticed` begins when the status
was heard or the channel is over. That the 200 ms after a status run out assumes that the channel
falls silent, since each output starts them again.

`TransferJob`: only local timers and the scheduler. A handler gets the lock of the task list, a
spawned task is polled, the deadline and the grace fire, `shutdown` goes on once begun. Neither the
remote side nor the local client process owes an answer, and the abort after ten seconds is not
needed for the second half of `TransfersSettle`.

`RouterosExec`: the owner task is polled, its budgets elapse, a request meets its deadline. The
session mutex is FIFO, hence strong fairness of `Retire`. The peer owes nothing, not even the
confirmation of an OPEN: every answer and every slot comes from local timers.

`RawStream`: the deadline or token, the close budget, the unwinding of the call, and the poll of a
task that was aborted or whose queue is gone. Neither the peer nor the local reader and writer
owe anything.

`ApplyPatch`: a call goes on or gives up by the timeout of its remote command, and a script goes
on or dies. Nobody owes the release of a lock, and none of the spins is owed its success.

`Staging` and `Algorithms` state safety only: that a transfer ends is
`TransfersSettle` of `TransferJob`.

## Proofs

`TransportProofs` proves, for any finite or infinite set of tasks and any bounds, from
`TransportAssumption` alone: `TypeCorrect`, `SingleOwner`, `ProbeCacheIsCurrent`,
`PlatformIsFrozen`, `PingsArePosix` (together `RouteBeliefsAreTrue`), `CloseIsFinal`,
`HealthyRouteIsKept`, and `TransportImplementsRoute`.

The safety properties are not inductive by themselves. `IndInv` adds what ties a task's place to
the shared state: who stands where holds which lock (`LockInv`); every captured or published
generation is below the counter, and the owner's candidate is newer than all published ones
(`GenerationInv`); an owner who dials or publishes sees an empty slot (`SlotInv`), which is where
`OwnerInvalidate` matters; a route's and a pinging task's platform is the frozen one
(`PlatformInv`, `PingInv`); and whoever is about to invalidate a generation has a reason recorded
in `blamed` or names a route that is closed or gone (`BlameInv`). `Inductive` goes through the
actions one by one. The action property and the refinement follow from the invariant: only
`Publish`, `Invalidate` and `close` touch the slot, and the invariant says in which state they
find it.

`TransferJobProofs` proves, for any sets of transfers, destinations and checks, from
`TransferAssumption` alone: `TypeCorrect`, `SingleWriter`, `CompletionIsTrue`, `JobsStayPollable`,
`ShutdownJoinsTasks` and `TransfersReplaceAtMostOnce`. Its `IndInv` adds the holder of each
reservation (`HoldInv`); that a client's copy is whole when its commit begins and that orphaned
commits belong to transfers that are over (`CommitInv`), without which a transfer at work and its
orphan could both install; that a job is registered from its first step until its retention is over
(`RegistryInv`); and that the handle of a running task is in the list, or with a shutdown that is
draining (`HandleInv`). The ways out of a transfer share `EndHolds`, whose two uses are the return
and the dropped future. The refinement needs `ResultInv` too: a result is there only when the
transfer is over, what a client has installed is whole, and so is the stage of a commit that goes on
alone (`CommitsWhole`). Then the three steps that matter are those of `AtMostOnce` (`Install` and `OrphanInstalls`
happen, `FinishWith` tells), and all others are quiet.

`CommandsProofs` proves, for any set of commands and any number of slots, from
`CommandsAssumption` alone: `TypeCorrect`, `SlotsAreConserved`, `PayloadsAreNotReplayed`,
`SuStateFollowsRoute`, `ShellsAreNotShared` and `ElevationHasShell` (together `SuShellsAreSound`).
`SlotInv` says that permits and
holders add up, as the size of a finite set of holders; `AfterInv` ties where a command goes after
elevation or wrapper detection to what it has captured; `DeliveryInv`, that nothing was delivered
before the send except the wrapped form in a fallback run, without which `NoReplay` says nothing
about the step that sends; `SuInv` and `ShellInv`, that a shell is in its slot or with one command
that uses it on the shell's own route, and that no identity is given twice.

`RouterosExecProofs` proves, for any set of requests, from `RouterosAssumption` alone:
`TypeCorrect`, `NotStartedNeverRuns`, `SuccessHasStatus` (together `AnswersHold`), `NoStrayChannel`,
`RetiresOnlyItsRoute` and `RequestsRunAtMostOnce`. `BeforeExec` and `OpenInv` say what is at the
peer before the EXEC; `CollectInv`, that `may_have_run` follows the EXEC; `AnswerInv`, that an
answer given early binds every later step of the owner: whoever was told "not started" has a stop
that the owner sees before it executes; `ChannelInv`, which channels are open at the peer for which
place. The refinement adds no invariant: `AnswerInv` is what lets the peer start a queued EXEC after
any answer but "not started" (`StartStep`), and each answer is the first (`AnswerStep`).

`BackgroundJobProofs` proves, for any set of checks and any number of restarts, from
`BackgroundJobAssumption` alone: `TypeCorrect`, `OutcomesAreTrue`, `ToldJobsAreOnDisk`,
`RestingFilesParse`, `OutcomeStaysOnDisk` (together `DiskIsReliable`) and `TerminalIsForever`.
`TruthInv` extends the claim to what checks and writers carry between two steps; `ReferenceInv` says
who works on the job has a reference to a state that is there; `FileInv`, that the file precedes the
acknowledgement, and that whatever is written after the streamer's last write is terminal;
`KnownInv`, that until a restart nobody carries anything but running, lost and the streamer's own
outcome, which is why nothing else can be in the file at last; `WriterInv`, that a writer who was
alone when it opened the file is alone until it writes, and finds it empty.

`RawStreamProofs` proves, for every length of the input and every capacity of the queues, from
`RawAssumption` alone: `TypeCorrect`, `EofFollowsInput` and `OkFollowsDrain`. `FlowInv` counts the
chunks: those not read, in the hands of the call, in the queue, in the hands of the task and handed
over are all of the input while neither side was stopped or is over. `SenderInv` says when the
sender of the queue is dropped; together they say that an empty queue without a sender means that
all was handed over. `OkFollowsDrain` looks at the other direction. `OutputInv` says that what is
written, in the output queue, in the hands of the task and on the wire is all that the peer has
sent, and that its exit status is in exactly one of these places until the call has it; a chunk is
counted by how often its event occurs in a sequence (`Count`, with lemmas for the empty sequence,
`Append` and `Tail`). `EndInv` says that the task ends well only with an empty wire, and that the
call succeeds only after the task ended well and the queue gave its last event.

`ApplyPatchProofs` proves, for any set of calls, any patches, any number of spins and strangers,
from `PatchAssumption` alone: `TypeCorrect`, `ReportsHold`, `TargetsReplacedWhole`, `EditsSurvive`
and `NothingLeft`. `IndInv` has a part for each call (`Local`) and one for each path. `ReportInv`
says that the sections before the one a call is at are applied or unchanged and those after it
untouched; `ScriptInv`, that a script's verdict is what it did; `StageInv`, where a staged file or a
payload can be. `Excludes` is what the lock directory is worth: as long as none was removed under
its owner, whoever is between lock and replacement is its owner, and only that one stamps it.
`FileInv` rests on it: what a script has compared is still there when it replaces it, so the new
content has all edits of the old. A step of one call leaves the parts of all others alone
(`LocalFrame`), and most leave the host alone too (`HostFrame`). `SectionsReplacedAtMostOnce` needs
nothing more: `ReportInv` makes each report the first of its section, and says of a script whose
call has gone that its section was called unknown, which is what `AtMostOnce` wants of a late
effect.

`StagingProofs` proves, for every set of transports, from the module's assumption alone:
`TypeCorrect`, `OldSurvives`, `ResultsHold` and `OthersStay`. The order of the phases is a sequence
put together from conditional pieces (`Plan`); `PhaseFollows` is all the proof knows of it: what may
come after each phase. It is proved by joining linked pieces (`JoinLinked`, `StepLinked`). The
invariant then says, for each phase, who owns which name: the destination is as it was until the
commit (`BeforeInv`), except for a directory built in its place (`InPlaceInv`); the stage is ours
from its preparation and whole at the commit, or swept away by a caller who has left (`StageInv`);
while a directory is exchanged what was there is under the backup's name (`BackupInv`); and what a
worker that ends leaves is what its answer will say (`EndInv`). A destination that is removed for a
second rename is one of a download of a file with overwrite, and nothing else of the invariant gives
it up (`BeforeInv`). Without `StageInv` an install could
put a part in place of the old content, and without `BackupInv` a rollback could have nothing to
bring back. `OthersStay` is an action property that follows from the same invariant: only a worker
that owns a path writes to it.

The algorithms are proved for inputs of any size. Their theorems are in `ApplyPatchProofs`
(patches) and `TransferJobProofs` (paths, logs, archives), which extend `Algorithms` beside the
component they belong to (its specification is `AlgSpec` for that reason), and each uses only the
assumptions on the inputs named below. The invariants are simple (`UpdateInv`, `ParseInv`,
`PathInv`, `TailInv`, `TarInv`: the output is none, or what the function gives for the input), and
all of the work is about the functions. Induction over the number of turns comes from the
well-foundedness of `<` on the natural numbers: a set of numbers that is not empty has a least one
(`Least`), so what holds at 0 and is kept by every turn holds at every turn (`Climb`).

`ParserAlwaysExact` (from `PatchLines`): `InOrder` is the one ascending enumeration of a finite
set, because the place of a member is an injection into as many numbers (`PlaceGrows`, `InOrderIs`,
`InOrderOnly`). So the pieces cover all lines, each once, and none has a header or a marker but its
first line (`PiecesIs`). From there each function of the parser says what it takes and what it
makes of it (`ParseHunkIs`, `ParseUpdateIs`, `ParseSectionIs`, `ParsePatchIs`), first by positions
in its own piece and then by positions in the patch (`HunksStand`, `UpdateStands`,
`SectionOkStands`). The header a line belongs to is where its section begins (`OwnerIs`); with it
the sections are in order exactly when every line may stand where it does (`SectionByLine`,
`SectionsByLine`).

`HunksAlwaysExact` (from `UpdateInputs`): a hunk that does not fail went to its one place
(`ApplyHunkWent`) and leaves the text in three parts of which only the middle one is new
(`WentLeaves`). There the hunk turned around has its old lines, so when it applies it has no other
place and gives the text back (`TurnedRestores`); `HunksRestore` goes over the hunks, the last one
first. Where the new last line is empty the text ends in a newline it may not have had: `JoinCases`
and `JoinKeepsNewline` say when, and `UpdateRestores` has both directions, since turned hunks take
no newline away.

`PathsAlwaysExact` (from `PathInputs`): the key of an absolute path is the place it names
(`NormalAbsolute`); that of a relative one is a number of ".." and then names (`NormalRelative`),
and two such keys are equal only if both parts are (`UpsSame`). Followed from a directory, the
first part cuts that many names off it and the second is appended, so equal keys are one place from
everywhere; from the deep directory different ones are different places (`CutSame`). An absolute
and a relative path never agree there (`PlacesApart`). `safe_join_local_root` is a comparison of
prefixes of such places (`JoinIs`).

`TailAlwaysExact` (from `ReadBounds` and `LogInputs`): the position before each turn is the end
less whole chunks (`EndIs`, `ChunksFit`), the buffer is what lies after it, and the loop ends at
the first position with enough newlines, at the limit or at the beginning (`ReadBackEnds`); in each
case the last lines of the buffer are those of the part that may be read (`TailIs`).

`TarAlwaysExact` (from `TarConstants`, `StreamInputs` and `TreeInputs`): whatever the stream, every
turn of the reader adds only plain names below the root whose parents are directories it made
(`ExtractEntryStays`). The writer has a next entry as long as one is left, because the order of the
directory walk is strict on a finite set (`ForemostIs`). An entry that was written is read back
whole whatever follows it (`EntryRead`), no beginning of what was sent so far is accepted
(`OneEntryMore`, `BrokenOff`), and the whole trailer ends the archive (`TrailerRead`);
`FramesSound` climbs over the entries with both claims at once, since a cut inside an entry is
refused only because those before it were read to their ends.

Only model-checked: the liveness properties (`WaitersWake`, `RouteRecovers`, `ShutdownQuiesces`,
`CommandsFinish`, `ExitIsNoticed`, `TransfersSettle`, `RequestsSettle`,
`StreamEnds`, `CallsEnd`), since fairness and ENABLED are outside of the prover. Every invariant,
every action property and every refinement of the passing runs is proved.

## Plan

Next, in this order:

1. An abstract job (running, then one terminal state) and `BackgroundJob` shown to implement it, and
   the proof of that.
2. `HostKey` (two learners of one known_hosts file) and the bounded read of identification.
3. Output limits of command collection, backoff and TTL arithmetic with explicit widths.
4. `Lifecycle`: readiness, recovery, signal, order of shutdown, on the abstract route.

## Not modelled

- Output limits: truncation of collected text; no state outlives the call.
- Environment snapshot: one probe before serving, then frozen; its work is parsing text.
- Identification and host keys: their result is an input of `DialTarget` and of a failed dial.
- Process lifecycle: what interacts is in `Transport` (recovery task, close) and `TransferJob`
  (drain of the tasks); the start-up around it is sequential.
- Transfers: detection of local clients at start-up, pipes and argument lists of client processes,
  walking of local trees.
- Background jobs: the marker handshake that yields the PID, cleanup of old logs.
- Argument schemas, validation, escaping, configuration and logging are stateless or happen once.

The wire protocol of russh is external: a handle is alive or closed, a ping is answered or not, a
channel opens or does not.
