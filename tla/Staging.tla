------------------------------- MODULE Staging -------------------------------
(***************************************************************************)
(* How one transfer turns its source into the destination: the four        *)
(* operations of src/transfer/skeleton.rs with the remote scripts of       *)
(* staging.rs (transports sftp, scp and rsync), their one-script exec-raw  *)
(* forms, and the local staging of downloads (exec_raw.rs).                *)
(*                                                                         *)
(* The `worker' prepares, copies and commits.  For a download it is the    *)
(* local future.  For an upload it is a remote shell: the local side waits *)
(* for its answer, may lose it, and then the shell may go on or die at any *)
(* of its commands.  Somebody else may create the destination once.        *)
(* Contents are: nothing, what was there before ("old", or "other" for a   *)
(* directory in the place of a file), a stranger's ("foreign"), a leftover *)
(* at a sibling name ("junk"), and a part or all of the source.  Removing a *)
(* tree is one step.                                                       *)
(***************************************************************************)
EXTENDS Integers, Sequences

CONSTANT Vias       \* the transports

ASSUME ViaAssumption == Vias \subseteq {"raw", "sftp", "scp", "rsync"}

VARIABLES
    op,             \* what was asked for; given: with its kind; jump: over a jump host
    was,            \* the destination when the transfer began
    dst, stage, backup,
    at,             \* where the worker is
    had,            \* had_dst, had_destination
    cut,            \* the input ended early and the remote shell was not told
    failed,         \* the worker ends with an error
    kept,           \* the error says that the backup is retained
    gone,           \* the local side does not wait for the worker any more
    result,         \* what the caller is told
    sweep,          \* a best-effort rm of the stage is on its way
    stranger,       \* somebody else has created the destination
    nested,         \* history: mv or scp put something of ours inside the stranger's directory
    unlinked        \* history: the destination was removed to make room for a rename

paths == <<dst, stage, backup>>
mishaps == <<nested, unlinked>>
vars == <<op, was, paths, at, had, cut, failed, kept, gone, result, sweep, stranger, mishaps>>

Ops == [put : BOOLEAN, dir : BOOLEAN, over : BOOLEAN, via : Vias, given : BOOLEAN,
        jump : BOOLEAN]

Contents == {"none", "old", "other", "foreign", "junk", "part", "full"}

(* phases that only look, and may refuse *)
CheckPhases == {"home", "kind", "config", "paths", "probe", "ssh", "client", "peer",
                "source", "size", "sync", "count"}

WorkerPcs == CheckPhases \cup
    {"prepare", "reset", "copy", "check", "commit", "unlink", "again", "install", "rollback",
     "unbackup", "clean", "end", "dead"}

TypeOK ==
    /\ op \in Ops
    /\ was \in {"none", "old", "other"}
    /\ dst \in Contents \ {"junk"}
    /\ stage \in {"none", "junk", "part", "full"}
    /\ backup \in {"none", "junk", "old", "other", "foreign"}
    /\ at \in WorkerPcs
    /\ had \in BOOLEAN /\ cut \in BOOLEAN /\ failed \in BOOLEAN /\ kept \in BOOLEAN
    /\ gone \in BOOLEAN /\ sweep \in BOOLEAN /\ stranger \in BOOLEAN
    /\ nested \in BOOLEAN /\ unlinked \in BOOLEAN
    /\ result \in {"none", "ok", "err"}

Init ==
    /\ op \in Ops
    /\ was \in {"none", "old"} \cup (IF op.dir THEN {} ELSE {"other"})
    /\ dst = was
    /\ stage \in {"none"} \cup (IF op.put THEN {"junk"} ELSE {})
    /\ backup \in {"none", "junk"}
    /\ at = "home"
    /\ had = FALSE /\ cut = FALSE /\ failed = FALSE /\ kept = FALSE
    /\ gone = FALSE /\ result = "none" /\ sweep = FALSE /\ stranger = FALSE
    /\ nested = FALSE /\ unlinked = FALSE

-----------------------------------------------------------------------------
(* Helpers *)

(* a directory with overwrite=false is built in its place *)
InPlace == op.dir /\ ~op.over

(* uploads that are one remote script with a trap *)
OneScript == op.put /\ op.via = "raw"

Target == IF InPlace THEN dst ELSE stage

Step(condition, phase) == IF condition THEN <<phase>> ELSE <<>>

(* What is done one after the other, for each operation and transport.     *)

(* run_inner, and the kind if the caller does not give one *)
RunInner == <<"home">> \o Step(~op.given, "kind")

(* a kind that the caller gives is compared with the remote path's *)
ProbeKind == Step(~op.put /\ op.given, "probe")

RunExecRaw == <<"paths">> \o ProbeKind

RunOpenSsh == <<"config", "paths">> \o ProbeKind

RunRsync == <<"config", "paths">> \o ProbeKind

OpenSshPreflight == Step(op.jump, "ssh") \o <<"client">>

RsyncPreflight == Step(op.jump, "ssh") \o <<"client", "peer">>

PutFileStaged == <<"source", "prepare", "copy", "commit">>

GetFileStaged == <<"prepare", "copy", "size", "commit">>

PutDirStaged ==
    <<"source", "prepare">> \o Step(op.via = "scp", "reset") \o <<"copy">>
        \o Step(op.over, "commit")

GetDirStaged ==
    <<"source", "prepare">> \o Step(op.via = "scp", "reset") \o <<"copy", "count">>
        \o Step(op.over, "commit")

PutFileExecRaw == <<"source", "prepare", "copy", "check", "commit">>

GetFileExecRaw == <<"prepare", "copy", "sync", "check", "commit">>

PutDirExecRaw == <<"source", "prepare", "copy", "check">> \o Step(op.over, "commit")

GetDirExecRaw == <<"prepare", "copy", "check">> \o Step(op.over, "commit")

Dispatch(putFile, getFile, putDir, getDir) ==
    IF op.dir THEN IF op.put THEN putDir ELSE getDir
              ELSE IF op.put THEN putFile ELSE getFile

Staged == Dispatch(PutFileStaged, GetFileStaged, PutDirStaged, GetDirStaged)

Plan ==
    RunInner \o
    CASE op.via = "raw" ->
            RunExecRaw \o Dispatch(PutFileExecRaw, GetFileExecRaw, PutDirExecRaw,
                                   GetDirExecRaw)
      [] op.via \in {"sftp", "scp"} -> RunOpenSsh \o OpenSshPreflight \o Staged
      [] op.via = "rsync" -> RunRsync \o RsyncPreflight \o Staged

(* the phase after p; no phase occurs twice in a plan *)
After(p) ==
    LET i == CHOOSE k \in 1 .. Len(Plan) : Plan[k] = p
    IN  IF i = Len(Plan) THEN "end" ELSE Plan[i + 1]

(* what the local side drives: all of a download; of an upload the looking *)
(* and, if it is staged, the copy and the cleanup between its scripts      *)
LocalPcs ==
    IF ~op.put THEN WorkerPcs
    ELSE CheckPhases \cup (IF OneScript THEN {} ELSE {"copy", "clean"})

(* the next step is taken if there is still somebody to take it *)
Goto(p) ==
    at' = IF gone /\ ~OneScript /\ p \in LocalPcs \cup {"reset", "commit"}
          THEN "dead" ELSE p

(* an error before the worker owns anything, and one after *)
Fail == Goto("end") /\ failed' = TRUE
FailOwning == Goto("clean") /\ failed' = TRUE

SetTarget(c) == IF InPlace THEN dst' = c /\ UNCHANGED stage
                           ELSE stage' = c /\ UNCHANGED dst

unasked == <<op, was, gone, result, sweep, stranger>>

-----------------------------------------------------------------------------
(* The worker *)

(* a look that may refuse; nothing is written by it *)
CheckAt(phase) ==
    /\ at = phase
    /\ \/ Goto(After(at)) /\ UNCHANGED failed
       \/ Fail
    /\ UNCHANGED <<unasked, mishaps, paths, had, cut, kept>>

ResolveHome == CheckAt("home")
ResolveKind == CheckAt("kind")
RequireKeys == CheckAt("config")

(* inside local_root and free of symlinks; a download's parents are made   *)
ValidateLocalPaths == CheckAt("paths")

ProbeRemoteKind == CheckAt("probe")
CheckLocalSsh == CheckAt("ssh")
CheckClient == CheckAt("client")
CheckRemoteRsync == CheckAt("peer")

(* the kind of the source, its entries if it is a directory *)
CheckSource == CheckAt("source")

(* an error of the metadata, flush or sync of a downloaded file leaves the *)
(* stage behind                                                            *)
LookAtStage == CheckAt("size") \/ CheckAt("sync")

(* a downloaded directory is counted, and refused if it holds a symlink    *)
CountDir ==
    /\ at = "count"
    /\ \/ Goto(After(at)) /\ UNCHANGED failed
       \/ FailOwning
    /\ UNCHANGED <<unasked, mishaps, paths, had, cut, kept>>

(* the stage is created exclusively; a download tries up to 128 names      *)
Prepare ==
    /\ at = "prepare" /\ ~InPlace
    /\ IF stage = "junk"
       THEN Fail /\ UNCHANGED stage
       ELSE \/ Goto(After(at)) /\ stage' = "part" /\ UNCHANGED failed
            \/ Fail /\ UNCHANGED stage
    /\ UNCHANGED <<unasked, mishaps, dst, backup, had, cut, kept>>

(* mkdir of the destination itself, which must not exist *)
PrepareInPlace ==
    /\ at = "prepare" /\ InPlace
    /\ IF dst # "none"
       THEN Fail /\ UNCHANGED dst
       ELSE \/ Goto(After(at)) /\ dst' = "part" /\ UNCHANGED failed
            \/ Fail /\ UNCHANGED dst
    /\ UNCHANGED <<unasked, mishaps, stage, backup, had, cut, kept>>

(* scp -r wants a name that does not exist: what was prepared is removed   *)
ResetScp ==
    /\ at = "reset"
    /\ SetTarget("none")
    /\ \/ Goto(After(at)) /\ UNCHANGED failed
       \/ FailOwning
    /\ UNCHANGED <<unasked, mishaps, backup, had, cut, kept>>

(* the client ends with status 0 and everything is there; or it fails, or  *)
(* is killed at the deadline or on cancellation.  scp copies into a        *)
(* directory that appeared at its target meanwhile                         *)
ClientRuns ==
    /\ at = "copy"
    /\ \/ /\ SetTarget(IF Target = "foreign" THEN "foreign" ELSE "full")
          /\ Goto(After(at)) /\ UNCHANGED failed
       \/ /\ SetTarget(IF Target = "foreign" THEN "foreign" ELSE "part")
          /\ FailOwning
    /\ nested' = (nested \/ Target = "foreign")
    /\ UNCHANGED <<unasked, unlinked, backup, had, cut, kept>>

OpenSsh == op.via \in {"sftp", "scp"}

OpenSshPutFile == OpenSsh /\ op.put /\ ~op.dir /\ ClientRuns
OpenSshGetFile == OpenSsh /\ ~op.put /\ ~op.dir /\ ClientRuns
OpenSshPutDir == OpenSsh /\ op.put /\ op.dir /\ ClientRuns
OpenSshGetDir == OpenSsh /\ ~op.put /\ op.dir /\ ClientRuns

RsyncPutFile == op.via = "rsync" /\ op.put /\ ~op.dir /\ ClientRuns
RsyncGetFile == op.via = "rsync" /\ ~op.put /\ ~op.dir /\ ClientRuns
RsyncPutDir == op.via = "rsync" /\ op.put /\ op.dir /\ ClientRuns
RsyncGetDir == op.via = "rsync" /\ ~op.put /\ op.dir /\ ClientRuns

(* exec-raw: the whole stream, an error, or a stream that ends early, with *)
(* EOF at the peer (an upload whose input failed or was cancelled) or      *)
(* without an exit status (a download)                                     *)
RawStreams ==
    /\ at = "copy" /\ op.via = "raw"
    /\ \/ SetTarget("full") /\ Goto(After(at)) /\ UNCHANGED <<cut, failed>>
       \/ SetTarget("part") /\ Goto(After(at)) /\ cut' = TRUE /\ UNCHANGED failed
       \/ SetTarget("part") /\ FailOwning /\ UNCHANGED cut
    /\ UNCHANGED <<unasked, mishaps, backup, had, kept>>

(* what is looked at before the commit: the size in put_file's script, the *)
(* archive by extract_tar_to_dir; tar at the peer takes an archive that    *)
(* ends between two entries, and get_file compares nothing                 *)
CheckCopyOf(noticed) ==
    /\ at = "check"
    /\ IF cut /\ noticed
       THEN FailOwning
       ELSE Goto(After(at)) /\ UNCHANGED failed
    /\ UNCHANGED <<unasked, mishaps, paths, had, cut, kept>>

(* Mutant: the end of an archive is not looked for *)
CheckSizeOnly == CheckCopyOf(op.put /\ ~op.dir)

CheckCopy == CheckCopyOf(op.put # op.dir)

(* mv or rename over the destination; a local rename that does not replace *)
(* a file (Windows) makes room first                                       *)
CommitReplace ==
    /\ at = "commit" /\ ~op.dir /\ op.over
    /\ \/ /\ dst # "other" /\ stage # "none"
          /\ dst' = stage /\ stage' = "none"
          /\ Goto("end") /\ UNCHANGED failed
       \/ ~op.put /\ dst # "none" /\ Goto("unlink") /\ UNCHANGED <<dst, stage, failed>>
       \/ FailOwning /\ UNCHANGED <<dst, stage>>
    /\ UNCHANGED <<unasked, mishaps, backup, had, cut, kept>>

(* remove_file of the destination, its error ignored                       *)
ReplaceUnlink ==
    /\ at = "unlink"
    /\ \/ dst # "other" /\ dst' = "none" /\ unlinked' = TRUE
       \/ UNCHANGED <<dst, unlinked>>
    /\ Goto("again")
    /\ UNCHANGED <<unasked, nested, stage, backup, had, cut, failed, kept>>

(* the second rename; if it fails too the stage is removed                 *)
ReplaceAgain ==
    /\ at = "again"
    /\ \/ /\ dst # "other"
          /\ dst' = stage /\ stage' = "none"
          /\ Goto("end") /\ UNCHANGED failed
       \/ FailOwning /\ UNCHANGED <<dst, stage>>
    /\ UNCHANGED <<unasked, mishaps, backup, had, cut, kept>>

(* ln or hard_link to a name that must not exist, then rm of the stage     *)
CommitLinkIf(free) ==
    /\ at = "commit" /\ ~op.dir /\ ~op.over
    /\ \/ /\ free /\ stage # "none"
          /\ dst' = stage /\ stage' = "none"
          /\ Goto("end") /\ UNCHANGED failed
       \/ FailOwning /\ UNCHANGED <<dst, stage>>
    /\ UNCHANGED <<unasked, mishaps, backup, had, cut, kept>>

(* Mutant: the destination is looked at and then renamed over *)
CommitLinkChecked == CommitLinkIf(was = "none")

CommitLink == CommitLinkIf(dst = "none")

(* a directory: what is there goes to the backup name                      *)
CommitBackup ==
    /\ at = "commit" /\ op.dir
    /\ \/ dst = "none" /\ Goto("install") /\ UNCHANGED <<dst, backup, had, failed>>
       \/ /\ dst # "none" /\ backup = "none"
          /\ backup' = dst /\ dst' = "none" /\ had' = TRUE
          /\ Goto("install") /\ UNCHANGED failed
       \/ dst # "none" /\ FailOwning /\ UNCHANGED <<dst, backup, had>>
    /\ UNCHANGED <<unasked, mishaps, stage, cut, kept>>

(* the stage gets the destination's name.  The shell's mv puts it inside a *)
(* directory that appeared there; rename refuses                           *)
Install ==
    /\ at = "install"
    /\ \/ /\ dst = "none" /\ stage # "none"
          /\ dst' = stage /\ stage' = "none" /\ Goto("unbackup") /\ UNCHANGED nested
       \/ /\ dst # "none" /\ stage # "none" /\ op.put
          /\ stage' = "none" /\ nested' = TRUE /\ Goto("unbackup") /\ UNCHANGED dst
       \/ Goto("rollback") /\ UNCHANGED <<dst, stage, nested>>
    /\ UNCHANGED <<unasked, unlinked, backup, had, cut, failed, kept>>

(* the backup gets its name back, or the error names it.  The shell's mv   *)
(* puts it, too, inside a directory that appeared there, and the error     *)
(* then does not name it                                                   *)
RollBackTo(content, tried) ==
    /\ at = "rollback"
    /\ FailOwning
    /\ IF had /\ tried
       THEN \/ /\ dst = "none" /\ dst' = content /\ backup' = "none"
               /\ UNCHANGED <<kept, nested>>
            \/ /\ dst # "none" /\ op.put /\ backup' = "none" /\ nested' = TRUE
               /\ UNCHANGED <<dst, kept>>
            \/ kept' = TRUE /\ UNCHANGED <<dst, backup, nested>>
       ELSE UNCHANGED <<dst, backup, kept, nested>>
    /\ UNCHANGED <<unasked, unlinked, stage, had, cut>>

(* Mutants: the backup is removed instead; it just stays where it is *)
RollBackRemoving == RollBackTo("none", TRUE)
RollBackNever == RollBackTo(backup, FALSE)

RollBack == RollBackTo(backup, TRUE)

(* rm -rf of the backup, if there is one of ours *)
RemoveBackupIf(ours) ==
    /\ at = "unbackup"
    /\ backup' = IF ours THEN "none" ELSE backup
    /\ Goto("end")
    /\ UNCHANGED <<unasked, mishaps, dst, stage, had, cut, failed, kept>>

(* Mutant: the backup name is cleared whether or not it was used *)
RemoveBackupAlways == RemoveBackupIf(TRUE)

RemoveBackup == RemoveBackupIf(had)

(* the trap, remove_file or remove_dir_all; the rm of a staged upload is a *)
(* command of its own and may fail with its connection                     *)
Clean ==
    /\ at = "clean"
    /\ \/ SetTarget("none")
       \/ ~OneScript /\ UNCHANGED <<dst, stage>>
    /\ Goto("end")
    /\ UNCHANGED <<unasked, mishaps, backup, had, cut, failed, kept>>

-----------------------------------------------------------------------------
(* The local side *)

(* the worker's answer; a cut input is an error even if the shell went on  *)
Answer ==
    /\ at = "end" /\ ~gone /\ result = "none"
    /\ result' = IF failed \/ (cut /\ op.put) THEN "err" ELSE "ok"
    /\ UNCHANGED <<op, was, paths, at, had, cut, failed, kept, gone, sweep, stranger,
                   mishaps>>

(* the channel of an exec-raw upload is over without an exit status, and   *)
(* stderr holds stage markers only: that is taken for a success            *)
StatusMissing ==
    /\ OneScript /\ at \notin CheckPhases /\ result = "none"
    /\ gone' = TRUE
    /\ result' = IF cut \/ failed \/ at = "rollback" THEN "err" ELSE "ok"
    /\ UNCHANGED <<op, was, paths, at, had, cut, failed, kept, sweep, stranger,
                   mishaps>>

(* timeout, cancellation, lost connection or a dropped future: what the    *)
(* local side drives stops where it is.  A staged upload whose script does *)
(* not answer then tries to remove the stage, unless its future is dropped *)
GiveUp ==
    /\ result = "none" /\ at # "dead"
    /\ gone' = TRUE /\ result' = "err"
    /\ \/ sweep' = FALSE
       \/ /\ op.put /\ ~OneScript
          /\ at \in {"reset", "commit", "install", "rollback", "unbackup"}
          /\ sweep' = TRUE
    /\ at' = IF at \in LocalPcs THEN "dead" ELSE at
    /\ UNCHANGED <<op, was, paths, had, cut, failed, kept, stranger, mishaps>>

(* the shell dies with its channel, with or without running its trap       *)
WorkerDies ==
    /\ gone /\ op.put /\ at \notin CheckPhases \cup {"end", "dead"}
    /\ Goto("dead")
    /\ \/ UNCHANGED <<dst, stage>>
       \/ OneScript /\ at \in {"copy", "check", "clean"} /\ SetTarget("none")
    /\ UNCHANGED <<unasked, mishaps, backup, had, cut, failed, kept>>

(* best_effort_remote_rm_file / _dir, or it gets lost *)
Sweep ==
    /\ sweep /\ sweep' = FALSE
    /\ \/ SetTarget("none")
       \/ UNCHANGED <<dst, stage>>
    /\ UNCHANGED <<op, was, backup, at, had, cut, failed, kept, gone, result, stranger,
                   mishaps>>

(* somebody else creates a file or a directory, as ours would be *)
StrangerCreates ==
    /\ ~stranger /\ dst = "none"
    /\ stranger' = TRUE /\ dst' = "foreign"
    /\ UNCHANGED <<op, was, stage, backup, at, had, cut, failed, kept, gone, result,
                   sweep, mishaps>>

Finished ==
    /\ result # "none" /\ at \in {"end", "dead"} /\ ~sweep
    /\ UNCHANGED vars

Copies ==
    \/ OpenSshPutFile \/ OpenSshGetFile \/ OpenSshPutDir \/ OpenSshGetDir
    \/ RsyncPutFile \/ RsyncGetFile \/ RsyncPutDir \/ RsyncGetDir \/ RawStreams

Worker ==
    \/ ResolveHome \/ ResolveKind \/ RequireKeys \/ ValidateLocalPaths
    \/ ProbeRemoteKind \/ CheckLocalSsh \/ CheckClient \/ CheckRemoteRsync
    \/ CheckSource \/ LookAtStage \/ CountDir
    \/ Prepare \/ PrepareInPlace \/ ResetScp \/ Copies
    \/ CheckCopy \/ CommitReplace \/ ReplaceUnlink \/ ReplaceAgain \/ CommitLink
    \/ CommitBackup \/ Install \/ RollBack \/ RemoveBackup \/ Clean

Next ==
    \/ Worker \/ Answer \/ StatusMissing \/ GiveUp \/ WorkerDies \/ Sweep
    \/ StrangerCreates \/ Finished

Spec == Init /\ [][Next]_vars

-----------------------------------------------------------------------------
(* Properties *)

(* exec-raw commits a cut copy in two cases: tar at the peer, and get_file *)
CutUnnoticed == cut /\ op.put = op.dir

(* scp of a directory with overwrite=false removes the destination it has  *)
(* just created and lets scp create it again                               *)
ScpWindow == InPlace /\ op.via = "scp"

(* a local rename did not replace the file: it was removed first, and the  *)
(* whole source waits for the second rename or went with its failure       *)
MadeRoom == unlinked /\ (stage = "full" \/ failed)

(* What was at the destination is never lost on the way: at every moment,  *)
(* whichever rename fails and whoever dies between two of them, it is in   *)
(* its place or under the backup name, or the whole source is in its       *)
(* place.  It can be lost in three ways only: by a cut copy that exec-raw  *)
(* does not notice, by a mv or scp into a stranger's directory, and where  *)
(* a local rename does not replace files, until and if the second fails.   *)
OldNeverLost ==
    \/ was = "none"
    \/ was \in {dst, backup}
    \/ dst = "full"
    \/ CutUnnoticed \/ nested \/ MadeRoom

(* What the caller is told is so.  A success has put the whole source in   *)
(* place, unless a cut copy went unnoticed, it went inside a stranger's    *)
(* directory or the script's exit status is missing.  A failure with an    *)
(* answer leaves the destination as it was, or to the stranger who took    *)
(* the name: the commit was refused or rolled back, or the error names the *)
(* backup, which then still holds the old tree.  A directory built in      *)
(* place may stay there.  Excepted are a rollback into a stranger's        *)
(* directory and a file removed for a rename that then failed.             *)
ResultIsTrue ==
    /\ result = "ok" => dst = "full" \/ CutUnnoticed \/ nested \/ gone
    /\ result = "err" /\ ~gone /\ ~cut =>
          \/ dst \in {was, "foreign"} /\ (had => dst = was \/ backup = was)
          \/ kept /\ backup = was
          \/ InPlace /\ dst \in {"part", "full"}
          \/ nested \/ unlinked

(* Nothing that is not this transfer's is ever touched, by cleanups and    *)
(* traps neither: without overwrite what was at the destination or what    *)
(* somebody else puts there at any moment (scp's own window excepted), and *)
(* a leftover at the stage's or the backup's name.                         *)
OthersUntouched ==
    [][/\ ~op.over /\ dst \in {"old", "other", "foreign"} /\ ~ScpWindow => dst' = dst
       /\ stage = "junk" => stage' = "junk"
       /\ backup = "junk" => backup' = "junk"]_vars
=============================================================================
