----------------------------- MODULE ApplyPatch ------------------------------
(***************************************************************************)
(* apply_patch and sudo_apply_patch: server/handlers/apply_patch.rs and    *)
(* file_edit_common.rs.  A call plans every section on a snapshot of its   *)
(* file, then commits the changed ones in order, each by one remote script *)
(* (`sp') that stages the new content, takes a lock directory beside the   *)
(* target, compares the target with the snapshot and replaces it.  When    *)
(* the call gives up, its script goes on or dies without it.               *)
(*                                                                         *)
(* A file's content is the set of edits in it, so what a hunk does to the  *)
(* text (module Algorithms) is left out here, and equal hashes mean equal  *)
(* contents.  Files are replaced, never written in place, by everybody.    *)
(***************************************************************************)
EXTENDS Naturals, Sequences

CONSTANTS
    Calls,
    Paths,
    Sections,       \* the sections of each call's patch: [path, op]
    Sudo,           \* the calls of sudo_apply_patch
    MaxSpins,       \* FILE_EDIT_LOCK_MAX_SPINS (20 in the code)
    Strangers,      \* paths another program replaces once, at any time
    MayAge,         \* a lock may get older than FILE_EDIT_LOCK_STALE_AFTER_SECS
    Nobody

ASSUME PatchAssumption ==
    /\ Nobody \notin Calls /\ MaxSpins \in Nat \ {0}
    /\ Strangers \subseteq Paths /\ Sudo \subseteq Calls /\ MayAge \in BOOLEAN
    /\ Sections \in [Calls -> Seq([path : Paths, op : {"add", "update", "delete"}])]
    /\ \A c \in Calls :
          /\ Sections[c] # <<>>
          /\ \A i, j \in DOMAIN Sections[c] :
                Sections[c][i].path = Sections[c][j].path => i = j

VARIABLES
    file,           \* content of each target
    lock,           \* its lock directory
    pc, at,         \* the call and the section it is at
    plan,           \* prepared: what each section expects and writes
    status,         \* what the call reports of each section
    sp,             \* its remote script
    stage, spins,   \* the script's staged file, and how often it found the lock taken
    verdict,        \* how it exited: 0, with a marker, nonzero without one
    payload,        \* the private copy of a sudo call is in /tmp
    cut,            \* calls that lost an answer, or their script
    did,            \* sections whose target the call's script replaced
    stolen,         \* paths whose lock was removed under a running script
    strangers       \* paths still to be replaced by the other program

callVars == <<pc, at, plan, status>>
scriptVars == <<sp, stage, spins, verdict, payload>>
ghosts == <<cut, did, stolen>>
vars == <<file, lock, callVars, scriptVars, ghosts, strangers>>

Edits == Calls \cup {Nobody}
Contents == [there : BOOLEAN, whole : BOOLEAN, edits : SUBSET Edits]
Text(edits) == [there |-> TRUE, whole |-> TRUE, edits |-> edits]
Missing == [there |-> FALSE, whole |-> TRUE, edits |-> {}]
Unlocked == [owner |-> Nobody, stamped |-> FALSE, stale |-> FALSE]

Op(c) == Sections[c][at[c]].op
Path(c) == Sections[c][at[c]].path

TypeOK ==
    /\ file \in [Paths -> Contents]
    /\ lock \in [Paths -> [owner : Edits, stamped : BOOLEAN, stale : BOOLEAN]]
    /\ \A p \in Paths : lock[p].owner = Nobody => lock[p] = Unlocked
    /\ pc \in [Calls -> {"prepare", "commit", "run", "await", "done"}]
    /\ \A c \in Calls :
          /\ at[c] \in DOMAIN Sections[c]
          /\ plan[c] \in Seq([expected : Contents, new : Contents, changed : BOOLEAN])
          /\ status[c] \in [DOMAIN Sections[c] ->
                {"not_attempted", "unchanged", "applied", "failed", "unknown"}]
          /\ did[c] \subseteq DOMAIN Sections[c]
    /\ sp \in [Calls -> {"none", "start", "hash", "lock", "reclaim", "reclaim_rmdir",
                         "stamp", "check", "replace", "clean", "clean_rmdir",
                         "exited", "dead"}]
    /\ stage \in [Calls -> {"none", "part", "whole"}]
    /\ spins \in [Calls -> 0..MaxSpins]
    /\ verdict \in [Calls -> {"none", "ok", "marker", "silent"}]
    /\ payload \in [Calls -> BOOLEAN] /\ cut \subseteq Calls
    /\ stolen \subseteq Paths /\ strangers \subseteq Strangers

Init ==
    /\ file \in [Paths -> {Missing, Text({})}]
    /\ lock = [p \in Paths |-> Unlocked]
    /\ pc = [c \in Calls |-> "prepare"] /\ at = [c \in Calls |-> 1]
    /\ plan = [c \in Calls |-> <<>>]
    /\ status = [c \in Calls |-> [i \in DOMAIN Sections[c] |-> "not_attempted"]]
    /\ sp = [c \in Calls |-> "none"] /\ stage = [c \in Calls |-> "none"]
    /\ spins = [c \in Calls |-> 0] /\ verdict = [c \in Calls |-> "none"]
    /\ payload = [c \in Calls |-> FALSE] /\ cut = {}
    /\ did = [c \in Calls |-> {}] /\ stolen = {} /\ strangers = Strangers

-----------------------------------------------------------------------------
(* execute_apply_patch                                                      *)

Report(c, s) == status' = [status EXCEPT ![c][at[c]] = s]

(* apply_patch_failure: the sections after this one stay not_attempted *)
Fail(c, s) ==
    /\ Report(c, s) /\ pc' = [pc EXCEPT ![c] = "done"] /\ UNCHANGED at

(* on to the next section of the commit loop, or to the answer *)
NextSection(c) ==
    IF at[c] = Len(Sections[c])
    THEN pc' = [pc EXCEPT ![c] = "done"] /\ UNCHANGED at
    ELSE pc' = [pc EXCEPT ![c] = "commit"] /\ at' = [at EXCEPT ![c] = @ + 1]

(* FilePatch::plan on a snapshot: add wants no file, the others want one *)
Plannable(c, content) == (Op(c) = "add") <=> ~content.there

(* an update may turn out to change nothing *)
Plans(c, content) ==
    CASE Op(c) = "delete" -> {[expected |-> content, new |-> Missing, changed |-> TRUE]}
      [] Op(c) = "add" -> {[expected |-> content, new |-> Text({c}), changed |-> TRUE]}
      [] Op(c) = "update" ->
            {[expected |-> content, new |-> Text(content.edits \cup {c}), changed |-> TRUE],
             [expected |-> content, new |-> content, changed |-> FALSE]}

(* prepare_file_patch: no target is written until every section is planned *)
Prepare(c) ==
    /\ pc[c] = "prepare" /\ Plannable(c, file[Path(c)])
    /\ \E p \in Plans(c, file[Path(c)]) : plan' = [plan EXCEPT ![c] = Append(@, p)]
    /\ IF at[c] = Len(Sections[c])
       THEN pc' = [pc EXCEPT ![c] = "commit"] /\ at' = [at EXCEPT ![c] = 1]
       ELSE at' = [at EXCEPT ![c] = @ + 1] /\ UNCHANGED pc
    /\ UNCHANGED <<file, lock, status, scriptVars, ghosts, strangers>>

(* the snapshot cannot be read or is too large, or no plan fits it *)
PrepareFails(c) ==
    /\ pc[c] = "prepare"
    /\ Fail(c, "failed")
    /\ UNCHANGED <<file, lock, plan, scriptVars, ghosts, strangers>>

Planned(c) == plan[c][at[c]]

SkipUnchanged(c) ==
    /\ pc[c] = "commit" /\ ~Planned(c).changed
    /\ Report(c, "unchanged") /\ NextSection(c)
    /\ UNCHANGED <<file, lock, plan, scriptVars, ghosts, strangers>>

NeedsPayload(c) == c \in Sudo /\ Op(c) # "delete"

(* connection, local stage or payload upload fail before the script.  An   *)
(* upload that succeeded without its answer leaves the payload.            *)
CommitFails(c) ==
    /\ pc[c] = "commit" /\ Planned(c).changed
    /\ Fail(c, "failed")
    /\ \/ UNCHANGED <<payload, cut>>
       \/ /\ NeedsPayload(c)
          /\ payload' = [payload EXCEPT ![c] = TRUE] /\ cut' = cut \cup {c}
    /\ UNCHANGED <<file, lock, plan, sp, stage, spins, verdict, did, stolen, strangers>>

UploadPayload(c) ==
    /\ pc[c] = "commit" /\ Planned(c).changed /\ NeedsPayload(c)
    /\ payload' = [payload EXCEPT ![c] = TRUE]
    /\ pc' = [pc EXCEPT ![c] = "run"]
    /\ UNCHANGED <<file, lock, at, plan, status, sp, stage, spins, verdict, ghosts,
                   strangers>>

RunScript(c) ==
    /\ pc[c] = (IF NeedsPayload(c) THEN "run" ELSE "commit") /\ Planned(c).changed
    /\ pc' = [pc EXCEPT ![c] = "await"]
    /\ sp' = [sp EXCEPT ![c] = "start"] /\ spins' = [spins EXCEPT ![c] = 0]
    /\ verdict' = [verdict EXCEPT ![c] = "none"]
    /\ UNCHANGED <<file, lock, at, plan, status, stage, payload, ghosts, strangers>>

(* cleanup_remote_sudo_payload, of which no answer is asked *)
RemovePayload(c) ==
    \/ payload' = [payload EXCEPT ![c] = FALSE] /\ UNCHANGED cut
    \/ payload[c] /\ UNCHANGED payload /\ cut' = cut \cup {c}

AnsweredThen(c, goesOn) ==
    /\ pc[c] = "await" /\ sp[c] = "exited"
    /\ RemovePayload(c)
    /\ CASE verdict[c] = "ok" -> Report(c, "applied") /\ NextSection(c)
         [] verdict[c] = "marker" /\ goesOn -> Report(c, "failed") /\ NextSection(c)
         [] verdict[c] = "marker" /\ ~goesOn -> Fail(c, "failed")
         [] verdict[c] = "silent" -> Fail(c, "unknown")
    /\ UNCHANGED <<file, lock, plan, sp, stage, spins, verdict, did, stolen, strangers>>

(* Mutant: the commit loop goes on after a section that failed *)
AnsweredGoesOn(c) == AnsweredThen(c, TRUE)

(* the answer of commit_remote_text_file: exit 0, a marker, neither *)
Answered(c) == AnsweredThen(c, FALSE)

GiveUpAs(c, s) ==
    /\ pc[c] = "await"
    /\ Fail(c, s)
    /\ cut' = cut \cup {c} /\ payload' \in {payload, [payload EXCEPT ![c] = FALSE]}
    /\ UNCHANGED <<file, lock, plan, sp, stage, spins, verdict, did, stolen, strangers>>

(* Mutant: a lost answer is reported as a failure *)
GiveUpFailed(c) == GiveUpAs(c, "failed")

(* Mutant: nothing ends the wait for a script that is gone *)
GiveUpWhileStaging(c) == sp[c] = "start" /\ GiveUpAs(c, "unknown")

(* timeout or lost connection: remote_commit_failed, reported as unknown *)
GiveUp(c) == GiveUpAs(c, "unknown")

-----------------------------------------------------------------------------
(* The remote script                                                        *)

ScriptGoes(c, label) == sp' = [sp EXCEPT ![c] = label]

(* exit with this status: the EXIT trap cleans up *)
Exits(c, v) == ScriptGoes(c, "clean") /\ verdict' = [verdict EXCEPT ![c] = v]

(* checks of parent, permission and sha256, then the stage; the standard   *)
(* input of a call that is gone may have ended early                       *)
ScriptStages(c) ==
    /\ sp[c] = "start"
    /\ \/ Exits(c, "marker") /\ UNCHANGED stage
       \/ /\ Op(c) = "delete"
          /\ ScriptGoes(c, "lock") /\ UNCHANGED <<verdict, stage>>
       \/ /\ Op(c) # "delete" /\ (c \in Sudo => payload[c])
          /\ \E s \in {"part", "whole"} :
                /\ s = "part" => c \in cut \ Sudo
                /\ stage' = [stage EXCEPT ![c] = s]
          /\ ScriptGoes(c, "hash") /\ UNCHANGED verdict
    /\ UNCHANGED <<file, lock, callVars, spins, payload, ghosts, strangers>>

HashIf(c, compared) ==
    /\ sp[c] = "hash"
    /\ IF compared /\ stage[c] # "whole"
       THEN Exits(c, "marker") ELSE ScriptGoes(c, "lock") /\ UNCHANGED verdict
    /\ UNCHANGED <<file, lock, callVars, stage, spins, payload, ghosts, strangers>>

(* Mutant: the staged file is not compared with the planned content *)
HashUnchecked(c) == HashIf(c, FALSE)

ScriptHashes(c) == HashIf(c, TRUE)

SpinsUpTo(c, limit) ==
    /\ spins' = [spins EXCEPT ![c] = @ + 1]
    /\ IF spins[c] + 1 >= limit
       THEN Exits(c, "marker") ELSE ScriptGoes(c, "lock") /\ UNCHANGED verdict

(* one more spin, or lock_busy *)
Spins(c) == SpinsUpTo(c, MaxSpins)

(* mkdir takes the lock, or finds it taken and perhaps stale, or fails *)
ScriptLocks(c) ==
    /\ sp[c] = "lock"
    /\ \/ /\ lock[Path(c)].owner = Nobody
          /\ lock' = [lock EXCEPT ![Path(c)].owner = c]
          /\ ScriptGoes(c, "stamp") /\ UNCHANGED <<spins, verdict>>
       \/ /\ lock[Path(c)].owner = Nobody
          /\ Exits(c, "marker") /\ UNCHANGED <<lock, spins>>
       \/ /\ lock[Path(c)].stale
          /\ ScriptGoes(c, "reclaim") /\ UNCHANGED <<lock, spins, verdict>>
       \/ /\ lock[Path(c)].owner # Nobody /\ ~lock[Path(c)].stale
          /\ Spins(c) /\ UNCHANGED lock
    /\ UNCHANGED <<file, callVars, stage, payload, ghosts, strangers>>

(* rm -f of the files in the lock directory, whosever it is by now *)
Unstamp(p) == lock' = [lock EXCEPT ![p].stamped = FALSE, ![p].stale = FALSE]

(* rmdir works on an empty directory only *)
RemoveLockDir(c) ==
    LET p == Path(c) IN
    IF lock[p].owner # Nobody /\ ~lock[p].stamped
    THEN /\ lock' = [lock EXCEPT ![p] = Unlocked]
         /\ stolen' = IF lock[p].owner # c /\ sp[lock[p].owner] \notin {"exited", "dead"}
                      THEN stolen \cup {p} ELSE stolen
    ELSE UNCHANGED <<lock, stolen>>

(* reclaim_stale_lock, after started_at was read *)
ScriptReclaims(c) ==
    /\ \/ /\ sp[c] = "reclaim"
          /\ Unstamp(Path(c)) /\ ScriptGoes(c, "reclaim_rmdir")
          /\ UNCHANGED <<stolen, spins, verdict>>
       \/ /\ sp[c] = "reclaim_rmdir"
          /\ RemoveLockDir(c)
          /\ IF lock'[Path(c)] # lock[Path(c)]
             THEN ScriptGoes(c, "lock") /\ UNCHANGED <<spins, verdict>>
             ELSE Spins(c)
    /\ UNCHANGED <<file, callVars, stage, payload, cut, did, strangers>>

(* started_at and operation; errors are ignored *)
ScriptStamps(c) ==
    /\ sp[c] = "stamp"
    /\ \/ /\ lock[Path(c)].owner # Nobody
          /\ lock' = [lock EXCEPT ![Path(c)].stamped = TRUE, ![Path(c)].stale = FALSE]
       \/ lock[Path(c)].owner = Nobody /\ UNCHANGED lock
    /\ ScriptGoes(c, "check")
    /\ UNCHANGED <<file, callVars, stage, spins, verdict, payload, ghosts, strangers>>

CheckIf(c, compared) ==
    /\ sp[c] = "check"
    /\ IF compared /\ file[Path(c)] # Planned(c).expected
       THEN Exits(c, "marker") ELSE ScriptGoes(c, "replace") /\ UNCHANGED verdict
    /\ UNCHANGED <<file, lock, callVars, stage, spins, payload, ghosts, strangers>>

(* Mutant: the target is replaced whatever has become of it *)
CheckSkipped(c) == CheckIf(c, FALSE)

(* current_hash against the snapshot's *)
ScriptChecks(c) == CheckIf(c, TRUE)

(* ln never replaces, mv does, rm wants a file; each of them may fail too *)
ReplaceBy(c, possible) ==
    /\ sp[c] = "replace"
    /\ \/ /\ possible
          /\ file' = [file EXCEPT ![Path(c)] =
                        [Planned(c).new EXCEPT !.whole = (stage[c] # "part")]]
          /\ did' = [did EXCEPT ![c] = @ \cup {at[c]}]
          /\ stage' = [stage EXCEPT ![c] = IF Op(c) = "update" THEN "none" ELSE @]
          /\ Exits(c, "ok") \/ (Op(c) = "add" /\ Exits(c, "silent"))
       \/ Exits(c, "marker") /\ UNCHANGED <<file, did, stage>>
    /\ UNCHANGED <<lock, callVars, spins, payload, cut, stolen, strangers>>

(* Mutant: a new file is moved into its place like an updated one *)
ReplaceByMove(c) == ReplaceBy(c, Op(c) = "delete" => file[Path(c)].there)

ScriptReplaces(c) ==
    ReplaceBy(c, CASE Op(c) = "add" -> ~file[Path(c)].there
                   [] Op(c) = "update" -> TRUE
                   [] Op(c) = "delete" -> file[Path(c)].there)

(* cleanup: also when the lock is not this script's *)
CleanRemoving(c, staged) ==
    /\ \/ /\ sp[c] = "clean"
          /\ stage' = [stage EXCEPT ![c] = IF staged THEN @ ELSE "none"]
          /\ Unstamp(Path(c)) /\ ScriptGoes(c, "clean_rmdir")
          /\ UNCHANGED <<stolen, payload>>
       \/ /\ sp[c] = "clean_rmdir"
          /\ RemoveLockDir(c) /\ ScriptGoes(c, "exited")
          /\ payload' = [payload EXCEPT ![c] = FALSE] /\ UNCHANGED stage
    /\ UNCHANGED <<file, callVars, spins, verdict, cut, did, strangers>>

(* Mutant: a staged file that was not moved away is left *)
CleanLockOnly(c) == CleanRemoving(c, stage[c] # "part")

ScriptCleans(c) == CleanRemoving(c, FALSE)

Running(c) == sp[c] \notin {"none", "exited", "dead"}

(* hang-up, reboot: no trap runs *)
ScriptDies(c) ==
    /\ Running(c)
    /\ ScriptGoes(c, "dead") /\ cut' = cut \cup {c}
    /\ UNCHANGED <<file, lock, callVars, stage, spins, verdict, payload, did, stolen,
                   strangers>>

(* FILE_EDIT_LOCK_STALE_AFTER_SECS pass *)
LockAges(p) ==
    /\ MayAge /\ lock[p].stamped /\ ~lock[p].stale
    /\ lock' = [lock EXCEPT ![p].stale = TRUE]
    /\ UNCHANGED <<file, callVars, scriptVars, ghosts, strangers>>

StrangerReplaces(p) ==
    /\ p \in strangers
    /\ strangers' = strangers \ {p}
    /\ file' = [file EXCEPT ![p] = Text({Nobody})]
    /\ UNCHANGED <<lock, callVars, scriptVars, ghosts>>

Call(c) == \/ Prepare(c) \/ PrepareFails(c) \/ SkipUnchanged(c) \/ CommitFails(c)
           \/ UploadPayload(c) \/ RunScript(c) \/ Answered(c) \/ GiveUp(c)
Script(c) == \/ ScriptStages(c) \/ ScriptHashes(c) \/ ScriptLocks(c)
             \/ ScriptReclaims(c) \/ ScriptStamps(c) \/ ScriptChecks(c)
             \/ ScriptReplaces(c) \/ ScriptCleans(c) \/ ScriptDies(c)
Next == \/ \E c \in Calls : Call(c) \/ Script(c)
        \/ \E p \in Paths : LockAges(p) \/ StrangerReplaces(p)

Spec == Init /\ [][Next]_vars

(* Every remote command of a call has a timeout; a script that has the     *)
(* processor goes on.                                                      *)
FairSpec == Spec /\ \A c \in Calls : WF_vars(Call(c)) /\ WF_vars(Script(c))

-----------------------------------------------------------------------------
(* Properties                                                               *)

(* What the call reports is what its scripts did: an applied section was   *)
(* replaced by this call, a failed, unchanged or not attempted one was     *)
(* not, and never will be by a script that outlives the call; only         *)
(* "unknown" leaves it open.  "No target writes until every section has a  *)
(* valid snapshot and plan", and nothing is written after a section that   *)
(* did not succeed.                                                        *)
ReportsAreTrue ==
    \A c \in Calls :
        /\ \A i \in DOMAIN Sections[c] :
              /\ status[c][i] = "applied" => i \in did[c]
              /\ pc[c] = "done" /\ status[c][i] \in {"failed", "unchanged", "not_attempted"} =>
                     i \notin did[c] /\ ~(Running(c) /\ at[c] = i)
        /\ \A i \in did[c] :
              /\ Len(plan[c]) = Len(Sections[c])
              /\ \A j \in 1..(i - 1) : status[c][j] \in {"applied", "unchanged"}

(* What the client concludes from the status of a section. *)
Concluded(c, i) ==
    CASE status[c][i] = "applied" -> "done"
      [] status[c][i] = "unknown" -> "unknown"
      [] status[c][i] \in {"failed", "unchanged"} -> "never"
      [] OTHER -> "none"

AllSections == UNION {{c} \X DOMAIN Sections[c] : c \in Calls}

Section == INSTANCE AtMostOnce WITH
    Calls <- AllSections,
    happened <- {e \in AllSections : e[2] \in did[e[1]]},
    verdict <- [e \in AllSections |-> Concluded(e[1], e[2])]

(* Each section of a patch implements AtMostOnce: one replacement of its    *)
(* target, one status, and a script that outlives its call replaces nothing *)
(* the call has called failed or unchanged.                                 *)
ImplementsAtMostOnce == Section!Spec

(* No target ever holds a part of the planned content, whenever the call,  *)
(* its connection or its script ends; and a section that adds a file       *)
(* replaces nothing, even when the file appears after the script's own     *)
(* check.                                                                  *)
ReplacedWhole ==
    /\ [](\A p \in Paths : file[p].whole)
    /\ [][\A c \in Calls : did'[c] # did[c] /\ Op(c) = "add" => ~file[Path(c)].there]_vars

Deleted(p) ==
    \E c \in Calls : \E i \in did[c] : Sections[c][i] = [path |-> p, op |-> "delete"]

Lost(c, i) ==
    /\ status[c][i] = "applied" /\ Sections[c][i].op # "delete"
    /\ c \notin file[Sections[c][i].path].edits

(* An edit that was reported as applied is in the file, whatever other     *)
(* calls did, unless the file was deleted or a program without the lock    *)
(* replaced it, or the lock was taken away from a running script.          *)
LostOnlyIfStolen ==
    \A c \in Calls : \A i \in DOMAIN Sections[c] :
        LET p == Sections[c][i].path IN
        Lost(c, i) => p \in stolen \cup (Strangers \ strangers) \/ Deleted(p)

(* A call that lost no answer and no script leaves no staged file, no      *)
(* payload and no lock of its own on the host.  Where a lock was removed   *)
(* under its owner, that one may stamp the next owner's, which is then     *)
(* left to a later call to remove.                                         *)
NoLeftovers ==
    \A c \in Calls \ cut : pc[c] = "done" =>
        /\ stage[c] = "none" /\ ~payload[c]
        /\ \A p \in Paths \ stolen : lock[p].owner # c

(* Every call comes to an answer, however the scripts of others hold or    *)
(* leave the lock.                                                         *)
CallsEnd == \A c \in Calls : <>(pc[c] = "done")

(* "existing per-file SHA checks, locks, and staging" (README.md:286): two *)
(* calls on one file are serialised by the lock, so an edit reported as    *)
(* applied is not lost to another call's.                                  *)
AppliedEditsKept ==
    \A c \in Calls : \A i \in DOMAIN Sections[c] : ~Lost(c, i)
=============================================================================
